--------------------------- MODULE HaltCheckProofs ---------------------------
(***************************************************************************)
(* Machine-checked proofs about the halt-check pass itself, for every set   *)
(* of programs: what inserting a check does to the representation, the      *)
(* compile order, that the checks come often enough, and that no assertion  *)
(* of the pass fires.                                                       *)
(***************************************************************************)
EXTENDS HaltAnalysisProofs

-----------------------------------------------------------------------------
(* Shapes *)

\* The statements of the program, and the ones that are safepoints.
Statements == {s \in SourceBlocks \X Nat : s[2] \in DOMAIN prog.body[s[1]]}
Points == {s \in Statements : IsSafepoint(s)}

\* The representation: every successor is a block other than the entry.
IrShape ==
    /\ succ \in Seq(Seq(Blocks \ {Entry})) /\ Len(prog.succ) <= Len(succ)
    /\ stmts \in Seq(Seq(Statements)) /\ Len(stmts) = Len(succ)
    /\ checked \in SUBSET Blocks
    /\ leave \in (Blocks \ {Entry}) \cup {0}

\* The halt states: a suffix is no longer than the safepoints counted.
GoodStates == {s \in [remaining : 1..N, suffix : Seq(Points)] : Len(s.suffix) <= N - s.remaining}

OutgoingShape ==
    /\ DOMAIN outgoing \in SUBSET (Blocks \X Blocks)
    /\ \A e \in DOMAIN outgoing : outgoing[e] \in GoodStates

Works == [component : Nat, next : Nat \ {0}, states : Seq(GoodStates), fixed : Nat, target : Nat,
          state : GoodStates, block : Nat, index : Nat, seen : BOOLEAN]

WorkShape ==
    /\ work \in Works
    /\ work.component \in DOMAIN graph.topo_order
    /\ pc = "compensate" => work.fixed # 0 /\ work.target \in 1..N
    /\ pc = "blocks" => /\ work.next \in DOMAIN Component
                        /\ work.block \in Blocks /\ work.index # 0

Shape ==
    /\ AnalysisInv /\ IrShape /\ OutgoingShape
    /\ pc \in {"validate", "scc", "order", "drain", "compensate", "blocks", "sort",
               "done", "panic", "assert_failed"}
    /\ Inserting => loc \in [Points -> Blocks \X Nat] /\ WorkShape

-----------------------------------------------------------------------------
(* Inserting a halt check *)

\* A sequence with one element replaced and one or two appended.
Extension(s, b, x, y, fresh) == [s EXCEPT ![b] = x] \o <<y>> \o fresh

\* What its elements are.
IsExtended(r, s, b, x, y, z, fresh, S) ==
    /\ r \in Seq(S) /\ Len(r) = Len(s) + 1 + Len(fresh) /\ Len(s) \in Nat
    /\ r[b] = x /\ r[Len(s) + 1] = y /\ (fresh = <<z>> => r[Len(s) + 2] = z)
    /\ \A k \in DOMAIN s : k \in DOMAIN r /\ (k # b => r[k] = s[k])

LEMMA Extended ==
    ASSUME NEW S, NEW s \in Seq(S), NEW b \in DOMAIN s, NEW x \in S, NEW y \in S, NEW z \in S,
           NEW fresh \in {<<>>, <<z>>}
    PROVE  IsExtended(Extension(s, b, x, y, fresh), s, b, x, y, z, fresh, S)
<1> DEFINE r == Extension(s, b, x, y, fresh)
           a == [s EXCEPT ![b] = x]
           c == <<y>>
           n == Len(s)
<1>1. a \in Seq(S) /\ Len(a) = n /\ \A k \in DOMAIN s : a[k] = IF k = b THEN x ELSE s[k]
  BY ReplacedAt
<1>2. c \in Seq(S) /\ Len(c) = 1 /\ c[1] = y /\ fresh \in Seq(S) /\ Len(fresh) \in {0, 1}
      /\ (fresh = <<z>> => Len(fresh) = 1 /\ fresh[1] = z)
  <2>1. c \in Seq(S) /\ Len(c) = 1 /\ c[1] = y
    OBVIOUS
  <2>2. CASE fresh = <<>>
    BY <2>1, <2>2
  <2>3. CASE fresh = <<z>>
    BY <2>1, <2>3
  <2> QED
    BY <2>2, <2>3
<1>3. n \in Nat /\ DOMAIN s = 1..n
  BY SeqFacts
<1>4. r = (a \o c) \o fresh
  BY DEF Extension
<1> HIDE DEF a, c, n, r
<1>5. DOMAIN a = 1..n /\ DOMAIN c = 1..1 /\ DOMAIN fresh = 1..Len(fresh)
  BY <1>1, <1>2, <1>3, SeqFacts
<1>6. /\ a \o c \in Seq(S) /\ Len(a \o c) = n + 1
      /\ \A i \in DOMAIN a : i \in DOMAIN (a \o c) /\ (a \o c)[i] = a[i]
      /\ (a \o c)[n + 1] = y /\ n + 1 \in DOMAIN (a \o c)
  <2>0. a \in Seq(S) /\ c \in Seq(S)
    BY <1>1, <1>2
  <2>1. /\ a \o c \in Seq(S) /\ Len(a \o c) = Len(a) + Len(c)
        /\ \A i \in DOMAIN a : i \in DOMAIN (a \o c) /\ (a \o c)[i] = a[i]
        /\ \A i \in DOMAIN c : Len(a) + i \in DOMAIN (a \o c) /\ (a \o c)[Len(a) + i] = c[i]
    BY <2>0, Concatenated
  <2>2. 1 \in DOMAIN c
    BY <1>5
  <2> QED
    BY <1>1, <1>2, <2>1, <2>2
<1>7. /\ r \in Seq(S) /\ Len(r) = n + 1 + Len(fresh)
      /\ \A i \in DOMAIN (a \o c) : i \in DOMAIN r /\ r[i] = (a \o c)[i]
      /\ \A i \in DOMAIN fresh : r[n + 1 + i] = fresh[i]
  <2> DEFINE d == a \o c
  <2>1. d \in Seq(S) /\ Len(d) = n + 1 /\ r = d \o fresh
    BY <1>4, <1>6
  <2> HIDE DEF d
  <2>0. d \in Seq(S) /\ fresh \in Seq(S)
    BY <1>2, <2>1
  <2>2. /\ d \o fresh \in Seq(S) /\ Len(d \o fresh) = Len(d) + Len(fresh)
        /\ \A i \in DOMAIN d : i \in DOMAIN (d \o fresh) /\ (d \o fresh)[i] = d[i]
        /\ \A i \in DOMAIN fresh : (d \o fresh)[Len(d) + i] = fresh[i]
    BY <2>0, Concatenated
  <2> QED
    BY <2>1, <2>2 DEF d
<1>8. fresh = <<z>> => r[n + 2] = z
  <2> SUFFICES ASSUME fresh = <<z>> PROVE r[n + 2] = z
    OBVIOUS
  <2>1. 1 \in DOMAIN fresh /\ fresh[1] = z
    BY <1>2, <1>5
  <2>2. r[n + 1 + 1] = z
    BY <1>7, <2>1
  <2>3. n + 1 + 1 = n + 2
    BY <1>3
  <2> QED
    BY <2>2, <2>3
<1>9. r[n + 1] = y
  BY <1>6, <1>7
<1>10. \A k \in DOMAIN s : k \in DOMAIN r /\ r[k] = IF k = b THEN x ELSE s[k]
  BY <1>1, <1>3, <1>5, <1>6, <1>7
<1> QED
  BY <1>3, <1>7, <1>8, <1>9, <1>10 DEF n, r, IsExtended

\* What a split does: `block` keeps its first i statements, the continuation has
\* the others and its successors, and the block that takes the halt reason is
\* made when there is none.
Split(block, i) ==
    /\ \A b : b \in Blocks' <=> b \in Blocks \/ b = Continuation \/ b = LeaveBlock
    /\ Continuation \notin Blocks /\ Continuation # LeaveBlock
    /\ Continuation # Entry /\ LeaveBlock # Entry
    /\ leave' = LeaveBlock
    /\ (leave = 0 <=> LeaveBlock \notin Blocks)
    /\ succ'[block] = <<Continuation, LeaveBlock>>
    /\ succ'[Continuation] = succ[block]
    /\ leave = 0 => succ'[LeaveBlock] = <<>>
    /\ \A b \in Blocks : b # block => succ'[b] = succ[b]
    /\ stmts'[block] = SubSeq(stmts[block], 1, i)
    /\ stmts'[Continuation] = SubSeq(stmts[block], i + 1, Len(stmts[block]))
    /\ leave = 0 => stmts'[LeaveBlock] = <<>>
    /\ \A b \in Blocks : b # block => stmts'[b] = stmts[b]
    /\ checked' = checked \cup (IF block \in checked THEN {block, Continuation} ELSE {block})

LEMMA BlocksFacts ==
    ASSUME prog \in Programs, IrShape
    PROVE  /\ Len(succ) \in Nat /\ Blocks = 1..Len(succ) /\ Blocks = DOMAIN stmts
           /\ SourceBlocks \subseteq Blocks /\ Entry \in Blocks /\ IsFiniteSet(Blocks)
           /\ \A b \in Blocks : /\ succ[b] \in Seq(Blocks \ {Entry}) /\ stmts[b] \in Seq(Statements)
                                /\ AsSet(succ[b]) \subseteq Blocks \ {Entry}
<1>1. succ \in Seq(Seq(Blocks \ {Entry})) /\ stmts \in Seq(Seq(Statements)) /\ Len(stmts) = Len(succ)
  BY DEF IrShape
<1>2. /\ Len(succ) \in Nat /\ DOMAIN succ = 1..Len(succ) /\ DOMAIN stmts = 1..Len(succ)
      /\ \A b \in DOMAIN succ : succ[b] \in Seq(Blocks \ {Entry})
      /\ \A b \in DOMAIN stmts : stmts[b] \in Seq(Statements)
  BY <1>1, SeqFacts
<1>3. \A b \in Blocks : AsSet(succ[b]) \subseteq Blocks \ {Entry}
  BY <1>2, SeqFacts DEF Blocks
<1>4. /\ SourceBlocks = 1..Len(prog.succ) /\ Len(prog.succ) \in Nat
      /\ Entry \in SourceBlocks
  BY SourceFacts
<1>5. SourceBlocks \subseteq Blocks
  BY <1>2, <1>4 DEF Blocks, IrShape
<1>6. IsFiniteSet(Blocks)
  BY <1>2, FS_Interval DEF Blocks
<1> QED
  BY <1>2, <1>3, <1>4, <1>5, <1>6 DEF Blocks

LEMMA SubSeqFacts ==
    ASSUME NEW S, NEW s \in Seq(S), NEW m \in Nat \ {0}, NEW n \in Nat, n <= Len(s)
    PROVE  /\ SubSeq(s, m, n) \in Seq(S)
           /\ Len(SubSeq(s, m, n)) = IF m <= n THEN n - m + 1 ELSE 0
           /\ \A k \in 1..(n - m + 1) : SubSeq(s, m, n)[k] = s[m + k - 1]
<1>1. Len(s) \in Nat /\ \A k \in 1..Len(s) : s[k] \in S
  BY SeqFacts
<1>2. \A k \in m..n : s[k] \in S
  BY <1>1
<1> QED
  BY <1>2, SubSeqProperties

LEMMA SplitFacts ==
    ASSUME prog \in Programs, IrShape, prog' = prog, NEW block \in Blocks,
           NEW i \in DOMAIN stmts[block], insert_halt_check_after(block, i)
    PROVE  IrShape' /\ Split(block, i)
<1> DEFINE C == Continuation
           L == LeaveBlock
           none == << <<>> >>
           fresh == IF leave = 0 THEN none ELSE <<>>
           n == Len(succ)
           V == Blocks \cup {C, L}
           S == V \ {Entry}
           head == SubSeq(stmts[block], 1, i)
           tail == SubSeq(stmts[block], i + 1, Len(stmts[block]))
<1>1. /\ n \in Nat /\ Blocks = 1..n /\ Blocks = DOMAIN stmts /\ Entry \in Blocks
      /\ \A b \in Blocks : succ[b] \in Seq(Blocks \ {Entry}) /\ stmts[b] \in Seq(Statements)
      /\ SourceBlocks \subseteq Blocks
  BY BlocksFacts
<1>2. /\ leave \in (Blocks \ {Entry}) \cup {0} /\ Len(stmts) = n /\ Len(prog.succ) <= n
      /\ succ \in Seq(Seq(Blocks \ {Entry})) /\ stmts \in Seq(Seq(Statements))
      /\ checked \in SUBSET Blocks
  BY DEF IrShape
<1>3. C = n + 1 /\ L = (IF leave # 0 THEN leave ELSE n + 2) /\ Entry = 1
  BY DEF Continuation, LeaveBlock, Entry
<1>4. /\ C \notin Blocks /\ C # L /\ C # Entry /\ L # Entry /\ (leave = 0 <=> L \notin Blocks)
      /\ C \in Nat /\ L \in Nat
  BY <1>1, <1>2, <1>3, SMTT(30)
<1> HIDE DEF C, L, n
<1>5. <<C, L>> \in Seq(S) /\ succ[block] \in Seq(S) /\ <<>> \in Seq(S) /\ succ \in Seq(Seq(S))
  <2>1. C \in S /\ L \in S
    BY <1>4
  <2>2. \A b \in Blocks : succ[b] \in Seq(S)
    <3>1. \A b \in Blocks : \A k \in DOMAIN succ[b] : succ[b][k] \in S
      BY <1>1, SeqFacts
    <3> QED
      BY <1>1, <3>1, SeqNarrow
  <2>3. succ \in Seq(Seq(S))
    BY <1>2, <2>2, SeqNarrow DEF Blocks
  <2> QED
    BY <2>1, <2>2, <2>3
<1>6. fresh \in {<<>>, none} /\ Len(fresh) = (IF leave = 0 THEN 1 ELSE 0)
  OBVIOUS
<1>7. /\ succ' = [succ EXCEPT ![block] = <<C, L>>] \o <<succ[block]>> \o fresh
      /\ stmts' = [stmts EXCEPT ![block] = head] \o <<tail>> \o fresh
      /\ leave' = L
      /\ checked' = checked \cup (IF block \in checked THEN {block, C} ELSE {block})
  BY DEF insert_halt_check_after, tail_stmts, C, L, none
<1> HIDE DEF none, S
<1>8. /\ succ' \in Seq(Seq(S)) /\ Len(succ') = n + 1 + Len(fresh)
      /\ succ'[block] = <<C, L>> /\ succ'[n + 1] = succ[block]
      /\ (fresh = none => succ'[n + 2] = <<>>)
      /\ \A k \in DOMAIN succ : k # block => succ'[k] = succ[k]
  <2> DEFINE Q == Seq(S)
             x == <<C, L>>
             y == succ[block]
             z == <<>>
  <2>1. succ \in Seq(Q) /\ block \in DOMAIN succ /\ x \in Q /\ y \in Q /\ z \in Q
        /\ fresh \in {<<>>, <<z>>}
    BY <1>5, <1>6 DEF none, Blocks
  <2>2. succ' = Extension(succ, block, x, y, fresh)
    BY <1>7 DEF Extension
  <2> HIDE DEF Q, x, y, z, fresh
  <2>3. IsExtended(Extension(succ, block, x, y, fresh), succ, block, x, y, z, fresh, Q)
    BY <2>1, Extended
  <2>4. IsExtended(succ', succ, block, x, y, z, fresh, Q)
    BY <2>2, <2>3
  <2> QED
    BY <2>4 DEF n, Q, x, y, z, none, IsExtended
<1>9. head \in Seq(Statements) /\ tail \in Seq(Statements)
  <2> DEFINE s == stmts[block]
  <2>1. s \in Seq(Statements) /\ i \in 1..Len(s) /\ Len(s) \in Nat
    BY <1>1, SeqFacts
  <2> HIDE DEF s
  <2>2. i \in Nat /\ i <= Len(s) /\ i + 1 \in Nat \ {0} /\ Len(s) <= Len(s)
    BY <2>1
  <2>3. SubSeq(s, 1, i) \in Seq(Statements)
    BY <2>1, <2>2, SubSeqFacts
  <2>4. SubSeq(s, i + 1, Len(s)) \in Seq(Statements)
    BY <2>1, <2>2, SubSeqFacts
  <2> QED
    BY <2>3, <2>4 DEF s
<1> HIDE DEF head, tail
<1>10. /\ stmts' \in Seq(Seq(Statements)) /\ Len(stmts') = n + 1 + Len(fresh)
       /\ stmts'[block] = head /\ stmts'[n + 1] = tail
       /\ (fresh = none => stmts'[n + 2] = <<>>)
       /\ \A k \in DOMAIN stmts : k # block => stmts'[k] = stmts[k]
  <2> DEFINE Q == Seq(Statements)
             z == <<>>
  <2>1. stmts \in Seq(Q) /\ block \in DOMAIN stmts /\ head \in Q /\ tail \in Q /\ z \in Q
        /\ fresh \in {<<>>, <<z>>} /\ Len(stmts) = n
    BY <1>1, <1>2, <1>6, <1>9 DEF none
  <2>2. stmts' = Extension(stmts, block, head, tail, fresh)
    BY <1>7 DEF Extension
  <2> HIDE DEF Q, z, fresh
  <2>3. IsExtended(Extension(stmts, block, head, tail, fresh), stmts, block, head, tail, z, fresh, Q)
    BY <2>1, Extended
  <2>4. IsExtended(stmts', stmts, block, head, tail, z, fresh, Q)
    BY <2>2, <2>3
  <2> QED
    BY <2>1, <2>4 DEF Q, z, none, IsExtended
<1>11. /\ Len(succ') \in Nat /\ DOMAIN succ' = 1..Len(succ') /\ Len(succ') = Len(stmts')
       /\ Len(succ') = IF leave = 0 THEN n + 2 ELSE n + 1
  <2>1. DOMAIN succ' = 1..Len(succ')
    BY <1>8, SeqFacts
  <2>2. /\ n \in Nat /\ Len(succ') = n + 1 + Len(fresh) /\ Len(stmts') = n + 1 + Len(fresh)
        /\ Len(fresh) = IF leave = 0 THEN 1 ELSE 0
    BY <1>1, <1>6, <1>8, <1>10, Zenon
  <2> HIDE DEF fresh
  <2> QED
    BY <2>1, <2>2
<1>12. \A b : b \in 1..Len(succ') <=> b \in 1..n \/ b = C \/ b = L
  <2>1. C = n + 1
    BY <1>3 DEF C, n
  <2>2. \A m \in Nat : \A b : /\ b \in 1..(m + 2) <=> b \in 1..m \/ b = m + 1 \/ b = m + 2
                             /\ b \in 1..(m + 1) <=> b \in 1..m \/ b = m + 1
    OBVIOUS
  <2>3. CASE leave = 0
    <3>1. L = n + 2 /\ Len(succ') = n + 2
      BY <1>3, <1>11, <2>3 DEF L, n
    <3>2. \A b : b \in 1..(n + 2) <=> b \in 1..n \/ b = n + 1 \/ b = n + 2
      <4>1. ASSUME NEW m \in Nat, NEW b
            PROVE  b \in 1..(m + 2) <=> b \in 1..m \/ b = m + 1 \/ b = m + 2
        OBVIOUS
      <4> QED
        BY <1>1, <4>1, Zenon
    <3> QED
      BY <2>1, <3>1, <3>2, Zenon
  <2>4. CASE leave # 0
    <3>1. L \in 1..n /\ Len(succ') = n + 1
      BY <1>1, <1>4, <1>11, <2>4
    <3>2. \A b : b \in 1..(n + 1) <=> b \in 1..n \/ b = n + 1
      BY <1>1, <2>2
    <3> QED
      BY <2>1, <3>1, <3>2, Zenon
  <2> QED
    BY <2>3, <2>4
<1>13. Blocks' = V
  <2>1. \A b : b \in Blocks' <=> b \in Blocks \/ b = C \/ b = L
    BY <1>1, <1>11, <1>12 DEF Blocks
  <2> QED
    BY <2>1
<1>14. Split(block, i)
  <2>1. fresh = none <=> leave = 0
    BY DEF none
  <2>2. L = n + 2 \/ leave # 0
    BY <1>3 DEF L, n
  <2>3. C = n + 1
    BY <1>3 DEF C, n
  <2> HIDE DEF fresh
  <2> QED
    BY <1>1, <1>4, <1>7, <1>8, <1>10, <1>13, <2>1, <2>2, <2>3
       DEF Split, C, L, head, tail, Blocks
<1>15. IrShape'
  <2>1. Statements' = Statements /\ Entry' = Entry
    BY DEF Statements, SourceBlocks, Entry
  <2>2. succ' \in Seq(Seq(Blocks' \ {Entry}))
    BY <1>8, <1>13 DEF S
  <2>3. checked' \in SUBSET Blocks' /\ leave' \in (Blocks' \ {Entry}) \cup {0}
    BY <1>2, <1>4, <1>7, <1>13
  <2>4. Len(prog'.succ) <= Len(succ')
    <3>1. Len(prog.succ) \in Nat
      BY SourceFacts
    <3> QED
      BY <1>1, <1>2, <1>11, <3>1
  <2> QED
    BY <1>10, <1>11, <2>1, <2>2, <2>3, <2>4 DEF IrShape
<1> QED
  BY <1>14, <1>15

-----------------------------------------------------------------------------
(* Halt states *)

LEMMA FullState ==
    ASSUME prog \in Programs, NEW r \in 1..N
    PROVE  from_remaining(r) \in GoodStates
<1>1. N \in Nat \ {0} /\ <<>> \in Seq(Points) /\ Len(<<>>) = 0
  BY SourceFacts
<1> QED
  BY <1>1 DEF from_remaining, GoodStates

\* A canonicalized state is one: what follows a reset is shorter than the suffix.
LEMMA Canonicalized ==
    ASSUME prog \in Programs, NEW s \in GoodStates, NEW reset
    PROVE  canonicalize(s, reset) \in GoodStates
<1> DEFINE hits == {i \in DOMAIN s.suffix : s.suffix[i] \in reset}
           last == CHOOSE i \in hits : \A j \in hits : j <= i
           n == Len(s.suffix)
           rest == SubSeq(s.suffix, last + 1, n)
<1>1. /\ N \in Nat \ {0} /\ s.remaining \in 1..N /\ s.suffix \in Seq(Points)
      /\ Len(s.suffix) <= N - s.remaining
  BY SourceFacts DEF GoodStates
<1>2. n \in Nat /\ DOMAIN s.suffix = 1..n
  BY <1>1, SeqFacts
<1>3. canonicalize(s, reset) = IF hits = {} THEN s ELSE [remaining |-> N - Len(rest), suffix |-> rest]
  BY DEF canonicalize
<1>4. CASE hits = {}
  BY <1>3, <1>4
<1>5. CASE hits # {}
  <2>1. last \in 1..n
    <3>1. hits \in SUBSET Nat /\ \A x \in hits : x <= n
      BY <1>2
    <3>2. \E x \in hits : \A y \in hits : y <= x
      <4> HIDE DEF hits, n
      <4> QED
        BY <1>2, <1>5, <3>1, Greatest
    <3>3. last \in hits
      <4> HIDE DEF hits
      <4> QED
        BY <3>2
    <3> QED
      BY <1>2, <3>3
  <2> HIDE DEF last, hits, n
  <2>2. last + 1 \in Nat \ {0} /\ n <= n
    BY <1>2, <2>1
  <2>3. rest \in Seq(Points) /\ Len(rest) = IF last + 1 <= n THEN n - (last + 1) + 1 ELSE 0
    BY <1>1, <1>2, <2>2, SubSeqFacts DEF n
  <2> HIDE DEF rest
  <2>4. Len(rest) \in Nat /\ Len(rest) < n /\ n <= N - s.remaining
    BY <1>1, <1>2, <2>1, <2>3 DEF n
  <2>5. N - Len(rest) \in 1..N /\ Len(rest) <= N - (N - Len(rest))
    BY <1>1, <1>2, <2>4
  <2> QED
    BY <1>3, <1>5, <2>3, <2>5 DEF GoodStates
<1> QED
  BY <1>4, <1>5

LEMMA SafepointProcessed ==
    ASSUME prog \in Programs, NEW s \in GoodStates, NEW stmt \in Points
    PROVE  process_safepoint(s, stmt) \in GoodStates
<1>1. /\ N \in Nat \ {0} /\ s.remaining \in 1..N /\ s.suffix \in Seq(Points)
      /\ Len(s.suffix) <= N - s.remaining
  BY SourceFacts DEF GoodStates
<1>2. CASE s.remaining = 1
  BY <1>1, <1>2, FullState DEF process_safepoint
<1>3. CASE s.remaining # 1
  <2> DEFINE longer == Append(s.suffix, stmt)
  <2>1. longer \in Seq(Points) /\ Len(longer) = Len(s.suffix) + 1 /\ Len(s.suffix) \in Nat
    BY <1>1
  <2> HIDE DEF longer
  <2>2. Len(longer) <= N - (s.remaining - 1) /\ ~(Len(longer) > N) /\ s.remaining - 1 \in 1..N
    BY <1>1, <1>3, <2>1
  <2>3. process_safepoint(s, stmt) = [remaining |-> s.remaining - 1, suffix |-> longer]
    BY <1>3, <2>2 DEF process_safepoint, longer
  <2> QED
    BY <2>1, <2>2, <2>3 DEF GoodStates
<1> QED
  BY <1>2, <1>3

\* A state with an insertion point has the safepoint to check.
LEMMA InsertionPoint ==
    ASSUME prog \in Programs, NEW s \in GoodStates, NEW target \in 1..N,
           has_insertion_point(s, target)
    PROVE  compensating_insertion_safepoint(s, target) \in Points
<1>1. /\ N \in Nat \ {0} /\ s.remaining \in 1..N /\ s.suffix \in Seq(Points)
      /\ Len(s.suffix) <= N - s.remaining
  BY SourceFacts DEF GoodStates
<1>2. Len(s.suffix) \in Nat /\ \A i \in 1..Len(s.suffix) : s.suffix[i] \in Points
  BY <1>1, SeqFacts
<1>3. Len(s.suffix) - (N - target) \in 1..Len(s.suffix)
  BY <1>1, <1>2 DEF has_insertion_point
<1> QED
  BY <1>2, <1>3 DEF compensating_insertion_safepoint

\* The components are lists of blocks of the source.
LEMMA ComponentFacts ==
    ASSUME prog \in Programs, GraphRight, NEW i \in DOMAIN graph.topo_order
    PROVE  LET c == graph.components[graph.topo_order[i]]
           IN c \in Seq(SourceBlocks) /\ Len(c) \in Nat \ {0} /\ DOMAIN c = 1..Len(c)
              /\ \A k \in 1..Len(c) : c[k] \in SourceBlocks
<1>1. /\ graph.topo_order \in Seq(DOMAIN graph.components)
      /\ graph.components \in Seq(Seq(SourceBlocks))
      /\ \A k \in DOMAIN graph.components : graph.components[k] # <<>>
  BY DEF GraphRight, Sorting, Partition, ComponentsFound
<1>2. graph.topo_order[i] \in DOMAIN graph.components
  BY <1>1, SeqFacts
<1> DEFINE c == graph.components[graph.topo_order[i]]
<1>3. c \in Seq(SourceBlocks) /\ c # <<>>
  BY <1>1, <1>2, SeqFacts
<1> HIDE DEF c
<1>4. Len(c) \in Nat \ {0} /\ DOMAIN c = 1..Len(c) /\ \A k \in 1..Len(c) : c[k] \in SourceBlocks
  BY <1>3, SeqFacts
<1> QED
  BY <1>3, <1>4 DEF c

-----------------------------------------------------------------------------
(* The shapes are kept *)

LEMMA ProgKept ==
    ASSUME prog' = prog
    PROVE  /\ N' = N /\ SourceBlocks' = SourceBlocks /\ Statements' = Statements
           /\ Points' = Points /\ GoodStates' = GoodStates /\ Works' = Works /\ Entry' = Entry
<1>1. N' = N /\ SourceBlocks' = SourceBlocks /\ Statements' = Statements /\ Entry' = Entry
  BY DEF N, SourceBlocks, Statements, Entry
<1>2. Points' = Points
  BY <1>1 DEF Points, IsSafepoint
<1>3. GoodStates' = GoodStates
  BY <1>1, <1>2 DEF GoodStates
<1> QED
  BY <1>1, <1>2, <1>3 DEF Works

LEMMA IrKept ==
    ASSUME prog' = prog, ir' = ir, IrShape
    PROVE  IrShape' /\ Blocks' = Blocks
<1>1. succ' = succ /\ stmts' = stmts /\ checked' = checked /\ leave' = leave
  BY DEF ir
<1>2. Blocks' = Blocks
  BY <1>1 DEF Blocks
<1> QED
  BY <1>1, <1>2, ProgKept DEF IrShape

LEMMA InsertShape ==
    ASSUME prog \in Programs, IrShape, OutgoingShape, loc \in [Points -> Blocks \X Nat],
           prog' = prog, NEW block \in Blocks, NEW i \in DOMAIN stmts[block],
           insert_halt_check_after(block, i)
    PROVE  /\ IrShape' /\ OutgoingShape' /\ Split(block, i)
           /\ loc' \in [Points -> Blocks' \X Nat]
<1>1. IrShape' /\ Split(block, i)
  BY SplitFacts
<1>2. Blocks \subseteq Blocks' /\ Continuation \in Blocks'
  BY <1>1 DEF Split
<1>3. loc' \in [Points -> Blocks' \X Nat]
  <2> DEFINE tail == tail_stmts(block, i)
             move(s) == \E j \in DOMAIN tail : tail[j] = s
             new(s) == <<Continuation, CHOOSE j \in DOMAIN tail : tail[j] = s>>
  <2>1. loc' = [s \in Points |-> IF move(s) THEN new(s) ELSE loc[s]]
    BY DEF insert_halt_check_after
  <2>2. DOMAIN tail \subseteq Nat
    <3>1. stmts[block] \in Seq(Statements)
      BY BlocksFacts
    <3>2. tail \in Seq(Statements)
      <4> DEFINE s == stmts[block]
      <4>1. s \in Seq(Statements) /\ i \in 1..Len(s) /\ Len(s) \in Nat
        BY <3>1, SeqFacts
      <4> HIDE DEF s
      <4>2. i + 1 \in Nat \ {0} /\ Len(s) <= Len(s)
        BY <4>1
      <4>3. SubSeq(s, i + 1, Len(s)) \in Seq(Statements)
        BY <4>1, <4>2, SubSeqFacts
      <4> QED
        BY <4>3 DEF s, tail_stmts
    <3> QED
      BY <3>2, SeqFacts
  <2> HIDE DEF tail
  <2>3. \A s \in Points : move(s) => new(s) \in Blocks' \X Nat
    BY <1>2, <2>2
  <2>4. \A s \in Points : loc[s] \in Blocks' \X Nat
    BY <1>2
  <2> HIDE DEF move, new
  <2> QED
    BY <2>1, <2>3, <2>4
<1>4. OutgoingShape'
  <2> DEFINE D == {RemapEdge(f, block) : f \in DOMAIN outgoing}
             old(e) == CHOOSE f \in DOMAIN outgoing : RemapEdge(f, block) = e
  <2>1. outgoing' = [e \in D |-> outgoing[old(e)]]
    BY DEF insert_halt_check_after
  <2>2. \A f \in DOMAIN outgoing : RemapEdge(f, block) \in Blocks' \X Blocks'
    BY <1>2 DEF RemapEdge, OutgoingShape
  <2>3. \A e \in D : old(e) \in DOMAIN outgoing
    OBVIOUS
  <2>4. D \in SUBSET (Blocks' \X Blocks')
    BY <2>2
  <2> HIDE DEF D, old
  <2>5. DOMAIN outgoing' = D /\ \A e \in D : outgoing'[e] \in GoodStates
    BY <2>1, <2>3 DEF OutgoingShape
  <2> QED
    BY <2>4, <2>5, ProgKept DEF OutgoingShape
<1> QED
  BY <1>1, <1>3, <1>4

\* What a step of the inserter starts from.
LEMMA InsertingFacts ==
    ASSUME Shape, Inserting
    PROVE  /\ prog \in Programs /\ GraphRight /\ IrShape /\ OutgoingShape
           /\ loc \in [Points -> Blocks \X Nat] /\ work \in Works
           /\ Component \in Seq(SourceBlocks) /\ Len(Component) \in Nat \ {0}
           /\ DOMAIN Component = 1..Len(Component)
           /\ \A k \in 1..Len(Component) : Component[k] \in Blocks /\ Component[k] \in Nat
           /\ DOMAIN graph.topo_order = 1..Len(graph.topo_order) /\ Len(graph.topo_order) \in Nat
<1>1. /\ prog \in Programs /\ GraphRight /\ IrShape /\ OutgoingShape
      /\ loc \in [Points -> Blocks \X Nat] /\ work \in Works
      /\ work.component \in DOMAIN graph.topo_order
  BY DEF Shape, Inserting, AnalysisInv, WorkShape
<1>2. /\ Component \in Seq(SourceBlocks) /\ Len(Component) \in Nat \ {0}
      /\ DOMAIN Component = 1..Len(Component)
      /\ \A k \in 1..Len(Component) : Component[k] \in SourceBlocks
  BY <1>1, ComponentFacts DEF Component
<1>3. SourceBlocks \subseteq Blocks /\ SourceBlocks \subseteq Nat
  BY <1>1, BlocksFacts, SourceFacts
<1>4. graph.topo_order \in Seq(DOMAIN graph.components)
  BY <1>1 DEF GraphRight, Sorting
<1>5. DOMAIN graph.topo_order = 1..Len(graph.topo_order) /\ Len(graph.topo_order) \in Nat
  BY <1>4, SeqFacts
<1> QED
  BY <1>1, <1>2, <1>3, <1>5

\* Starting on a component's blocks.
LEMMA BlocksStarted ==
    ASSUME Shape, Inserting, NEW s \in GoodStates, prog' = prog, graph' = graph, ir' = ir,
           pc' = "blocks", work' = StartBlocks(work, s)
    PROVE  WorkShape'
<1>1. work \in Works /\ work.component \in DOMAIN graph.topo_order
  BY DEF Shape, WorkShape
<1>2. /\ Len(Component) \in Nat \ {0} /\ DOMAIN Component = 1..Len(Component)
      /\ Component[1] \in Blocks /\ Component[1] \in Nat /\ IrShape
  BY InsertingFacts
<1>3. work' = [work EXCEPT !.state = s, !.next = 1, !.block = Component[1], !.index = 1,
                           !.seen = FALSE, !.states = <<>>, !.fixed = 0, !.target = 0]
  BY DEF StartBlocks
<1>4. <<>> \in Seq(GoodStates) /\ 0 \in Nat /\ 1 \in Nat \ {0}
  OBVIOUS
<1> DEFINE c == Component[1]
<1>5. c \in Nat
  BY <1>2
<1>6. work' \in Works /\ work'.component = work.component /\ work'.next = 1
      /\ work'.block = c /\ work'.index = 1
  <2> HIDE DEF c
  <2>1. work' = [work EXCEPT !.state = s, !.next = 1, !.block = c, !.index = 1,
                           !.seen = FALSE, !.states = <<>>, !.fixed = 0, !.target = 0]
    BY <1>3 DEF c
  <2> QED
    BY <1>1, <1>4, <1>5, <2>1, ZenonT(40) DEF Works
<1>7. Component' = Component /\ Blocks' = Blocks
  BY <1>2, <1>6, IrKept DEF Component
<1> QED
  BY <1>1, <1>2, <1>6, <1>7, ProgKept DEF WorkShape

LEMMA InserterNewShape ==
    ASSUME Shape, InserterNew
    PROVE  Inserting' => loc' \in [Points' -> Blocks' \X Nat] /\ WorkShape'
<1> SUFFICES ASSUME Inserting' PROVE loc' \in [Points -> Blocks \X Nat] /\ WorkShape'
  <2>1. prog' = prog /\ ir' = ir /\ IrShape
    BY DEF InserterNew, ir, Shape
  <2> QED
    BY <2>1, ProgKept, IrKept
<1>1. /\ prog \in Programs /\ GraphRight /\ graph.ready = <<>> /\ IrShape
      /\ succ = prog.succ /\ stmts = SourceStatements
      /\ prog' = prog /\ graph' = graph /\ ir' = ir
  BY DEF InserterNew, Shape, AnalysisInv, ir
<1>2. pc' = "drain" /\ Len(graph.topo_order) = Len(graph.components)
  BY DEF InserterNew, Inserting
<1>3. loc' \in [Points -> Blocks \X Nat]
  <2> DEFINE Ps == UNION {{<<b, i>> : i \in DOMAIN stmts[b]} : b \in Blocks}
             Q == {p \in Ps : IsSafepoint(stmts[p[1]][p[2]])}
             at(s) == CHOOSE p \in Q : stmts[p[1]][p[2]] = s
  <2>1. loc' = [s \in {stmts[p[1]][p[2]] : p \in Q} |-> at(s)]
    BY <1>2 DEF InserterNew
  <2>2. Blocks = SourceBlocks
    BY <1>1 DEF Blocks, SourceBlocks
  <2>3. \A b \in Blocks : /\ DOMAIN stmts[b] = DOMAIN prog.body[b] /\ DOMAIN stmts[b] \subseteq Nat
                          /\ \A i \in DOMAIN stmts[b] : stmts[b][i] = <<b, i>>
    <3>1. \A b \in Blocks : stmts[b] = [i \in DOMAIN prog.body[b] |-> <<b, i>>]
      BY <1>1, <2>2 DEF SourceStatements, SourceBlocks
    <3>2. \A b \in Blocks : prog.body[b] \in Seq({"safepoint", "other"})
      BY <1>1, <2>2, SourceFacts, SeqFacts
    <3>3. \A b \in Blocks : DOMAIN prog.body[b] \subseteq Nat
      BY <3>2, SeqFacts
    <3> QED
      BY <3>1, <3>3
  <2>4. Ps = Statements
    BY <2>2, <2>3 DEF Statements
  <2>5. \A p \in Ps : stmts[p[1]][p[2]] = p
    BY <2>2, <2>3, <2>4 DEF Statements
  <2> HIDE DEF Ps
  <2>6. Q = Points
    BY <2>4, <2>5 DEF Points
  <2>7. \A p \in Points : stmts[p[1]][p[2]] = p /\ p \in Blocks \X Nat
    BY <2>2, <2>4, <2>5 DEF Points, Statements
  <2> HIDE DEF Q
  <2>8. {stmts[p[1]][p[2]] : p \in Q} = Points
    BY <2>6, <2>7
  <2>9. \A s \in Points : at(s) \in Points
    BY <2>6, <2>7
  <2> HIDE DEF at
  <2> QED
    BY <2>1, <2>7, <2>8, <2>9
<1>4. 1 \in DOMAIN graph.topo_order
  <2>1. graph.topo_order \in Seq(DOMAIN graph.components)
    BY <1>1 DEF GraphRight, Sorting
  <2>2. Entry \in SourceBlocks
    BY <1>1, SourceFacts
  <2>3. RankOf(Entry) \in DOMAIN graph.topo_order
    BY <1>1, <2>2, RankRight
  <2>4. DOMAIN graph.topo_order = 1..Len(graph.topo_order) /\ Len(graph.topo_order) \in Nat
    BY <2>1, SeqFacts
  <2> QED
    BY <2>3, <2>4
<1>5. work' \in Works /\ work'.component = 1
  <2>1. N \in Nat \ {0}
    BY <1>1, SourceFacts
  <2>2. from_remaining(N) \in GoodStates
    BY <1>1, <2>1, FullState
  <2> DEFINE full == from_remaining(N)
  <2>3. work' = [component |-> 1, next |-> 1, states |-> <<>>, fixed |-> 0,
                 target |-> 0, state |-> full, block |-> 0, index |-> 0, seen |-> FALSE]
    BY <1>2 DEF InserterNew
  <2>4. <<>> \in Seq(GoodStates)
    OBVIOUS
  <2> HIDE DEF full
  <2>5. full \in GoodStates
    BY <2>2 DEF full
  <2> QED
    BY <2>3, <2>4, <2>5 DEF Works
<1> QED
  BY <1>1, <1>2, <1>3, <1>4, <1>5, ProgKept DEF WorkShape

LEMMA DrainShape ==
    ASSUME Shape, DrainIncoming
    PROVE  OutgoingShape' /\ (Inserting' => WorkShape')
<1>1. /\ pc = "drain" /\ prog' = prog /\ graph' = graph /\ ir' = ir /\ loc' = loc
  BY DEF DrainIncoming, ir
<1>2. Inserting
  BY <1>1 DEF Inserting
<1>3. /\ prog \in Programs /\ IrShape /\ OutgoingShape /\ work \in Works
      /\ IsFiniteSet(Blocks) /\ work.component \in DOMAIN graph.topo_order
  BY <1>2, InsertingFacts, BlocksFacts DEF Shape, WorkShape
<1> DEFINE to == Component[work.next]
           from == {e[2] : e \in {e \in incoming : e[1] = to}}
           drained == {<<f, to>> : f \in from}
<1>4. CASE ~ \A e \in drained : e \in DOMAIN outgoing
  <2>1. pc' = "assert_failed" /\ work' = work /\ outgoing' = outgoing
    BY <1>4 DEF DrainIncoming
  <2>2. ~Inserting'
    BY <2>1 DEF Inserting
  <2>3. OutgoingShape'
    BY <1>1, <1>3, <2>1, ProgKept, IrKept DEF OutgoingShape
  <2> QED
    BY <2>2, <2>3
<1>5. CASE \A e \in drained : e \in DOMAIN outgoing
  <2>1. PICK order \in Orders(from) :
          work' = [work EXCEPT
                     !.next = @ + 1,
                     !.states = @ \o [i \in DOMAIN order |-> outgoing[<<order[i], to>>]]]
    BY <1>5 DEF DrainIncoming
  <2>2. outgoing' = [e \in DOMAIN outgoing \ drained |-> outgoing[e]] /\ pc' = pc
    BY <1>5 DEF DrainIncoming
  <2>3. OutgoingShape'
    BY <1>1, <1>3, <2>2, ProgKept, IrKept DEF OutgoingShape
  <2>4. from \subseteq Blocks /\ IsFiniteSet(from)
    <3> HIDE DEF from, to
    <3>0. \A f \in from : <<f, to>> \in Blocks \X Blocks
      BY <1>3, <1>5 DEF OutgoingShape
    <3>1. from \subseteq Blocks
      BY <3>0
    <3> QED
      BY <1>3, <3>1, FS_Subset
  <2> DEFINE new == [i \in DOMAIN order |-> outgoing[<<order[i], to>>]]
  <2>5. new \in Seq(GoodStates)
    <3>1. Cardinality(from) \in Nat /\ DOMAIN order = 1..Cardinality(from)
          /\ \A i \in DOMAIN order : order[i] \in from
      BY <2>4, FS_CardinalityType DEF Orders
    <3>2. \A i \in DOMAIN order : <<order[i], to>> \in drained
      BY <3>1
    <3> DEFINE n == Cardinality(from)
    <3>3. \A i \in DOMAIN order : outgoing[<<order[i], to>>] \in GoodStates
      BY <1>3, <1>5, <3>2 DEF OutgoingShape
    <3>4. new \in [1..n -> GoodStates] /\ n \in Nat
      BY <3>1, <3>3
    <3> HIDE DEF new, n
    <3> QED
      BY <3>4
  <2>6. work.states \in Seq(GoodStates)
    BY <1>3 DEF Works
  <2>7. work.states \o new \in Seq(GoodStates)
    <3> HIDE DEF new
    <3> QED
      BY <2>5, <2>6, Concatenated
  <2>8. work' \in Works /\ work'.component = work.component
    <3> DEFINE st == work.states \o new
               nx == work.next + 1
    <3>1. work' = [work EXCEPT !.next = nx, !.states = st]
      BY <2>1
    <3>2. st \in Seq(GoodStates) /\ nx \in Nat \ {0}
      BY <1>3, <2>7 DEF Works
    <3> HIDE DEF st, nx
    <3> QED
      BY <1>3, <3>1, <3>2 DEF Works
  <2>9. WorkShape'
    BY <1>1, <1>3, <2>2, <2>8, ProgKept DEF WorkShape
  <2> QED
    BY <2>3, <2>9
<1> QED
  BY <1>4, <1>5

LEMMA MergeShape ==
    ASSUME Shape, MergeHaltStates
    PROVE  Inserting' => WorkShape'
<1>1. /\ pc = "drain" /\ prog' = prog /\ graph' = graph /\ ir' = ir /\ Inserting
  BY DEF MergeHaltStates, Inserting
<1>2. /\ prog \in Programs /\ work \in Works /\ work.component \in DOMAIN graph.topo_order
      /\ work.states \in Seq(GoodStates) /\ N \in Nat \ {0}
  BY <1>1, InsertingFacts, SourceFacts DEF Shape, WorkShape, Works
<1> DEFINE states == [i \in DOMAIN work.states |-> canonicalize(work.states[i], resets)]
           all == {states[i].remaining : i \in DOMAIN states}
           lo == CHOOSE r \in all : \A q \in all : r <= q
           hi == CHOOSE r \in all : \A q \in all : q <= r
<1>3. states \in Seq(GoodStates) /\ DOMAIN states = DOMAIN work.states
  <2>1. \A i \in DOMAIN work.states : canonicalize(work.states[i], resets) \in GoodStates
    BY <1>2, Canonicalized, SeqFacts
  <2>2. DOMAIN work.states = 1..Len(work.states) /\ Len(work.states) \in Nat
    BY <1>2, SeqFacts
  <2>3. states \in [1..Len(work.states) -> GoodStates]
    BY <2>1, <2>2
  <2> HIDE DEF states
  <2> QED
    BY <2>2, <2>3
<1> HIDE DEF states
<1>4. DOMAIN states = 1..Len(states) /\ Len(states) \in Nat
      /\ \A i \in DOMAIN states : states[i] \in GoodStates
  BY <1>3, SeqFacts
<1>5. Len(states) # 0 => lo \in 1..N /\ hi \in 1..N
  <2> SUFFICES ASSUME Len(states) # 0 PROVE lo \in 1..N /\ hi \in 1..N
    OBVIOUS
  <2>1. 1 \in DOMAIN states
    BY <1>4
  <2>2. all \in SUBSET (1..N) /\ all # {}
    BY <1>4, <2>1 DEF GoodStates
  <2> HIDE DEF all
  <2>3. all \in SUBSET Nat /\ \A r \in all : r <= N
    BY <1>2, <2>2
  <2>4. lo \in all
    BY <2>2, <2>3, Least
  <2>5. hi \in all
    <3>1. \E r \in all : \A q \in all : q <= r
      BY <1>2, <2>2, <2>3, Greatest
    <3> QED
      BY <3>1
  <2> QED
    BY <2>2, <2>4, <2>5
<1> HIDE DEF lo, hi
<1> DEFINE full == from_remaining(N)
           low == from_remaining(lo)
<1>6. \/ pc' = "blocks" /\ work' = StartBlocks(work, full)
      \/ pc' = "blocks" /\ Len(states) = 1 /\ work' = StartBlocks(work, states[1])
      \/ /\ pc' = "compensate" /\ Len(states) # 0
         /\ work' = [work EXCEPT !.states = states, !.fixed = 1, !.target = hi]
      \/ pc' = "blocks" /\ Len(states) # 0 /\ work' = StartBlocks(work, low)
  BY Zenon DEF MergeHaltStates, states, all, lo, hi, full, low
<1>7. CASE pc' = "blocks" /\ work' = StartBlocks(work, full)
  <2>1. full \in GoodStates
    BY <1>2, FullState
  <2> HIDE DEF full
  <2> QED
    BY <1>1, <1>7, <2>1, BlocksStarted
<1>8. CASE pc' = "blocks" /\ Len(states) = 1 /\ work' = StartBlocks(work, states[1])
  <2>1. states[1] \in GoodStates
    BY <1>4, <1>8
  <2> QED
    BY <1>1, <1>8, <2>1, BlocksStarted
<1>9. CASE /\ pc' = "compensate" /\ Len(states) # 0
           /\ work' = [work EXCEPT !.states = states, !.fixed = 1, !.target = hi]
  <2>1. hi \in 1..N /\ hi \in Nat
    BY <1>2, <1>5, <1>9
  <2>2. work' \in Works /\ work'.component = work.component /\ work'.fixed = 1 /\ work'.target = hi
    BY <1>2, <1>3, <1>9, <2>1 DEF Works
  <2> QED
    BY <1>1, <1>2, <1>9, <2>1, <2>2, ProgKept DEF WorkShape
<1>10. CASE pc' = "blocks" /\ Len(states) # 0 /\ work' = StartBlocks(work, low)
  <2>1. low \in GoodStates
    BY <1>2, <1>5, <1>10, FullState
  <2> HIDE DEF low
  <2> QED
    BY <1>1, <1>10, <2>1, BlocksStarted
<1> HIDE DEF full, low
<1> QED
  BY <1>6, <1>7, <1>8, <1>9, <1>10

LEMMA NormalizedShape ==
    ASSUME Shape, MergeNormalized
    PROVE  Inserting' => WorkShape'
<1>1. /\ pc = "compensate" /\ prog' = prog /\ graph' = graph /\ ir' = ir /\ Inserting
      /\ \/ pc' = "assert_failed"
         \/ pc' = "blocks" /\ work' = StartBlocks(work, from_remaining(work.target))
  BY DEF MergeNormalized, Inserting
<1>2. prog \in Programs /\ work.target \in 1..N
  BY <1>1, InsertingFacts DEF Shape, WorkShape
<1> DEFINE s == from_remaining(work.target)
<1>3. s \in GoodStates
  BY <1>2, FullState
<1>4. CASE pc' = "blocks" /\ work' = StartBlocks(work, s)
  <2> HIDE DEF s
  <2> QED
    BY <1>1, <1>3, <1>4, BlocksStarted
<1>5. CASE pc' = "assert_failed"
  BY <1>5 DEF Inserting
<1> QED
  BY <1>1, <1>4, <1>5

\* A step that inserts a check, or none, into a block the inserter knows.
InsertsAt(block, i) ==
    /\ block \in Blocks /\ i \in DOMAIN stmts[block]
    /\ insert_halt_check_after(block, i)

LEMMA CompensateShape ==
    ASSUME Shape, InsertCompensatingCheck
    PROVE  /\ \/ ir' = ir /\ inserter' = inserter
              \/ \E block, i : InsertsAt(block, i)
           /\ Inserting' => WorkShape'
<1>1. /\ pc = "compensate" /\ prog' = prog /\ graph' = graph /\ Inserting
      /\ work.fixed <= Len(work.states)
  BY DEF InsertCompensatingCheck, Inserting
<1>2. /\ prog \in Programs /\ work \in Works /\ work.component \in DOMAIN graph.topo_order
      /\ work.states \in Seq(GoodStates) /\ N \in Nat \ {0} /\ work.fixed \in Nat \ {0}
      /\ work.target \in 1..N /\ loc \in [Points -> Blocks \X Nat]
  BY <1>1, InsertingFacts, SourceFacts DEF Shape, WorkShape, Works
<1>3. work.fixed \in DOMAIN work.states /\ \A k \in DOMAIN work.states : work.states[k] \in GoodStates
  BY <1>1, <1>2, SeqFacts
<1> DEFINE s == IF work.fixed = 1 THEN work.states[1]
                ELSE canonicalize(work.states[work.fixed], resets)
           at == compensating_insertion_safepoint(s, work.target)
           here == loc[at]
           c == canonicalize(s, resets \cup {at})
<1>4. s \in GoodStates
  BY <1>2, <1>3, Canonicalized
<1> HIDE DEF s
<1>5. \/ work' = [work EXCEPT !.states[work.fixed] = s, !.fixed = @ + 1] /\ pc' = pc
         /\ ir' = ir /\ inserter' = inserter
      \/ /\ has_insertion_point(s, work.target) /\ InsertAsserts(here[1], here[2])
         /\ insert_halt_check_after(here[1], here[2]) /\ pc' = pc
         /\ work' = [work EXCEPT !.states[work.fixed] = c, !.fixed = @ + 1]
      \/ pc' = "assert_failed" /\ ir' = ir /\ inserter' = inserter
  BY DEF InsertCompensatingCheck, s
<1> HIDE DEF c, at
<1>6. ASSUME NEW x \in GoodStates, pc' = pc,
             work' = [work EXCEPT !.states[work.fixed] = x, !.fixed = @ + 1]
      PROVE  WorkShape'
  <2> DEFINE st == [work.states EXCEPT ![work.fixed] = x]
             nx == work.fixed + 1
  <2>1. st \in Seq(GoodStates)
    BY <1>2, <1>3, ReplacedAt
  <2>2. nx \in Nat /\ nx # 0
    BY <1>2
  <2>3. work' = [work EXCEPT !.states = st, !.fixed = nx]
    BY <1>2, <1>6 DEF Works
  <2> HIDE DEF st, nx
  <2>4. work' \in Works /\ work'.component = work.component /\ work'.fixed # 0
        /\ work'.target = work.target
    BY <1>2, <2>1, <2>2, <2>3 DEF Works
  <2> QED
    BY <1>1, <1>2, <1>6, <2>4, ProgKept DEF WorkShape
<1>7. CASE /\ has_insertion_point(s, work.target) /\ InsertAsserts(here[1], here[2])
           /\ insert_halt_check_after(here[1], here[2]) /\ pc' = pc
           /\ work' = [work EXCEPT !.states[work.fixed] = c, !.fixed = @ + 1]
  <2>1. at \in Points
    BY <1>2, <1>4, <1>7, InsertionPoint DEF at
  <2>2. here[1] \in Blocks /\ here[2] \in DOMAIN stmts[here[1]]
    BY <1>2, <1>7, <2>1 DEF InsertAsserts
  <2>3. InsertsAt(here[1], here[2])
    BY <1>7, <2>2 DEF InsertsAt
  <2>4. c \in GoodStates
    BY <1>2, <1>4, Canonicalized DEF c
  <2>5. WorkShape'
    BY <1>6, <1>7, <2>4
  <2> QED
    BY <2>3, <2>5
<1>8. CASE work' = [work EXCEPT !.states[work.fixed] = s, !.fixed = @ + 1] /\ pc' = pc
           /\ ir' = ir /\ inserter' = inserter
  BY <1>4, <1>6, <1>8
<1>9. CASE pc' = "assert_failed" /\ ir' = ir /\ inserter' = inserter
  BY <1>9 DEF Inserting
<1> HIDE DEF here
<1> QED
  BY <1>5, <1>7, <1>8, <1>9

LEMMA StatementShape ==
    ASSUME Shape, ProcessStatement
    PROVE  /\ \/ ir' = ir /\ inserter' = inserter
              \/ \E block, i : InsertsAt(block, i)
           /\ Inserting' => WorkShape'
<1>1. /\ pc = "blocks" /\ prog' = prog /\ graph' = graph /\ Inserting
      /\ work.index <= Len(stmts[work.block])
  BY DEF ProcessStatement, Inserting
<1>2. /\ prog \in Programs /\ IrShape /\ OutgoingShape /\ loc \in [Points -> Blocks \X Nat]
      /\ work \in Works /\ work.component \in DOMAIN graph.topo_order
      /\ work.block \in Blocks /\ work.index \in Nat \ {0} /\ work.next \in DOMAIN Component
      /\ work.state \in GoodStates
  BY <1>1, InsertingFacts DEF Shape, WorkShape, Works
<1>3. stmts[work.block] \in Seq(Statements) /\ Blocks = 1..Len(succ) /\ Len(succ) \in Nat
  BY <1>2, BlocksFacts
<1> DEFINE stmt == stmts[work.block][work.index]
           after == IF AtSafepoint
                    THEN IF IsCyclic THEN [work EXCEPT !.seen = TRUE]
                         ELSE [work EXCEPT !.state = process_safepoint(@, stmt)]
                    ELSE work
<1>4. stmt \in Statements
  BY <1>1, <1>2, <1>3, SeqFacts
<1>5. /\ after \in Works /\ after.component = work.component /\ after.next = work.next
      /\ after.block = work.block /\ after.index = work.index
  <2>1. CASE ~AtSafepoint
    BY <1>2, <2>1
  <2>2. CASE AtSafepoint /\ IsCyclic
    BY <1>2, <2>2 DEF Works
  <2>3. CASE AtSafepoint /\ ~IsCyclic
    <3>1. stmt \in Points
      BY <1>4, <2>3 DEF Points, AtSafepoint
    <3> DEFINE x == process_safepoint(work.state, stmt)
    <3>2. x \in GoodStates
      <4> HIDE DEF stmt
      <4> QED
        BY <1>2, <3>1, SafepointProcessed
    <3>3. after = [work EXCEPT !.state = x]
      BY <2>3
    <3> HIDE DEF x, after
    <3> QED
      BY <1>2, <3>2, <3>3 DEF Works
  <2> QED
    BY <2>1, <2>2, <2>3
<1>6. \/ /\ InsertAsserts(work.block, work.index)
         /\ insert_halt_check_after(work.block, work.index)
         /\ work' = [after EXCEPT !.block = Continuation, !.index = 1] /\ pc' = pc
      \/ pc' = "assert_failed" /\ ir' = ir /\ inserter' = inserter
      \/ work' = [after EXCEPT !.index = @ + 1] /\ pc' = pc /\ ir' = ir /\ inserter' = inserter
  BY DEF ProcessStatement
<1> HIDE DEF after
<1>7. CASE /\ InsertAsserts(work.block, work.index)
           /\ insert_halt_check_after(work.block, work.index)
           /\ work' = [after EXCEPT !.block = Continuation, !.index = 1] /\ pc' = pc
  <2>1. InsertsAt(work.block, work.index) /\ work.index \in DOMAIN stmts[work.block]
    BY <1>2, <1>7 DEF InsertsAt, InsertAsserts
  <2>2. Split(work.block, work.index)
    BY <1>1, <1>2, <1>7, <2>1, InsertShape
  <2>3. Continuation \in Blocks' /\ Continuation \in Nat
    BY <1>3, <2>2 DEF Split, Continuation
  <2>4. work' \in Works /\ work'.component = work.component /\ work'.next = work.next
        /\ work'.block = Continuation /\ work'.index = 1
    <3> DEFINE c == Continuation
    <3>1. work' = [after EXCEPT !.block = c, !.index = 1] /\ c \in Nat
      BY <1>7, <2>3
    <3> HIDE DEF c
    <3> QED
      BY <1>5, <3>1 DEF Works, c
  <2>5. Component' = Component
    BY <1>1, <2>4 DEF Component
  <2>6. WorkShape'
    BY <1>1, <1>2, <1>7, <2>3, <2>4, <2>5, ProgKept DEF WorkShape
  <2> QED
    BY <2>1, <2>6
<1>8. CASE work' = [after EXCEPT !.index = @ + 1] /\ pc' = pc /\ ir' = ir /\ inserter' = inserter
  <2>1. work' \in Works /\ work'.component = work.component /\ work'.next = work.next
        /\ work'.block = work.block /\ work'.index # 0
    <3> DEFINE nx == after.index + 1
    <3>1. nx \in Nat /\ nx # 0
      BY <1>2, <1>5
    <3>2. work' = [after EXCEPT !.index = nx]
      BY <1>8
    <3> HIDE DEF nx
    <3> QED
      BY <1>5, <3>1, <3>2 DEF Works
  <2>2. Component' = Component /\ Blocks' = Blocks
    BY <1>1, <1>2, <1>8, <2>1, IrKept DEF Component
  <2> QED
    BY <1>1, <1>2, <1>8, <2>1, <2>2, ProgKept DEF WorkShape
<1>9. CASE pc' = "assert_failed" /\ ir' = ir /\ inserter' = inserter
  BY <1>9 DEF Inserting
<1> QED
  BY <1>6, <1>7, <1>8, <1>9

LEMMA FinishShape ==
    ASSUME Shape, FinishBlock
    PROVE  OutgoingShape' /\ (Inserting' => WorkShape')
<1>1. /\ pc = "blocks" /\ prog' = prog /\ graph' = graph /\ ir' = ir /\ Inserting
  BY DEF FinishBlock, Inserting, ir
<1>2. /\ prog \in Programs /\ IrShape /\ OutgoingShape
      /\ work \in Works /\ work.component \in DOMAIN graph.topo_order
      /\ work.block \in Blocks /\ work.next \in DOMAIN Component
      /\ work.state \in GoodStates
      /\ Len(Component) \in Nat \ {0} /\ DOMAIN Component = 1..Len(Component)
      /\ \A k \in 1..Len(Component) : Component[k] \in Blocks /\ Component[k] \in Nat
      /\ DOMAIN graph.topo_order = 1..Len(graph.topo_order) /\ Len(graph.topo_order) \in Nat
  BY <1>1, InsertingFacts DEF Shape, WorkShape, Works
<1>3. AsSet(succ[work.block]) \subseteq Blocks
  BY <1>2, BlocksFacts
<1> DEFINE b == work.block
           targets == {c \in AsSet(succ[b]) : ~(IsCyclic /\ c \in AsSet(Component))}
           added == {<<b, c>> : c \in targets}
           taken == take_current_state
           last == work.next = Len(Component)
           end == work.component = Len(graph.topo_order)
<1>4. taken \in GoodStates
  <2>1. N \in Nat \ {0}
    BY <1>2, SourceFacts
  <2>2. from_remaining(N) \in GoodStates
    BY <1>2, <2>1, FullState
  <2>3. work.state.remaining \in 1..N
    BY <1>2 DEF GoodStates
  <2>4. from_remaining(work.state.remaining) \in GoodStates
    BY <1>2, <2>3, FullState
  <2> QED
    BY <1>2, <2>2, <2>4 DEF take_current_state
<1>5. added \subseteq Blocks \X Blocks
  BY <1>2, <1>3
<1> HIDE DEF added, taken
<1>6. \/ /\ outgoing' = [e \in DOMAIN outgoing \cup added |-> IF e \in added THEN taken ELSE outgoing[e]]
         /\ pc' = IF ~last THEN "blocks" ELSE IF end THEN "sort" ELSE "drain"
         /\ work' = IF ~last
                    THEN [work EXCEPT !.next = @ + 1, !.index = 1, !.seen = FALSE,
                                      !.block = Component[work.next + 1]]
                    ELSE IF end THEN work
                    ELSE [work EXCEPT !.component = @ + 1, !.next = 1]
      \/ pc' = "assert_failed" /\ outgoing' = outgoing
  BY DEF FinishBlock, added, taken
<1>7. OutgoingShape'
  <2>1. Blocks' = Blocks
    BY <1>1, <1>2, IrKept
  <2>2. DOMAIN outgoing' \in SUBSET (Blocks \X Blocks)
        /\ \A e \in DOMAIN outgoing' : outgoing'[e] \in GoodStates
    BY <1>2, <1>4, <1>5, <1>6 DEF OutgoingShape
  <2> QED
    BY <1>1, <2>1, <2>2, ProgKept DEF OutgoingShape
<1>8. CASE ~last /\ pc' = "blocks"
           /\ work' = [work EXCEPT !.next = @ + 1, !.index = 1, !.seen = FALSE,
                                   !.block = Component[work.next + 1]]
  <2> DEFINE nx == work.next + 1
             c == Component[nx]
  <2>1. nx \in DOMAIN Component /\ nx \in Nat \ {0} /\ c \in Blocks /\ c \in Nat
    BY <1>2, <1>8
  <2>2. work' = [work EXCEPT !.next = nx, !.index = 1, !.seen = FALSE, !.block = c]
    BY <1>8
  <2> HIDE DEF nx, c
  <2>3. work' \in Works /\ work'.component = work.component /\ work'.next = nx
        /\ work'.block = c /\ work'.index = 1
    BY <1>2, <2>1, <2>2 DEF Works
  <2>4. Component' = Component /\ Blocks' = Blocks
    BY <1>1, <1>2, <2>3, IrKept DEF Component
  <2> QED
    BY <1>1, <1>2, <1>7, <1>8, <2>1, <2>3, <2>4, ProgKept DEF WorkShape
<1>9. CASE last /\ ~end /\ pc' = "drain" /\ work' = [work EXCEPT !.component = @ + 1, !.next = 1]
  <2> DEFINE nx == work.component + 1
  <2>1. nx \in DOMAIN graph.topo_order /\ nx \in Nat
    BY <1>2, <1>9
  <2>2. work' = [work EXCEPT !.component = nx, !.next = 1]
    BY <1>9
  <2> HIDE DEF nx
  <2>3. work' \in Works /\ work'.component = nx
    <3>1. work \in Works /\ nx \in Nat /\ 1 \in Nat \ {0}
      BY <1>2, <2>1
    <3> QED
      BY <2>2, <3>1 DEF Works
  <2> QED
    BY <1>1, <1>7, <1>9, <2>1, <2>3, ProgKept DEF WorkShape
<1>10. CASE pc' \in {"assert_failed", "sort"}
  BY <1>7, <1>10 DEF Inserting
<1> QED
  BY <1>6, <1>8, <1>9, <1>10

\* The representation changes only by splits.
LEMMA IrSteps ==
    ASSUME Shape, [Next]_vars
    PROVE  /\ prog' = prog
           /\ \/ ir' = ir
              \/ /\ \E block, i : InsertsAt(block, i)
                 /\ Inserting /\ loc \in [Points -> Blocks \X Nat]
<1>1. CASE InsertCompensatingCheck
  <2>1. Inserting /\ prog' = prog
    BY <1>1 DEF InsertCompensatingCheck, Inserting
  <2> QED
    BY <1>1, <2>1, CompensateShape, InsertingFacts
<1>2. CASE ProcessStatement
  <2>1. Inserting /\ prog' = prog
    BY <1>2 DEF ProcessStatement, Inserting
  <2> QED
    BY <1>2, <2>1, StatementShape, InsertingFacts
<1>3. CASE TarjanRun \/ TarjanVisit \/ TarjanReturn \/ AssertCyclesHaveSafepoints
  BY <1>3 DEF TarjanRun, TarjanVisit, TarjanReturn, AssertCyclesHaveSafepoints, ir
<1>4. CASE SccGraphNew \/ TopoStep \/ InserterNew
  BY <1>4 DEF SccGraphNew, TopoStep, InserterNew, ir
<1>5. CASE DrainIncoming \/ MergeHaltStates \/ MergeNormalized \/ FinishBlock
  BY <1>5 DEF DrainIncoming, MergeHaltStates, MergeNormalized, FinishBlock, ir
<1>6. CASE TopoSortStep \/ Built
  BY <1>6 DEF TopoSortStep, Built, ir
<1>7. CASE Terminated \/ UNCHANGED vars
  BY <1>7 DEF Terminated, vars, ir
<1> QED
  BY <1>1, <1>2, <1>3, <1>4, <1>5, <1>6, <1>7 DEF Next

LEMMA ShapeInit ==
    ASSUME Init
    PROVE  Shape
<1>1. /\ prog \in Programs /\ succ = prog.succ /\ stmts = SourceStatements
      /\ checked = {} /\ leave = 0 /\ outgoing = <<>> /\ pc = "validate"
  BY DEF Init, SourceStatements
<1>2. AnalysisInv
  BY AnalysisInit
<1>3. /\ prog.succ \in Seq(Seq(Nat)) /\ prog.body \in Seq(Seq({"safepoint", "other"}))
      /\ Len(prog.succ) \in Nat /\ SourceBlocks = 1..Len(prog.succ)
      /\ DOMAIN prog.body = SourceBlocks
      /\ \A b \in SourceBlocks : /\ prog.succ[b] \in Seq(Nat)
                                 /\ AsSet(prog.succ[b]) \subseteq SourceBlocks \ {Entry}
  BY <1>1, SourceFacts
<1>4. Blocks = SourceBlocks
  BY <1>1 DEF Blocks, SourceBlocks
<1>5. succ \in Seq(Seq(Blocks \ {Entry}))
  <2>1. \A b \in SourceBlocks : \A k \in DOMAIN prog.succ[b] : prog.succ[b][k] \in Blocks \ {Entry}
    BY <1>3, <1>4 DEF AsSet
  <2>2. \A b \in DOMAIN prog.succ : prog.succ[b] \in Seq(Blocks \ {Entry})
    BY <1>3, <2>1, SeqNarrow DEF SourceBlocks
  <2> QED
    BY <1>1, <1>3, <2>2, SeqNarrow
<1>6. stmts \in Seq(Seq(Statements)) /\ Len(stmts) = Len(succ)
  <2> DEFINE n == Len(prog.succ)
             row(b) == [i \in DOMAIN prog.body[b] |-> <<b, i>>]
  <2>1. \A b \in SourceBlocks : prog.body[b] \in Seq({"safepoint", "other"})
    BY <1>3, SeqFacts
  <2>2. \A b \in SourceBlocks : /\ DOMAIN prog.body[b] = 1..Len(prog.body[b])
                                /\ Len(prog.body[b]) \in Nat
    BY <2>1, SeqFacts
  <2>3. \A b \in SourceBlocks : row(b) \in [1..Len(prog.body[b]) -> Statements]
    BY <2>2 DEF Statements
  <2> HIDE DEF row
  <2>4. \A b \in SourceBlocks : row(b) \in Seq(Statements)
    BY <2>2, <2>3
  <2>5. stmts = [b \in 1..n |-> row(b)]
    BY <1>1, <1>3 DEF SourceStatements, SourceBlocks, row
  <2>6. \A b \in 1..n : row(b) \in Seq(Statements)
    BY <1>3, <2>4
  <2> DEFINE Q == Seq(Statements)
  <2>7. stmts \in [1..n -> Q] /\ n \in Nat
    BY <1>3, <2>5, <2>6
  <2> HIDE DEF Q, n
  <2>8. stmts \in Seq(Q) /\ Len(stmts) = n
    BY <2>7
  <2> QED
    BY <1>1, <2>8 DEF Q, n
<1>7. IrShape
  BY <1>1, <1>3, <1>5, <1>6 DEF IrShape
<1>8. OutgoingShape
  <2>1. DOMAIN outgoing = {}
    BY <1>1
  <2> QED
    BY <2>1 DEF OutgoingShape
<1> QED
  BY <1>1, <1>2, <1>7, <1>8 DEF Shape, Inserting

LEMMA ShapeNext ==
    ASSUME Shape, [Next]_vars
    PROVE  Shape'
<1>1. AnalysisInv'
  BY AnalysisNext DEF Shape
<1>2. /\ prog' = prog /\ prog \in Programs /\ IrShape /\ OutgoingShape
  BY IrSteps DEF Shape, AnalysisInv
<1>3. IrShape'
  <2>1. CASE ir' = ir
    BY <1>2, <2>1, IrKept
  <2>2. CASE \E block, i : InsertsAt(block, i)
    BY <1>2, <2>2, SplitFacts DEF InsertsAt
  <2> QED
    BY <2>1, <2>2, IrSteps
<1>4. pc' \in {"validate", "scc", "order", "drain", "compensate", "blocks", "sort",
               "done", "panic", "assert_failed"}
  <2>1. CASE TarjanRun \/ TarjanVisit \/ TarjanReturn \/ AssertCyclesHaveSafepoints
    BY <2>1 DEF Shape, TarjanRun, TarjanVisit, TarjanReturn, AssertCyclesHaveSafepoints
  <2>2. CASE SccGraphNew \/ TopoStep \/ InserterNew
    BY <2>2 DEF Shape, SccGraphNew, TopoStep, InserterNew
  <2>3. CASE DrainIncoming \/ MergeNormalized
    BY <2>3 DEF Shape, DrainIncoming, MergeNormalized
  <2>4. CASE MergeHaltStates
    BY <2>4 DEF Shape, MergeHaltStates
  <2>5. CASE InsertCompensatingCheck
    BY <2>5 DEF Shape, InsertCompensatingCheck
  <2>6. CASE ProcessStatement
    BY <2>6 DEF Shape, ProcessStatement
  <2>7. CASE FinishBlock
    BY <2>7 DEF Shape, FinishBlock
  <2>8. CASE TopoSortStep \/ Built \/ Terminated \/ UNCHANGED vars
    BY <2>8 DEF Shape, TopoSortStep, Built, Terminated, vars
  <2> QED
    BY <2>1, <2>2, <2>3, <2>4, <2>5, <2>6, <2>7, <2>8 DEF Next
<1>5. ASSUME ir' = ir, outgoing' = outgoing PROVE OutgoingShape'
  BY <1>2, <1>5, IrKept, ProgKept DEF OutgoingShape
<1>6. ASSUME ir' = ir, loc' = loc, Inserting PROVE loc' \in [Points' -> Blocks' \X Nat]
  <2>1. loc \in [Points -> Blocks \X Nat]
    BY <1>6, InsertingFacts
  <2>2. Points' = Points /\ Blocks' = Blocks
    BY <1>2, <1>6, IrKept, ProgKept
  <2> QED
    BY <1>6, <2>1, <2>2
<1>7. ASSUME NEW block, NEW i, InsertsAt(block, i), Inserting
      PROVE  OutgoingShape' /\ loc' \in [Points' -> Blocks' \X Nat]
  <2>1. loc \in [Points -> Blocks \X Nat]
    BY <1>7, InsertingFacts
  <2>2. OutgoingShape' /\ loc' \in [Points -> Blocks' \X Nat]
    BY <1>2, <1>7, <2>1, InsertShape DEF InsertsAt
  <2> QED
    BY <1>2, <2>2, ProgKept
<1>8. OutgoingShape' /\ (Inserting' => loc' \in [Points' -> Blocks' \X Nat] /\ WorkShape')
  <2>1. CASE TarjanRun \/ TarjanVisit \/ TarjanReturn \/ AssertCyclesHaveSafepoints
    <3>1. ir' = ir /\ outgoing' = outgoing /\ ~Inserting'
      BY <2>1 DEF TarjanRun, TarjanVisit, TarjanReturn, AssertCyclesHaveSafepoints, ir, inserter,
                  Analysing, Inserting
    <3> QED
      BY <1>5, <3>1
  <2>2. CASE SccGraphNew \/ TopoStep
    <3>1. ir' = ir /\ outgoing' = outgoing /\ ~Inserting'
      BY <2>2 DEF SccGraphNew, TopoStep, ir, inserter, Inserting
    <3> QED
      BY <1>5, <3>1
  <2>3. CASE InserterNew
    <3>1. ir' = ir /\ outgoing' = outgoing
      BY <2>3 DEF InserterNew, ir
    <3> QED
      BY <1>5, <2>3, <3>1, InserterNewShape
  <2>4. CASE DrainIncoming
    <3>1. ir' = ir /\ loc' = loc /\ Inserting
      BY <2>4 DEF DrainIncoming, ir, Inserting
    <3> QED
      BY <1>6, <2>4, <3>1, DrainShape
  <2>5. CASE MergeHaltStates
    <3>1. ir' = ir /\ loc' = loc /\ outgoing' = outgoing /\ Inserting
      BY <2>5 DEF MergeHaltStates, ir, inserter, Inserting
    <3> QED
      BY <1>5, <1>6, <2>5, <3>1, MergeShape
  <2>6. CASE MergeNormalized
    <3>1. ir' = ir /\ loc' = loc /\ outgoing' = outgoing /\ Inserting
      BY <2>6 DEF MergeNormalized, ir, inserter, Inserting
    <3> QED
      BY <1>5, <1>6, <2>6, <3>1, NormalizedShape
  <2>7. CASE InsertCompensatingCheck
    <3>1. Inserting
      BY <2>7 DEF InsertCompensatingCheck, Inserting
    <3>2. CASE ir' = ir /\ inserter' = inserter
      <4>1. loc' = loc /\ outgoing' = outgoing
        BY <3>2 DEF inserter
      <4> QED
        BY <1>5, <1>6, <2>7, <3>1, <3>2, <4>1, CompensateShape
    <3>3. CASE \E block, i : InsertsAt(block, i)
      BY <1>7, <2>7, <3>1, <3>3, CompensateShape
    <3> QED
      BY <2>7, <3>2, <3>3, CompensateShape
  <2>8. CASE ProcessStatement
    <3>1. Inserting
      BY <2>8 DEF ProcessStatement, Inserting
    <3>2. CASE ir' = ir /\ inserter' = inserter
      <4>1. loc' = loc /\ outgoing' = outgoing
        BY <3>2 DEF inserter
      <4> QED
        BY <1>5, <1>6, <2>8, <3>1, <3>2, <4>1, StatementShape
    <3>3. CASE \E block, i : InsertsAt(block, i)
      BY <1>7, <2>8, <3>1, <3>3, StatementShape
    <3> QED
      BY <2>8, <3>2, <3>3, StatementShape
  <2>9. CASE FinishBlock
    <3>1. ir' = ir /\ loc' = loc /\ Inserting
      BY <2>9 DEF FinishBlock, ir, Inserting
    <3> QED
      BY <1>6, <2>9, <3>1, FinishShape
  <2>10. CASE TopoSortStep \/ Built \/ Terminated
    <3>1. ir' = ir /\ outgoing' = outgoing /\ ~Inserting'
      BY <2>10 DEF TopoSortStep, Built, Terminated, ir, inserter, Inserting, vars
    <3> QED
      BY <1>5, <3>1
  <2>11. CASE UNCHANGED vars
    <3>1. ir' = ir /\ outgoing' = outgoing /\ loc' = loc /\ work' = work /\ graph' = graph
          /\ pc' = pc
      BY <2>11 DEF ir, vars
    <3>2. Blocks' = Blocks /\ Component' = Component
      BY <1>2, <3>1, IrKept DEF Component
    <3>3. WorkShape' = WorkShape /\ Inserting' = Inserting
      BY <1>2, <3>1, <3>2, ProgKept DEF WorkShape, Inserting
    <3> QED
      BY <1>5, <1>6, <3>1, <3>3 DEF Shape
  <2> QED
    BY <2>1, <2>2, <2>3, <2>4, <2>5, <2>6, <2>7, <2>8, <2>9, <2>10, <2>11 DEF Next
<1> QED
  BY <1>1, <1>3, <1>4, <1>8 DEF Shape

-----------------------------------------------------------------------------
(* What the splits preserve *)

SourceText(b) == [i \in DOMAIN prog.body[b] |-> <<b, i>>]

\* Following the continuations ends, because each lowers the rank, and T and G
\* are the statements and the successors it finds.
Preserves(rank, T, G) ==
    /\ rank \in [Blocks -> Nat]
    /\ \A b \in checked : succ[b][1] \in Blocks /\ rank[succ[b][1]] < rank[b]
    /\ T \in [Blocks -> Seq(Statements)] /\ G \in [Blocks -> Seq(Blocks)]
    /\ \A b \in Blocks : T[b] = stmts[b] \o (IF b \in checked THEN T[succ[b][1]] ELSE <<>>)
    /\ \A b \in Blocks : G[b] = IF b \in checked THEN G[succ[b][1]] ELSE succ[b]
    /\ \A b \in SourceBlocks : T[b] = SourceText(b) /\ G[b] = prog.succ[b]

SourceInv == Shape /\ \E rank, T, G : Preserves(rank, T, G)

LEMMA Joined ==
    ASSUME NEW S, NEW s \in Seq(S), NEW r \in Seq(S), NEW m, NEW n, m = Len(s), n = Len(r)
    PROVE  /\ s \o r \in Seq(S) /\ Len(s \o r) = m + n
           /\ \A k \in 1..(m + n) : (s \o r)[k] = IF k <= m THEN s[k] ELSE r[k - m]
  OBVIOUS

\* A sequence cut in two and put together again.
LEMMA CutAndJoined ==
    ASSUME NEW S, NEW s \in Seq(S), NEW i \in DOMAIN s, NEW x \in Seq(S)
    PROVE  SubSeq(s, 1, i) \o (SubSeq(s, i + 1, Len(s)) \o x) = s \o x
<1> DEFINE n == Len(s)
           a == SubSeq(s, 1, i)
           b == SubSeq(s, i + 1, n)
           c == b \o x
           l == a \o c
           r == s \o x
           m == Len(x)
<1>1. n \in Nat /\ i \in 1..n /\ m \in Nat
  BY SeqFacts
<1>2. i \in Nat /\ 1 \in Nat \ {0} /\ i + 1 \in Nat \ {0} /\ i <= n /\ n <= n
  BY <1>1
<1>3. a \in Seq(S) /\ Len(a) = i /\ \A k \in 1..i : a[k] = s[k]
  <2>1. a \in Seq(S) /\ Len(a) = (IF 1 <= i THEN i - 1 + 1 ELSE 0)
        /\ \A k \in 1..(i - 1 + 1) : a[k] = s[1 + k - 1]
    BY <1>2, SubSeqFacts
  <2> HIDE DEF a
  <2>2. \A k \in 1..i : 1 + k - 1 = k
    OBVIOUS
  <2> QED
    BY <1>1, <1>2, <2>1, <2>2
<1>4. b \in Seq(S) /\ Len(b) = n - i /\ \A k \in 1..(n - i) : b[k] = s[i + k]
  <2>1. b \in Seq(S) /\ Len(b) = (IF i + 1 <= n THEN n - (i + 1) + 1 ELSE 0)
        /\ \A k \in 1..(n - (i + 1) + 1) : b[k] = s[i + 1 + k - 1]
    BY <1>1, <1>2, SubSeqFacts
  <2> HIDE DEF b, n
  <2>2. \A k \in 1..(n - i) : i + 1 + k - 1 = i + k
    BY <1>1
  <2>3. n - (i + 1) + 1 = n - i
    BY <1>1
  <2> QED
    BY <1>1, <2>1, <2>2, <2>3
<1> HIDE DEF a, b, n, m
<1>5. /\ c \in Seq(S) /\ Len(c) = n - i + m
      /\ \A k \in 1..(n - i + m) : c[k] = IF k <= n - i THEN b[k] ELSE x[k - (n - i)]
  <2>1. b \in Seq(S) /\ x \in Seq(S) /\ n - i = Len(b) /\ m = Len(x)
    BY <1>4 DEF m
  <2> QED
    BY <2>1, Joined
<1> HIDE DEF c
<1>6. /\ l \in Seq(S) /\ Len(l) = n + m
      /\ \A k \in 1..(n + m) : l[k] = IF k <= i THEN a[k] ELSE c[k - i]
  <2> DEFINE q == n - i + m
  <2>1. a \in Seq(S) /\ c \in Seq(S) /\ i = Len(a) /\ q = Len(c)
    BY <1>3, <1>5
  <2>2. i + q = n + m
    BY <1>1
  <2> HIDE DEF q
  <2>3. /\ l \in Seq(S) /\ Len(l) = i + q
        /\ \A k \in 1..(i + q) : l[k] = IF k <= i THEN a[k] ELSE c[k - i]
    BY <2>1, Joined
  <2> QED
    BY <2>2, <2>3
<1>7. /\ r \in Seq(S) /\ Len(r) = n + m
      /\ \A k \in 1..(n + m) : r[k] = IF k <= n THEN s[k] ELSE x[k - n]
  BY DEF n, m
<1> HIDE DEF l, r
<1>8. ASSUME NEW k \in 1..(n + m) PROVE l[k] = r[k]
  <2>1. CASE k <= i
    <3>1. k \in 1..i /\ k <= n
      BY <1>1, <2>1
    <3> QED
      BY <1>3, <1>6, <1>7, <2>1, <3>1
  <2>2. CASE i < k /\ k <= n
    <3>1. k - i \in 1..(n - i + m) /\ k - i \in 1..(n - i) /\ ~(k <= i) /\ i + (k - i) = k
          /\ k - i <= n - i
      BY <1>1, <2>2
    <3>2. l[k] = c[k - i]
      BY <1>6, <3>1
    <3>3. c[k - i] = b[k - i]
      BY <1>5, <3>1
    <3>4. b[k - i] = s[k]
      BY <1>4, <3>1
    <3> QED
      BY <1>7, <2>2, <3>2, <3>3, <3>4
  <2>3. CASE n < k
    <3>1. k - i \in 1..(n - i + m) /\ ~(k <= i) /\ ~(k - i <= n - i) /\ (k - i) - (n - i) = k - n
          /\ ~(k <= n)
      BY <1>1, <2>3
    <3>2. l[k] = c[k - i]
      BY <1>6, <3>1
    <3>3. c[k - i] = x[k - n]
      BY <1>5, <3>1
    <3> QED
      BY <1>7, <3>1, <3>2, <3>3
  <2> QED
    BY <1>1, <2>1, <2>2, <2>3
<1>9. l = r
  <2>1. DOMAIN l = 1..(n + m) /\ DOMAIN r = 1..(n + m)
    BY <1>6, <1>7
  <2>2. l = [k \in 1..(n + m) |-> l[k]] /\ r = [k \in 1..(n + m) |-> r[k]]
    BY <1>6, <1>7, <2>1
  <2> QED
    BY <1>8, <2>2
<1> QED
  BY <1>9 DEF l, r, a, b, c, n

\* Two functions agree on a block, or they do when they do on one of lower rank.
AgreeAbove(V, rank, F, H) ==
    \A b \in V : \/ F[b] = H[b]
                 \/ \E c \in V : rank[c] < rank[b] /\ (F[c] = H[c] => F[b] = H[b])

\* Then they agree everywhere.
LEMMA AgreeByRank ==
    ASSUME NEW V, NEW rank \in [V -> Nat], NEW F, NEW H, AgreeAbove(V, rank, F, H)
    PROVE  \A b \in V : F[b] = H[b]
<1> DEFINE Bad == {b \in V : F[b] # H[b]}
           R == {rank[b] : b \in Bad}
<1>1. SUFFICES ASSUME Bad # {} PROVE FALSE
  OBVIOUS
<1>2. R \in SUBSET Nat /\ R # {}
  BY <1>1
<1>3. PICK r \in R : \A q \in R : r <= q
  <2> HIDE DEF R
  <2> QED
    BY <1>2, Least
<1>4. PICK b \in Bad : r = rank[b]
  BY <1>3
<1>5. PICK c \in V : rank[c] < rank[b] /\ (F[c] = H[c] => F[b] = H[b])
  BY <1>4 DEF AgreeAbove
<1>6. c \in Bad
  BY <1>4, <1>5
<1>7. rank[b] <= rank[c]
  BY <1>3, <1>4, <1>6
<1> QED
  BY <1>4, <1>5, <1>7

LEMMA SplitPreserves ==
    ASSUME prog \in Programs, IrShape, IrShape', prog' = prog, NEW block \in Blocks,
           NEW i \in DOMAIN stmts[block], Split(block, i),
           NEW rank, NEW T, NEW G, Preserves(rank, T, G)
    PROVE  \E r, t, g : Preserves(r, t, g)'
<1> DEFINE C == Continuation
           L == LeaveBlock
           W == Blocks'
           next == succ[block][1]
           rest == IF block \in checked THEN T[next] ELSE <<>>
           head == SubSeq(stmts[block], 1, i)
           tail == SubSeq(stmts[block], i + 1, Len(stmts[block]))
           r == [b \in W |-> IF b \in Blocks THEN 2 * rank[b] + 1
                             ELSE IF b = C THEN 2 * rank[block] ELSE 0]
           t == [b \in W |-> IF b \in Blocks THEN T[b] ELSE IF b = C THEN tail \o rest ELSE <<>>]
           g == [b \in W |-> IF b \in Blocks THEN G[b] ELSE IF b = C THEN G[block] ELSE <<>>]
<1>1. /\ rank \in [Blocks -> Nat]
      /\ \A b \in checked : succ[b][1] \in Blocks /\ rank[succ[b][1]] < rank[b]
      /\ T \in [Blocks -> Seq(Statements)] /\ G \in [Blocks -> Seq(Blocks)]
      /\ \A b \in Blocks : T[b] = stmts[b] \o (IF b \in checked THEN T[succ[b][1]] ELSE <<>>)
      /\ \A b \in Blocks : G[b] = IF b \in checked THEN G[succ[b][1]] ELSE succ[b]
      /\ \A b \in SourceBlocks : T[b] = SourceText(b) /\ G[b] = prog.succ[b]
  BY DEF Preserves
<1>2. /\ \A b : b \in W <=> b \in Blocks \/ b = C \/ b = L
      /\ C \notin Blocks /\ C # L /\ (leave = 0 <=> L \notin Blocks)
      /\ succ'[block] = <<C, L>> /\ succ'[C] = succ[block]
      /\ (leave = 0 => succ'[L] = <<>>)
      /\ \A b \in Blocks : b # block => succ'[b] = succ[b]
      /\ stmts'[block] = head /\ stmts'[C] = tail
      /\ (leave = 0 => stmts'[L] = <<>>)
      /\ \A b \in Blocks : b # block => stmts'[b] = stmts[b]
      /\ checked' = checked \cup (IF block \in checked THEN {block, C} ELSE {block})
  BY DEF Split
<1>3. /\ checked \subseteq Blocks /\ SourceBlocks \subseteq Blocks
      /\ stmts[block] \in Seq(Statements)
      /\ \A b \in Blocks : stmts[b] \in Seq(Statements) /\ succ[b] \in Seq(Blocks \ {Entry})
  BY BlocksFacts DEF IrShape
<1>4. succ'[block][1] = C
  BY <1>2
<1> HIDE DEF C, L, W
<1>5. block \in checked => next \in Blocks /\ rank[next] < rank[block]
  BY <1>1
<1>6. rest \in Seq(Statements)
  BY <1>1, <1>5
<1>7. tail \o rest \in Seq(Statements) /\ head \o (tail \o rest) = stmts[block] \o rest
  <2> DEFINE s == stmts[block]
             n == Len(s)
  <2> HIDE DEF rest
  <2>1. s \in Seq(Statements) /\ i \in DOMAIN s
    BY <1>3
  <2>2. SubSeq(s, 1, i) \o (SubSeq(s, i + 1, Len(s)) \o rest) = s \o rest
    <3> HIDE DEF s
    <3> QED
      BY <1>6, <2>1, CutAndJoined
  <2>3. n \in Nat /\ i \in 1..n
    BY <2>1, SeqFacts
  <2>4. i + 1 \in Nat \ {0} /\ n \in Nat /\ n <= n
    BY <2>3
  <2>5. SubSeq(s, i + 1, n) \in Seq(Statements)
    <3> HIDE DEF s
    <3> QED
      BY <2>1, <2>4, SubSeqFacts
  <2> QED
    BY <1>6, <2>2, <2>5, Concatenated
<1> HIDE DEF head, tail
<1>8. /\ \A b \in Blocks : b \in W /\ r[b] = 2 * rank[b] + 1 /\ t[b] = T[b] /\ g[b] = G[b]
      /\ C \in W /\ r[C] = 2 * rank[block] /\ t[C] = tail \o rest /\ g[C] = G[block]
      /\ L \in W /\ (L \notin Blocks => t[L] = <<>> /\ g[L] = <<>>)
  BY <1>2
<1>9. r \in [W -> Nat]
  <2>1. \A b \in Blocks : rank[b] \in Nat /\ 2 * rank[b] + 1 \in Nat /\ 2 * rank[b] \in Nat
    BY <1>1
  <2> QED
    BY <2>1
<1>10. t \in [W -> Seq(Statements)] /\ g \in [W -> Seq(W)]
  <2>1. \A b \in Blocks : T[b] \in Seq(Statements) /\ G[b] \in Seq(W)
    <3>1. \A b \in Blocks : G[b] \in Seq(Blocks)
      BY <1>1
    <3>2. \A b \in Blocks : \A k \in DOMAIN G[b] : G[b][k] \in W
      BY <1>2, <3>1, SeqFacts
    <3>3. \A b \in Blocks : G[b] \in Seq(W)
      BY <3>1, <3>2, SeqNarrow
    <3> QED
      BY <1>1, <3>3
  <2>2. <<>> \in Seq(Statements) /\ <<>> \in Seq(W)
    OBVIOUS
  <2> DEFINE j == tail \o rest
  <2>3. j \in Seq(Statements)
    BY <1>7
  <2> HIDE DEF j
  <2>4. t = [b \in W |-> IF b \in Blocks THEN T[b] ELSE IF b = C THEN j ELSE <<>>]
    BY DEF j
  <2> HIDE DEF t
  <2>5. t \in [W -> Seq(Statements)]
    BY <2>1, <2>2, <2>3, <2>4
  <2>6. g \in [W -> Seq(W)]
    BY <2>1, <2>2
  <2> QED
    BY <2>5, <2>6
<1> HIDE DEF r, t, g
<1>11. ASSUME NEW b \in checked' PROVE succ'[b][1] \in W /\ r[succ'[b][1]] < r[b]
  <2>1. CASE b = block
    <3>1. rank[block] \in Nat
      BY <1>1
    <3> QED
      BY <1>4, <1>8, <2>1, <3>1
  <2>2. CASE b = C /\ block \in checked
    <3>1. succ'[b][1] = next /\ next \in Blocks /\ rank[next] < rank[block]
      BY <1>2, <1>5, <2>2
    <3>2. rank[next] \in Nat /\ rank[block] \in Nat
      BY <1>1, <3>1
    <3>3. r[next] = 2 * rank[next] + 1 /\ r[b] = 2 * rank[block] /\ next \in W
      BY <1>8, <2>2, <3>1
    <3> HIDE DEF next
    <3> QED
      BY <3>1, <3>2, <3>3
  <2>3. CASE b \in checked /\ b # block
    <3> DEFINE c == succ[b][1]
    <3>1. succ'[b][1] = c /\ c \in Blocks /\ rank[c] < rank[b] /\ b \in Blocks
      BY <1>1, <1>2, <1>3, <2>3
    <3>2. rank[c] \in Nat /\ rank[b] \in Nat
      BY <1>1, <3>1
    <3> HIDE DEF c
    <3> QED
      BY <1>8, <3>1, <3>2
  <2> QED
    BY <1>2, <1>11, <2>1, <2>2, <2>3
<1>12. ASSUME NEW b \in W
       PROVE  /\ t[b] = stmts'[b] \o (IF b \in checked' THEN t[succ'[b][1]] ELSE <<>>)
              /\ g[b] = IF b \in checked' THEN g[succ'[b][1]] ELSE succ'[b]
  <2>1. CASE b = block
    <3>1. b \in checked' /\ succ'[b][1] = C /\ stmts'[b] = head
      BY <1>2, <1>4, <2>1
    <3>2. t[b] = stmts[block] \o rest /\ t[C] = tail \o rest /\ g[b] = G[block] /\ g[C] = G[block]
      BY <1>1, <1>8, <2>1
    <3> HIDE DEF rest
    <3> QED
      BY <1>7, <3>1, <3>2
  <2>2. CASE b = C /\ block \in checked
    <3>1. b \in checked' /\ succ'[b][1] = next /\ stmts'[b] = tail
      BY <1>2, <2>2
    <3>2. t[b] = tail \o T[next] /\ t[next] = T[next] /\ g[b] = G[block] /\ g[next] = G[next]
      BY <1>5, <1>8, <2>2
    <3>3. G[block] = G[next]
      BY <1>1, <2>2
    <3> HIDE DEF next
    <3> QED
      BY <3>1, <3>2, <3>3
  <2>3. CASE b = C /\ block \notin checked
    <3>1. b \notin checked' /\ succ'[b] = succ[block] /\ stmts'[b] = tail
      BY <1>2, <1>3, <2>3
    <3>2. t[b] = tail \o <<>> /\ g[b] = G[block] /\ G[block] = succ[block]
      BY <1>1, <1>8, <2>3
    <3> QED
      BY <3>1, <3>2
  <2>4. CASE b \in Blocks /\ b # block
    <3>1. succ'[b] = succ[b] /\ stmts'[b] = stmts[b] /\ (b \in checked' <=> b \in checked)
      BY <1>2, <2>4
    <3>2. t[b] = T[b] /\ g[b] = G[b]
      BY <1>8, <2>4
    <3>3. b \in checked => t[succ[b][1]] = T[succ[b][1]] /\ g[succ[b][1]] = G[succ[b][1]]
      BY <1>1, <1>8
    <3>4. T[b] = stmts[b] \o (IF b \in checked THEN T[succ[b][1]] ELSE <<>>)
          /\ G[b] = IF b \in checked THEN G[succ[b][1]] ELSE succ[b]
      BY <1>1, <2>4
    <3> QED
      BY <3>1, <3>2, <3>3, <3>4
  <2>5. CASE b = L /\ L \notin Blocks
    <3>1. b \notin checked' /\ succ'[b] = <<>> /\ stmts'[b] = <<>>
      BY <1>2, <1>3, <2>5
    <3>2. t[b] = <<>> /\ g[b] = <<>>
      BY <1>8, <2>5
    <3>3. <<>> \o <<>> = <<>>
      OBVIOUS
    <3> QED
      BY <3>1, <3>2, <3>3
  <2> QED
    BY <1>2, <2>1, <2>2, <2>3, <2>4, <2>5
<1>13. \A b \in SourceBlocks : t[b] = SourceText(b) /\ g[b] = prog.succ[b]
  BY <1>1, <1>3, <1>8
<1>14. PICK x, y, z : x = r /\ y = t /\ z = g
  OBVIOUS
<1>15. Preserves(x, y, z)'
  <2>1. SourceBlocks' = SourceBlocks /\ Statements' = Statements
    BY ProgKept
  <2>2. \A b : SourceText(b)' = SourceText(b)
    BY DEF SourceText
  <2> QED
    BY <1>9, <1>10, <1>11, <1>12, <1>13, <1>14, <2>1, <2>2 DEF Preserves, W
<1> QED
  BY <1>15

LEMMA SourceInit ==
    ASSUME Init
    PROVE  SourceInv
<1>1. Shape
  BY ShapeInit
<1>2. /\ prog \in Programs /\ succ = prog.succ /\ stmts = SourceStatements /\ checked = {}
      /\ IrShape
  BY <1>1 DEF Init, SourceStatements, Shape
<1>3. Blocks = SourceBlocks
  BY <1>2 DEF Blocks, SourceBlocks
<1>4. /\ \A b \in Blocks : stmts[b] \in Seq(Statements) /\ succ[b] \in Seq(Blocks)
      /\ DOMAIN stmts = Blocks
  <2>1. \A b \in Blocks : succ[b] \in Seq(Blocks \ {Entry}) /\ stmts[b] \in Seq(Statements)
    BY <1>2, BlocksFacts
  <2>2. \A b \in Blocks : \A k \in DOMAIN succ[b] : succ[b][k] \in Blocks
    BY <2>1, SeqFacts
  <2>3. \A b \in Blocks : succ[b] \in Seq(Blocks)
    BY <2>1, <2>2, SeqNarrow
  <2> QED
    BY <1>2, <2>1, <2>3, BlocksFacts
<1> DEFINE rank == [b \in Blocks |-> 0]
           T == [b \in Blocks |-> stmts[b]]
           G == [b \in Blocks |-> succ[b]]
<1>5. \A b \in Blocks : T[b] = stmts[b] \o <<>> /\ G[b] = succ[b]
  BY <1>4
<1>6. \A b \in SourceBlocks : T[b] = SourceText(b) /\ G[b] = prog.succ[b]
  BY <1>2, <1>3 DEF SourceStatements, SourceText, SourceBlocks
<1>7. rank \in [Blocks -> Nat] /\ T \in [Blocks -> Seq(Statements)] /\ G \in [Blocks -> Seq(Blocks)]
  BY <1>4
<1> HIDE DEF rank, T, G
<1>8. Preserves(rank, T, G)
  BY <1>2, <1>5, <1>6, <1>7 DEF Preserves
<1> QED
  BY <1>1, <1>8 DEF SourceInv

LEMMA SourceNext ==
    ASSUME SourceInv, [Next]_vars
    PROVE  SourceInv'
<1>1. Shape /\ Shape'
  BY ShapeNext DEF SourceInv
<1>2. prog' = prog /\ prog \in Programs /\ IrShape /\ IrShape'
  BY <1>1, IrSteps DEF Shape, AnalysisInv
<1>3. PICK rank, T, G : Preserves(rank, T, G)
  BY DEF SourceInv
<1>4. CASE ir' = ir
  <2>1. /\ succ' = succ /\ stmts' = stmts /\ checked' = checked /\ Blocks' = Blocks
        /\ SourceBlocks' = SourceBlocks /\ Statements' = Statements
    BY <1>2, <1>4, IrKept, ProgKept DEF ir
  <2>2. \A b : SourceText(b)' = SourceText(b)
    BY <1>2 DEF SourceText
  <2>3. Preserves(rank, T, G)'
    BY <1>2, <1>3, <2>1, <2>2 DEF Preserves
  <2> QED
    BY <1>1, <2>3 DEF SourceInv
<1>5. CASE \E block, i : InsertsAt(block, i)
  <2>1. PICK block, i : InsertsAt(block, i)
    BY <1>5
  <2>2. block \in Blocks /\ i \in DOMAIN stmts[block] /\ Split(block, i)
    BY <1>2, <2>1, SplitFacts DEF InsertsAt
  <2>3. \E r, t, g : Preserves(r, t, g)'
    BY <1>2, <1>3, <2>2, SplitPreserves
  <2> QED
    BY <1>1, <2>3 DEF SourceInv
<1> QED
  BY <1>1, <1>4, <1>5, IrSteps

LEMMA TypesRight ==
    ASSUME Shape
    PROVE  TypeOK
<1>1. prog \in Programs /\ IrShape /\ OutgoingShape
  BY DEF Shape, AnalysisInv
<1>2. /\ DOMAIN stmts = Blocks /\ SourceBlocks \subseteq Blocks
      /\ \A b \in Blocks : AsSet(succ[b]) \subseteq Blocks \ {Entry}
  BY <1>1, BlocksFacts
<1>3. ASSUME NEW s \in GoodStates PROVE s \in HaltStates
  <2>1. s.suffix \in Seq(Points) /\ s = [remaining |-> s.remaining, suffix |-> s.suffix]
        /\ s.remaining \in 1..N
    BY DEF GoodStates
  <2>2. \A k \in DOMAIN s.suffix : s.suffix[k] \in Blocks \X Nat
    BY <1>2, <2>1, SeqFacts DEF Points, Statements
  <2>3. s.suffix \in Seq(Blocks \X Nat)
    BY <2>1, <2>2, SeqNarrow
  <2> DEFINE Q == Seq(Blocks \X Nat)
  <2>4. s.suffix \in Q /\ HaltStates = [remaining : 1..N, suffix : Q]
    BY <2>3 DEF HaltStates
  <2> HIDE DEF Q
  <2> QED
    BY <2>1, <2>4
<1>4. Inserting => work.state \in HaltStates
  BY <1>3, InsertingFacts DEF Works
<1>5. DOMAIN outgoing \subseteq Blocks \X Blocks /\ \A e \in DOMAIN outgoing : outgoing[e] \in HaltStates
  BY <1>1, <1>3 DEF OutgoingShape
<1> QED
  BY <1>1, <1>2, <1>4, <1>5 DEF TypeOK, Shape, IrShape

LEMMA SourceAnswers ==
    ASSUME SourceInv
    PROVE  SourcePreserved
<1>1. Shape /\ prog \in Programs /\ IrShape
  BY DEF SourceInv, Shape, AnalysisInv
<1>2. SourceBlocks \subseteq Blocks /\ checked \subseteq Blocks
  BY <1>1, BlocksFacts DEF IrShape
<1>3. PICK rank, T, G : Preserves(rank, T, G)
  BY DEF SourceInv
<1>4. /\ rank \in [Blocks -> Nat]
      /\ \A b \in checked : succ[b][1] \in Blocks /\ rank[succ[b][1]] < rank[b]
      /\ T \in [Blocks -> Seq(Statements)] /\ G \in [Blocks -> Seq(Blocks)]
      /\ \A b \in Blocks : T[b] = stmts[b] \o (IF b \in checked THEN T[succ[b][1]] ELSE <<>>)
      /\ \A b \in Blocks : G[b] = IF b \in checked THEN G[succ[b][1]] ELSE succ[b]
      /\ \A b \in SourceBlocks : T[b] = SourceText(b) /\ G[b] = prog.succ[b]
  BY <1>3 DEF Preserves
<1> DEFINE IsText(F) == F = [b \in Blocks |->
                               stmts[b] \o (IF b \in checked THEN F[succ[b][1]] ELSE <<>>)]
           IsTarget(F) == F = [b \in Blocks |-> IF b \in checked THEN F[succ[b][1]] ELSE succ[b]]
           Text == CHOOSE F : IsText(F)
           Target == CHOOSE F : IsTarget(F)
<1>5. IsText(T) /\ IsTarget(G)
  <2>1. T = [b \in Blocks |-> T[b]] /\ G = [b \in Blocks |-> G[b]]
    BY <1>4
  <2> QED
    BY <1>4, <2>1
<1>6. IsText(Text) /\ IsTarget(Target)
  BY <1>5
<1>7. /\ \A b \in Blocks : Text[b] = stmts[b] \o (IF b \in checked THEN Text[succ[b][1]] ELSE <<>>)
      /\ \A b \in Blocks : Target[b] = IF b \in checked THEN Target[succ[b][1]] ELSE succ[b]
  <2> DEFINE F == Text
             H == Target
  <2>1. IsText(F) /\ IsTarget(H)
    BY <1>6
  <2> HIDE DEF F, H
  <2>2. /\ \A b \in Blocks : F[b] = stmts[b] \o (IF b \in checked THEN F[succ[b][1]] ELSE <<>>)
        /\ \A b \in Blocks : H[b] = IF b \in checked THEN H[succ[b][1]] ELSE succ[b]
    BY <2>1
  <2> QED
    BY <2>2 DEF F, H
<1>8. SourcePreserved <=> TypeOK /\ \A b \in SourceBlocks : Text[b] = SourceText(b) /\ Target[b] = prog.succ[b]
  BY DEF SourcePreserved, SourceText
<1> HIDE DEF Text, Target
<1>9. \A b \in Blocks : Text[b] = T[b]
  <2>1. ASSUME NEW b \in Blocks
        PROVE  \/ Text[b] = T[b]
               \/ \E c \in Blocks : rank[c] < rank[b] /\ (Text[c] = T[c] => Text[b] = T[b])
    <3>1. CASE b \notin checked
      BY <1>4, <1>7, <3>1
    <3>2. CASE b \in checked
      <4> DEFINE c == succ[b][1]
      <4>1. c \in Blocks /\ rank[c] < rank[b]
        BY <1>4, <3>2
      <4>2. Text[c] = T[c] => Text[b] = T[b]
        BY <1>4, <1>7, <3>2
      <4> HIDE DEF c
      <4> QED
        BY <4>1, <4>2
    <3> QED
      BY <3>1, <3>2
  <2>2. AgreeAbove(Blocks, rank, Text, T) /\ rank \in [Blocks -> Nat]
    BY <1>4, <2>1 DEF AgreeAbove
  <2> QED
    BY <2>2, AgreeByRank
<1>10. \A b \in Blocks : Target[b] = G[b]
  <2>1. ASSUME NEW b \in Blocks
        PROVE  \/ Target[b] = G[b]
               \/ \E c \in Blocks : rank[c] < rank[b] /\ (Target[c] = G[c] => Target[b] = G[b])
    <3>1. CASE b \notin checked
      BY <1>4, <1>7, <3>1
    <3>2. CASE b \in checked
      <4> DEFINE c == succ[b][1]
      <4>1. c \in Blocks /\ rank[c] < rank[b]
        BY <1>4, <3>2
      <4>2. Target[c] = G[c] => Target[b] = G[b]
        BY <1>4, <1>7, <3>2
      <4> HIDE DEF c
      <4> QED
        BY <4>1, <4>2
    <3> QED
      BY <3>1, <3>2
  <2>2. AgreeAbove(Blocks, rank, Target, G) /\ rank \in [Blocks -> Nat]
    BY <1>4, <2>1 DEF AgreeAbove
  <2> QED
    BY <2>2, AgreeByRank
<1>11. \A b \in SourceBlocks : Text[b] = SourceText(b) /\ Target[b] = prog.succ[b]
  BY <1>2, <1>4, <1>9, <1>10
<1> QED
  BY <1>1, <1>8, <1>11, TypesRight

\* Inserting the checks loses, repeats and reorders no statement and changes no
\* terminator, for every program: whatever splits insert_halt_check_at makes,
\* following the continuations from a block of the source finds its statements
\* and its own successors, and the representation and the inserter's maps keep
\* their types.
THEOREM SourceAlwaysPreserved == Spec => []SourcePreserved
<1>1. Init => SourceInv
  BY SourceInit
<1>2. SourceInv /\ [Next]_vars => SourceInv'
  BY SourceNext
<1>3. SourceInv => SourcePreserved
  BY SourceAnswers
<1> QED
  BY <1>1, <1>2, <1>3, PTL DEF Spec

-----------------------------------------------------------------------------
(* The compile order: the depth-first search.  d is its state, V the blocks *)
(* and E the edges.                                                          *)

Frames(V) == [exit : BOOLEAN, block : V]

Enters(d, q, b) == q \in DOMAIN d.stack /\ ~d.stack[q].exit /\ d.stack[q].block = b
Exits(d, p, b) == p \in DOMAIN d.stack /\ d.stack[p].exit /\ d.stack[p].block = b

\* x is reached from the entry by a way that does not pass through c.
Around(V, E, c, x) == Connected(V, {e \in E : e[1] # c /\ e[2] # c}, Entry, x)

DfsTyped(d, V, E) ==
    /\ d = [stack |-> d.stack, seen |-> d.seen, postorder |-> d.postorder]
    /\ d.stack \in Seq(Frames(V)) /\ d.seen \in SUBSET V /\ d.postorder \in Seq(V)
    /\ E \in SUBSET (V \X V)

\* The blocks seen are the ones that are left or will be, each once.
DfsSeen(d) ==
    /\ \A b : b \in d.seen <=> b \in AsSet(d.postorder) \/ \E p \in Nat : Exits(d, p, b)
    /\ Distinct(d.postorder)
    /\ \A p \in Nat : \A b : Exits(d, p, b) => b \notin AsSet(d.postorder)
    /\ \A p, q \in Nat : \A b : (Exits(d, p, b) /\ Exits(d, q, b)) => p = q

DfsReached(d, V, E) ==
    /\ \A p \in DOMAIN d.stack : Connected(V, E, Entry, d.stack[p].block)
    /\ \A b \in d.seen : Connected(V, E, Entry, b)

\* A successor of a block that is seen is seen, or is entered before that block
\* is left.
DfsClosing(d, E) ==
    \A e \in E : e[1] \in d.seen =>
        \/ e[2] \in d.seen
        \/ \E p, q \in Nat : p < q /\ Exits(d, p, e[1]) /\ Enters(d, q, e[2])

\* The entry is the first block entered and the last one left.
DfsEntry(d) ==
    \/ Len(d.stack) = 1 /\ Enters(d, 1, Entry) /\ d.seen = {} /\ d.postorder = <<>>
    \/ Exits(d, 1, Entry)
    \/ d.stack = <<>> /\ d.postorder # <<>> /\ LastOf(d.postorder) = Entry

\* A block that c dominates is entered above the frame that leaves c, and left
\* before c is.
DfsDominates(d, V, E) ==
    \A c \in V \ {Entry} :
        /\ \A q \in DOMAIN d.stack :
              \/ d.stack[q].block = c
              \/ \E p \in Nat : p < q /\ Exits(d, p, c)
              \/ Around(V, E, c, d.stack[q].block)
        /\ \A k \in DOMAIN d.postorder :
              \/ d.postorder[k] = c
              \/ Around(V, E, c, d.postorder[k])
              \/ \E p \in Nat : Exits(d, p, c)
              \/ \E l \in DOMAIN d.postorder : k < l /\ d.postorder[l] = c

DfsInv(d, V, E) ==
    /\ DfsTyped(d, V, E) /\ DfsSeen(d) /\ DfsReached(d, V, E) /\ DfsClosing(d, E)
    /\ DfsEntry(d) /\ DfsDominates(d, V, E)

\* u is d with the frame n, the last, taken off.
Dropping(d, n, u) ==
    /\ \A k \in DOMAIN d.stack : k <= n
    /\ \A k : k \in DOMAIN u.stack <=> k \in DOMAIN d.stack /\ k # n
    /\ \A k \in DOMAIN u.stack : u.stack[k] = d.stack[k]

LEMMA Dropped ==
    ASSUME NEW V, NEW E, NEW d, DfsTyped(d, V, E), d.stack # <<>>, NEW u, u.stack = FrontOf(d.stack)
    PROVE  /\ Len(d.stack) \in DOMAIN d.stack /\ Len(d.stack) \in Nat /\ DOMAIN d.stack \subseteq Nat
           /\ Dropping(d, Len(d.stack), u) /\ u.stack \in Seq(Frames(V))
           /\ d.stack[Len(d.stack)] = LastOf(d.stack) /\ LastOf(d.stack) \in Frames(V)
<1> DEFINE n == Len(d.stack)
           s == d.stack
           r == FrontOf(s)
           F == Frames(V)
<1>1. s \in Seq(F) /\ s # <<>>
  BY DEF DfsTyped
<1> HIDE DEF s, F, r
<1>2. n \in Nat /\ DOMAIN s = 1..n /\ n \in DOMAIN s /\ \A k \in DOMAIN s : s[k] \in F
  BY <1>1, SeqFacts DEF s
<1>3. r \in Seq(F) /\ DOMAIN r = 1..(n - 1) /\ \A k \in 1..(n - 1) : r[k] = s[k]
  BY <1>1, FrontFacts DEF r, s
<1> HIDE DEF n
<1>4. \A k : k \in 1..(n - 1) <=> k \in 1..n /\ k # n
  BY <1>2
<1>5. \A k \in DOMAIN s : k <= n
  BY <1>2
<1>6. Dropping(d, n, u)
  BY <1>2, <1>3, <1>4, <1>5, Zenon DEF Dropping, s, r
<1>7. DOMAIN s \subseteq Nat
  BY <1>2
<1> QED
  BY <1>2, <1>3, <1>6, <1>7 DEF n, s, r, F, LastOf

\* A frame that enters a block seen already is taken off.
LEMMA DfsDrop ==
    ASSUME NEW V, NEW E, NEW d, DfsInv(d, V, E), d.stack # <<>>,
           ~LastOf(d.stack).exit, LastOf(d.stack).block \in d.seen,
           NEW u, u = [d EXCEPT !.stack = FrontOf(d.stack)]
    PROVE  DfsInv(u, V, E)
<1> DEFINE n == Len(d.stack)
<1>1. DfsTyped(d, V, E) /\ DfsSeen(d) /\ DfsReached(d, V, E) /\ DfsClosing(d, E)
      /\ DfsEntry(d) /\ DfsDominates(d, V, E)
  BY DEF DfsInv
<1>2. /\ u.stack = FrontOf(d.stack) /\ u.seen = d.seen /\ u.postorder = d.postorder
      /\ u = [stack |-> u.stack, seen |-> u.seen, postorder |-> u.postorder]
  BY <1>1 DEF DfsTyped
<1>3. /\ n \in DOMAIN d.stack /\ n \in Nat /\ DOMAIN d.stack \subseteq Nat
      /\ Dropping(d, n, u) /\ u.stack \in Seq(Frames(V))
      /\ ~d.stack[n].exit /\ d.stack[n].block \in d.seen
  <2>1. DfsTyped(d, V, E) /\ d.stack # <<>> /\ u.stack = FrontOf(d.stack)
    BY <1>1, <1>2
  <2>2. /\ n \in DOMAIN d.stack /\ n \in Nat /\ DOMAIN d.stack \subseteq Nat
        /\ Dropping(d, n, u) /\ u.stack \in Seq(Frames(V)) /\ d.stack[n] = LastOf(d.stack)
    BY <2>1, Dropped
  <2> QED
    BY <2>2
<1> HIDE DEF n
<1>4. /\ \A p, b : Exits(u, p, b) <=> Exits(d, p, b)
      /\ \A q, b : Enters(d, q, b) => Enters(u, q, b) \/ b \in d.seen
  BY <1>3, Zenon DEF Exits, Enters, Dropping
<1>5. DfsTyped(u, V, E)
  BY <1>1, <1>2, <1>3 DEF DfsTyped
<1>6. DfsSeen(u)
  BY <1>1, <1>2, <1>4, Zenon DEF DfsSeen
<1>7. DfsReached(u, V, E)
  BY <1>1, <1>2, <1>3, Zenon DEF DfsReached, Dropping
<1>8. DfsClosing(u, E)
  BY <1>1, <1>2, <1>4, Zenon DEF DfsClosing
<1>9. DfsEntry(u)
  <2>1. d.stack # <<>> /\ d.seen # {}
    BY <1>3
  <2>2. Exits(d, 1, Entry)
    BY <1>1, <2>1 DEF DfsEntry
  <2> QED
    BY <1>4, <2>2 DEF DfsEntry
<1>10. DfsDominates(u, V, E)
  <2>1. \A q \in DOMAIN u.stack : q \in DOMAIN d.stack /\ u.stack[q] = d.stack[q]
    BY <1>3 DEF Dropping
  <2> SUFFICES ASSUME NEW c \in V \ {Entry}
               PROVE  /\ \A q \in DOMAIN u.stack :
                            \/ u.stack[q].block = c
                            \/ \E p \in Nat : p < q /\ Exits(u, p, c)
                            \/ Around(V, E, c, u.stack[q].block)
                      /\ \A k \in DOMAIN u.postorder :
                            \/ u.postorder[k] = c
                            \/ Around(V, E, c, u.postorder[k])
                            \/ \E p \in Nat : Exits(u, p, c)
                            \/ \E l \in DOMAIN u.postorder : k < l /\ u.postorder[l] = c
    BY DEF DfsDominates
  <2>2. ASSUME NEW q \in DOMAIN u.stack
        PROVE  \/ u.stack[q].block = c
               \/ \E p \in Nat : p < q /\ Exits(u, p, c)
               \/ Around(V, E, c, u.stack[q].block)
    BY <1>1, <1>4, <2>1, Zenon DEF DfsDominates
  <2>3. ASSUME NEW k \in DOMAIN d.postorder
        PROVE  \/ d.postorder[k] = c
               \/ Around(V, E, c, d.postorder[k])
               \/ \E p \in Nat : Exits(u, p, c)
               \/ \E l \in DOMAIN d.postorder : k < l /\ d.postorder[l] = c
    BY <1>1, <1>4, Zenon DEF DfsDominates
  <2> QED
    BY <1>2, <2>2, <2>3, Zenon
<1> QED
  BY <1>5, <1>6, <1>7, <1>8, <1>9, <1>10 DEF DfsInv

\* The frame that leaves a block is taken off.
LEMMA DfsLeave ==
    ASSUME NEW V, NEW E, NEW d, DfsInv(d, V, E), d.stack # <<>>, LastOf(d.stack).exit,
           NEW u, u = [d EXCEPT !.stack = FrontOf(d.stack),
                                !.postorder = Append(d.postorder, LastOf(d.stack).block)]
    PROVE  DfsInv(u, V, E)
<1> DEFINE n == Len(d.stack)
           b == LastOf(d.stack).block
           m == Len(d.postorder)
<1>1. DfsTyped(d, V, E) /\ DfsSeen(d) /\ DfsReached(d, V, E) /\ DfsClosing(d, E)
      /\ DfsEntry(d) /\ DfsDominates(d, V, E)
  BY DEF DfsInv
<1>2. /\ u.stack = FrontOf(d.stack) /\ u.seen = d.seen /\ u.postorder = Append(d.postorder, b)
      /\ u = [stack |-> u.stack, seen |-> u.seen, postorder |-> u.postorder]
  BY <1>1 DEF DfsTyped
<1>3. /\ n \in DOMAIN d.stack /\ n \in Nat /\ DOMAIN d.stack \subseteq Nat
      /\ Dropping(d, n, u) /\ u.stack \in Seq(Frames(V))
      /\ d.stack[n].exit /\ d.stack[n].block = b /\ b \in V
  <2>1. DfsTyped(d, V, E) /\ d.stack # <<>> /\ u.stack = FrontOf(d.stack)
    BY <1>1, <1>2
  <2>2. /\ n \in DOMAIN d.stack /\ n \in Nat /\ DOMAIN d.stack \subseteq Nat
        /\ Dropping(d, n, u) /\ u.stack \in Seq(Frames(V)) /\ d.stack[n] = LastOf(d.stack)
        /\ LastOf(d.stack) \in Frames(V)
    BY <2>1, Dropped
  <2> QED
    BY <2>2 DEF Frames
<1>4. /\ u.postorder \in Seq(V) /\ AsSet(u.postorder) = AsSet(d.postorder) \cup {b}
      /\ m \in Nat /\ DOMAIN d.postorder = 1..m /\ DOMAIN u.postorder = 1..(m + 1)
      /\ \A k \in 1..m : u.postorder[k] = d.postorder[k]
      /\ u.postorder[m + 1] = b /\ Len(u.postorder) = m + 1
  <2> DEFINE s == d.postorder
  <2>1. s \in Seq(V) /\ b \in V
    BY <1>1, <1>3 DEF DfsTyped
  <2> HIDE DEF b
  <2>2. Append(s, b) \in Seq(V) /\ AsSet(Append(s, b)) = AsSet(s) \cup {b}
    BY <2>1, AsSetAppend
  <2>3. /\ Len(s) \in Nat /\ DOMAIN s = 1..Len(s)
        /\ Len(Append(s, b)) = Len(s) + 1 /\ DOMAIN Append(s, b) = 1..(Len(s) + 1)
        /\ \A i \in DOMAIN s : Append(s, b)[i] = s[i]
        /\ Append(s, b)[Len(s) + 1] = b
    BY <2>1, Appended
  <2> QED
    BY <1>2, <2>2, <2>3
<1> HIDE DEF n, b, m
<1>5. /\ Exits(d, n, b)
      /\ \A p, c : Exits(u, p, c) <=> Exits(d, p, c) /\ p # n
      /\ \A q, c : Enters(u, q, c) <=> Enters(d, q, c)
      /\ \A p, c : (Exits(d, p, c) \/ Enters(d, p, c)) => p \in Nat /\ p <= n
      /\ \A c : Exits(d, n, c) => c = b
  BY <1>3, Zenon DEF Exits, Enters, Dropping
<1>6. b \in d.seen /\ b \notin AsSet(d.postorder)
  <2>1. n \in Nat /\ Exits(d, n, b) /\ DfsSeen(d)
    BY <1>1, <1>3, <1>5
  <2>2. b \in d.seen
    BY <2>1, Zenon DEF DfsSeen
  <2>3. b \notin AsSet(d.postorder)
    BY <2>1, Zenon DEF DfsSeen
  <2> QED
    BY <2>2, <2>3
<1>7. \A p \in Nat : \A c : Exits(d, p, c) => Exits(u, p, c) \/ c = b
  BY <1>5, Zenon
<1>8. DfsTyped(u, V, E)
  BY <1>1, <1>2, <1>3, <1>4 DEF DfsTyped
<1>9. DfsSeen(u)
  <2>1. ASSUME NEW c PROVE c \in u.seen <=> c \in AsSet(u.postorder) \/ \E p \in Nat : Exits(u, p, c)
    <3>1. c \in d.seen <=> c \in AsSet(d.postorder) \/ \E p \in Nat : Exits(d, p, c)
      BY <1>1, Zenon DEF DfsSeen
    <3>2. (\E p \in Nat : Exits(u, p, c)) => \E p \in Nat : Exits(d, p, c)
      BY <1>5, Zenon
    <3>3. (\E p \in Nat : Exits(d, p, c)) => c = b \/ \E p \in Nat : Exits(u, p, c)
      BY <1>7, Zenon
    <3> QED
      BY <1>2, <1>4, <1>6, <3>1, <3>2, <3>3
  <2>2. Distinct(u.postorder)
    <3>1. \A i \in 1..m : d.postorder[i] \in AsSet(d.postorder)
      BY <1>4 DEF AsSet
    <3>2. \A i, j \in 1..m : i # j => u.postorder[i] # u.postorder[j]
      BY <1>1, <1>4 DEF DfsSeen, Distinct
    <3>3. \A i \in 1..m : u.postorder[i] # b
      BY <1>4, <1>6, <3>1
    <3>4. \A i \in 1..(m + 1) : i \in 1..m \/ i = m + 1
      BY <1>4
    <3> QED
      BY <1>4, <3>2, <3>3, <3>4 DEF Distinct
  <2>3. ASSUME NEW p \in Nat, NEW q \in Nat, NEW c
        PROVE  /\ Exits(u, p, c) => c \notin AsSet(u.postorder)
               /\ Exits(u, p, c) /\ Exits(u, q, c) => p = q
    <3>1. /\ Exits(d, p, c) => c \notin AsSet(d.postorder)
          /\ Exits(d, p, c) /\ Exits(d, q, c) => p = q
          /\ Exits(d, p, b) => p = n
      <4>1. n \in Nat /\ Exits(d, n, b) /\ DfsSeen(d)
        BY <1>1, <1>3, <1>5
      <4>2. Exits(d, p, c) => c \notin AsSet(d.postorder)
        BY <4>1, Zenon DEF DfsSeen
      <4>3. Exits(d, p, c) /\ Exits(d, q, c) => p = q
        BY <4>1, Zenon DEF DfsSeen
      <4>4. Exits(d, p, b) => p = n
        BY <4>1, Zenon DEF DfsSeen
      <4> QED
        BY <4>2, <4>3, <4>4
    <3>2. Exits(u, p, c) => c # b
      BY <1>5, <3>1
    <3> QED
      BY <1>4, <1>5, <3>1, <3>2
  <2> QED
    BY <2>1, <2>2, <2>3 DEF DfsSeen
<1>10. DfsReached(u, V, E)
  BY <1>1, <1>2, <1>3, Zenon DEF DfsReached, Dropping
<1>11. DfsClosing(u, E)
  <2> SUFFICES ASSUME NEW e \in E, e[1] \in u.seen
               PROVE  \/ e[2] \in u.seen
                      \/ \E p, q \in Nat : p < q /\ Exits(u, p, e[1]) /\ Enters(u, q, e[2])
    BY DEF DfsClosing
  <2>1. CASE e[2] \in d.seen
    BY <1>2, <2>1
  <2>2. CASE e[2] \notin d.seen
    <3>1. PICK p, q \in Nat : p < q /\ Exits(d, p, e[1]) /\ Enters(d, q, e[2])
      BY <1>1, <1>2, <2>2, Zenon DEF DfsClosing
    <3>2. q <= n
      BY <1>5, <3>1
    <3>3. p # n
      BY <1>3, <3>1, <3>2
    <3> QED
      BY <1>5, <3>1, <3>3
  <2> QED
    BY <2>1, <2>2
<1>12. DfsEntry(u)
  <2>1. Exits(d, 1, Entry)
    <3>1. Exits(d, 1, b) => ~Enters(d, 1, Entry)
      BY DEF Exits, Enters
    <3>2. Len(d.stack) = 1 => n = 1
      BY DEF n
    <3> QED
      BY <1>1, <1>5, <3>1, <3>2 DEF DfsEntry
  <2>2. CASE n # 1
    <3>1. Exits(u, 1, Entry)
      BY <1>5, <2>1, <2>2
    <3> QED
      BY <3>1 DEF DfsEntry
  <2>3. CASE n = 1
    <3>1. b = Entry
      BY <1>5, <2>1, <2>3
    <3>2. \A k : k \notin DOMAIN u.stack
      <4>1. \A k \in DOMAIN d.stack : k >= 1
        <5>1. d.stack \in Seq(Frames(V))
          BY <1>1 DEF DfsTyped
        <5>2. DOMAIN d.stack = 1..Len(d.stack)
          BY <5>1, SeqFacts
        <5> QED
          BY <5>2
      <4>2. \A k \in DOMAIN d.stack : k <= n /\ k \in Nat
        BY <1>3 DEF Dropping
      <4>3. \A k \in DOMAIN d.stack : k = n
        BY <2>3, <4>1, <4>2
      <4> QED
        BY <1>3, <4>3, Zenon DEF Dropping
    <3>3. u.stack = <<>>
      <4>1. DOMAIN u.stack = 1..Len(u.stack) /\ Len(u.stack) \in Nat
        BY <1>3, SeqFacts
      <4>2. Len(u.stack) = 0
        <5>1. 1 \notin DOMAIN u.stack
          BY <3>2
        <5>2. 1 \notin 1..Len(u.stack)
          BY <4>1, <5>1
        <5> QED
          BY <4>1, <5>2
      <4> QED
        BY <1>3, <4>2
    <3>4. u.postorder # <<>> /\ LastOf(u.postorder) = Entry
      BY <1>4, <3>1 DEF LastOf
    <3> QED
      BY <3>3, <3>4 DEF DfsEntry
  <2> QED
    BY <2>2, <2>3
<1>13. DfsDominates(u, V, E)
  <2> SUFFICES ASSUME NEW c \in V \ {Entry}
               PROVE  /\ \A q \in DOMAIN u.stack :
                            \/ u.stack[q].block = c
                            \/ \E p \in Nat : p < q /\ Exits(u, p, c)
                            \/ Around(V, E, c, u.stack[q].block)
                      /\ \A k \in DOMAIN u.postorder :
                            \/ u.postorder[k] = c
                            \/ Around(V, E, c, u.postorder[k])
                            \/ \E p \in Nat : Exits(u, p, c)
                            \/ \E l \in DOMAIN u.postorder : k < l /\ u.postorder[l] = c
    BY DEF DfsDominates
  <2>0. /\ \A q \in DOMAIN d.stack :
              \/ d.stack[q].block = c
              \/ \E p \in Nat : p < q /\ Exits(d, p, c)
              \/ Around(V, E, c, d.stack[q].block)
        /\ \A k \in DOMAIN d.postorder :
              \/ d.postorder[k] = c
              \/ Around(V, E, c, d.postorder[k])
              \/ \E p \in Nat : Exits(d, p, c)
              \/ \E l \in DOMAIN d.postorder : k < l /\ d.postorder[l] = c
    BY <1>1 DEF DfsDominates
  <2>1. ASSUME NEW q \in DOMAIN u.stack
        PROVE  \/ u.stack[q].block = c
               \/ \E p \in Nat : p < q /\ Exits(u, p, c)
               \/ Around(V, E, c, u.stack[q].block)
    <3>1. q \in DOMAIN d.stack /\ u.stack[q] = d.stack[q] /\ q <= n /\ q \in Nat
      BY <1>3 DEF Dropping
    <3>2. \A p \in Nat : p < q => p # n
      BY <1>3, <3>1
    <3> QED
      BY <1>5, <2>0, <3>1, <3>2, Zenon
  <2>2. ASSUME NEW k \in 1..m
        PROVE  \/ u.postorder[k] = c
               \/ Around(V, E, c, u.postorder[k])
               \/ \E p \in Nat : Exits(u, p, c)
               \/ \E l \in 1..(m + 1) : k < l /\ u.postorder[l] = c
    <3>1. CASE \E p \in Nat : Exits(d, p, c)
      <4>1. c = b \/ \E p \in Nat : Exits(u, p, c)
        BY <1>7, <3>1, Zenon
      <4>2. m + 1 \in 1..(m + 1) /\ k < m + 1
        BY <1>4
      <4> QED
        BY <1>4, <4>1, <4>2
    <3>2. CASE \E l \in 1..m : k < l /\ d.postorder[l] = c
      <4>1. \A l \in 1..m : l \in 1..(m + 1)
        BY <1>4
      <4> QED
        BY <1>4, <3>2, <4>1
    <3>3. u.postorder[k] = d.postorder[k]
      BY <1>4
    <3> QED
      BY <1>4, <2>0, <3>1, <3>2, <3>3
  <2>3. \/ b = c
        \/ Around(V, E, c, b)
        \/ \E p \in Nat : Exits(u, p, c)
    <3>1. \A p \in Nat : p < n => p # n
      BY <1>3
    <3> QED
      BY <1>3, <1>5, <2>0, <3>1, Zenon
  <2>4. \A k \in DOMAIN u.postorder : k \in 1..m \/ k = m + 1
    BY <1>4
  <2> QED
    BY <1>4, <2>1, <2>2, <2>3, <2>4
<1> QED
  BY <1>8, <1>9, <1>10, <1>11, <1>12, <1>13 DEF DfsInv

\* u is d with the frame n, the last, which enters b, replaced by the one that
\* leaves it and those that enter its successors not yet seen.
Expanding(d, E, n, b, u) ==
    /\ \A k \in DOMAIN d.stack : k <= n
    /\ \A k \in DOMAIN d.stack : k # n => k \in DOMAIN u.stack /\ u.stack[k] = d.stack[k]
    /\ n \in DOMAIN u.stack /\ u.stack[n].exit /\ u.stack[n].block = b
    /\ \A k \in DOMAIN u.stack :
          k \in DOMAIN d.stack \/ (n < k /\ ~u.stack[k].exit /\ <<b, u.stack[k].block>> \in E)
    /\ \A c : <<b, c>> \in E => c \in d.seen \cup {b} \/ \E k \in DOMAIN u.stack : n < k /\ Enters(u, k, c)

\* The frame that enters a block not yet seen.
LEMMA DfsExpand ==
    ASSUME NEW V, NEW E, NEW d, DfsInv(d, V, E), NEW n \in DOMAIN d.stack, NEW b \in V,
           ~d.stack[n].exit, d.stack[n].block = b, b \notin d.seen,
           NEW u, DfsTyped(u, V, E), u.seen = d.seen \cup {b}, u.postorder = d.postorder,
           Expanding(d, E, n, b, u), \A e \in E : e[2] # Entry
    PROVE  DfsInv(u, V, E)
<1>1. DfsTyped(d, V, E) /\ DfsSeen(d) /\ DfsReached(d, V, E) /\ DfsClosing(d, E)
      /\ DfsEntry(d) /\ DfsDominates(d, V, E)
  BY DEF DfsInv
<1>2. /\ DOMAIN d.stack = 1..Len(d.stack) /\ Len(d.stack) \in Nat
      /\ DOMAIN u.stack = 1..Len(u.stack) /\ Len(u.stack) \in Nat /\ E \in SUBSET (V \X V)
  <2>1. d.stack \in Seq(Frames(V)) /\ u.stack \in Seq(Frames(V))
    BY <1>1 DEF DfsTyped
  <2> QED
    BY <1>1, <2>1, SeqFacts DEF DfsTyped
<1>3. /\ n \in Nat /\ DOMAIN d.stack \subseteq Nat /\ DOMAIN u.stack \subseteq Nat
      /\ \A k \in DOMAIN d.stack : k <= n /\ k \in DOMAIN u.stack
  BY <1>2 DEF Expanding
<1>4. Connected(V, E, Entry, b)
  BY <1>1 DEF DfsReached
<1>5. /\ Exits(u, n, b) /\ Enters(d, n, b)
      /\ \A p, c : Exits(u, p, c) => (p = n /\ c = b) \/ Exits(d, p, c)
      /\ \A p, c : Exits(d, p, c) => Exits(u, p, c) /\ p < n
      /\ \A q, c : Enters(d, q, c) => (q = n /\ c = b) \/ Enters(u, q, c)
  <2>1. Exits(u, n, b) /\ Enters(d, n, b)
    BY DEF Exits, Enters, Expanding
  <2>2. ASSUME NEW p, NEW c, Exits(u, p, c) PROVE (p = n /\ c = b) \/ Exits(d, p, c)
    BY <2>2 DEF Exits, Expanding
  <2>3. ASSUME NEW p, NEW c, Exits(d, p, c) PROVE Exits(u, p, c) /\ p < n
    <3>1. p # n /\ p \in Nat /\ p <= n
      BY <1>3, <2>3 DEF Exits
    <3> QED
      BY <1>3, <2>3, <3>1 DEF Exits, Expanding
  <2>4. ASSUME NEW q, NEW c, Enters(d, q, c) PROVE (q = n /\ c = b) \/ Enters(u, q, c)
    BY <2>4 DEF Enters, Expanding
  <2> QED
    BY <2>1, <2>2, <2>3, <2>4
<1>6. b \notin AsSet(d.postorder) /\ \A p \in Nat : ~Exits(d, p, b)
  BY <1>1, Zenon DEF DfsSeen
<1>7. DfsSeen(u)
  <2>1. ASSUME NEW c PROVE c \in u.seen <=> c \in AsSet(u.postorder) \/ \E p \in Nat : Exits(u, p, c)
    <3>1. c \in d.seen <=> c \in AsSet(d.postorder) \/ \E p \in Nat : Exits(d, p, c)
      BY <1>1, Zenon DEF DfsSeen
    <3>2. (\E p \in Nat : Exits(u, p, c)) <=> c = b \/ \E p \in Nat : Exits(d, p, c)
      BY <1>3, <1>5, Zenon
    <3> QED
      BY <3>1, <3>2
  <2>2. Distinct(u.postorder)
    BY <1>1 DEF DfsSeen
  <2>3. ASSUME NEW p \in Nat, NEW q \in Nat, NEW c
        PROVE  /\ Exits(u, p, c) => c \notin AsSet(u.postorder)
               /\ Exits(u, p, c) /\ Exits(u, q, c) => p = q
    <3>1. Exits(d, p, c) => c \notin AsSet(d.postorder) /\ c # b
      BY <1>1, <1>6, Zenon DEF DfsSeen
    <3>2. Exits(d, p, c) /\ Exits(d, q, c) => p = q
      BY <1>1, Zenon DEF DfsSeen
    <3>3. Exits(d, q, c) => c # b
      BY <1>6
    <3> QED
      BY <1>5, <1>6, <3>1, <3>2, <3>3
  <2> QED
    BY <2>1, <2>2, <2>3 DEF DfsSeen
<1>8. DfsReached(u, V, E)
  <2>1. ASSUME NEW p \in DOMAIN u.stack PROVE Connected(V, E, Entry, u.stack[p].block)
    <3>1. CASE p \in DOMAIN d.stack
      BY <1>1, <1>4, <3>1 DEF DfsReached, Expanding
    <3>2. CASE <<b, u.stack[p].block>> \in E
      BY <1>4, <3>2, ConnectedEdge, ConnectedTransitive
    <3> QED
      BY <3>1, <3>2 DEF Expanding
  <2> QED
    BY <1>1, <1>4, <2>1 DEF DfsReached
<1>9. DfsClosing(u, E)
  <2> SUFFICES ASSUME NEW e \in E, e[1] \in u.seen
               PROVE  \/ e[2] \in u.seen
                      \/ \E p, q \in Nat : p < q /\ Exits(u, p, e[1]) /\ Enters(u, q, e[2])
    BY DEF DfsClosing
  <2>1. CASE e[1] = b
    <3>1. <<b, e[2]>> \in E
      BY <1>2, <2>1
    <3>2. e[2] \in u.seen \/ \E k \in DOMAIN u.stack : n < k /\ Enters(u, k, e[2])
      BY <3>1 DEF Expanding
    <3> QED
      BY <1>3, <1>5, <2>1, <3>2
  <2>2. CASE e[1] # b
    <3>1. e[1] \in d.seen
      BY <2>2
    <3>2. CASE e[2] \in d.seen \/ e[2] = b
      BY <3>2
    <3>3. CASE e[2] \notin d.seen /\ e[2] # b
      <4>1. PICK p, q \in Nat : p < q /\ Exits(d, p, e[1]) /\ Enters(d, q, e[2])
        BY <1>1, <3>1, <3>3, Zenon DEF DfsClosing
      <4> QED
        BY <1>5, <3>3, <4>1, Zenon
    <3> QED
      BY <3>2, <3>3
  <2> QED
    BY <2>1, <2>2
<1>10. DfsEntry(u)
  <2>1. CASE Len(d.stack) = 1 /\ Enters(d, 1, Entry)
    <3>1. n = 1
      BY <1>2, <2>1
    <3>2. b = Entry
      BY <2>1, <3>1 DEF Enters
    <3> QED
      BY <1>5, <3>1, <3>2 DEF DfsEntry
  <2>2. CASE Exits(d, 1, Entry)
    BY <1>5, <2>2 DEF DfsEntry
  <2>3. d.stack # <<>>
    BY <1>2
  <2> QED
    BY <1>1, <2>1, <2>2, <2>3 DEF DfsEntry
<1>11. DfsDominates(u, V, E)
  <2> SUFFICES ASSUME NEW c \in V \ {Entry}
               PROVE  /\ \A q \in DOMAIN u.stack :
                            \/ u.stack[q].block = c
                            \/ \E p \in Nat : p < q /\ Exits(u, p, c)
                            \/ Around(V, E, c, u.stack[q].block)
                      /\ \A k \in DOMAIN u.postorder :
                            \/ u.postorder[k] = c
                            \/ Around(V, E, c, u.postorder[k])
                            \/ \E p \in Nat : Exits(u, p, c)
                            \/ \E l \in DOMAIN u.postorder : k < l /\ u.postorder[l] = c
    BY DEF DfsDominates
  <2>0. /\ \A q \in DOMAIN d.stack :
              \/ d.stack[q].block = c
              \/ \E p \in Nat : p < q /\ Exits(d, p, c)
              \/ Around(V, E, c, d.stack[q].block)
        /\ \A k \in DOMAIN d.postorder :
              \/ d.postorder[k] = c
              \/ Around(V, E, c, d.postorder[k])
              \/ \E p \in Nat : Exits(d, p, c)
              \/ \E l \in DOMAIN d.postorder : k < l /\ d.postorder[l] = c
    BY <1>1 DEF DfsDominates
  <2>1. ASSUME NEW q \in DOMAIN d.stack
        PROVE  \/ u.stack[q].block = c
               \/ \E p \in Nat : p < q /\ Exits(u, p, c)
               \/ Around(V, E, c, u.stack[q].block)
    <3>1. u.stack[q].block = d.stack[q].block
      BY DEF Expanding
    <3> QED
      BY <1>5, <2>0, <3>1, Zenon
  <2>2. ASSUME NEW q \in DOMAIN u.stack, q \notin DOMAIN d.stack
        PROVE  \/ u.stack[q].block = c
               \/ \E p \in Nat : p < q /\ Exits(u, p, c)
               \/ Around(V, E, c, u.stack[q].block)
    <3> DEFINE x == u.stack[q].block
    <3>1. n < q /\ <<b, x>> \in E /\ q \in Nat
      BY <1>3, <2>2 DEF Expanding
    <3>2. CASE b = c
      BY <1>3, <1>5, <3>1, <3>2
    <3>3. CASE \E p \in Nat : p < n /\ Exits(d, p, c)
      <4>1. \A p \in Nat : p < n => p < q
        BY <1>3, <3>1
      <4> QED
        BY <1>5, <3>3, <4>1, Zenon
    <3>4. CASE b # c /\ x # c /\ Around(V, E, c, b)
      <4> DEFINE Ec == {e \in E : e[1] # c /\ e[2] # c}
      <4>1. <<b, x>> \in Ec
        BY <3>1, <3>4
      <4> HIDE DEF x, Ec
      <4>2. Connected(V, Ec, b, x)
        BY <4>1, ConnectedEdge
      <4>3. Connected(V, Ec, Entry, b)
        BY <3>4 DEF Around, Ec
      <4>4. Connected(V, Ec, Entry, x)
        BY <4>2, <4>3, ConnectedTransitive
      <4> QED
        BY <4>4 DEF Around, Ec, x
    <3> QED
      BY <2>0, <3>2, <3>3, <3>4
  <2>3. ASSUME NEW k \in DOMAIN d.postorder
        PROVE  \/ d.postorder[k] = c
               \/ Around(V, E, c, d.postorder[k])
               \/ \E p \in Nat : Exits(u, p, c)
               \/ \E l \in DOMAIN d.postorder : k < l /\ d.postorder[l] = c
    BY <1>5, <2>0, Zenon
  <2> QED
    BY <2>1, <2>2, <2>3
<1> QED
  BY <1>7, <1>8, <1>9, <1>10, <1>11 DEF DfsInv

-----------------------------------------------------------------------------
(* The compile order: topo_sort *)

LEMMA EdgeFacts ==
    ASSUME prog \in Programs, IrShape
    PROVE  /\ Edges \in SUBSET (Blocks \X Blocks) /\ \A e \in Edges : e[2] # Entry
           /\ \A b, c : <<b, c>> \in Edges <=> b \in Blocks /\ c \in AsSet(succ[b])
<1>1. \A b \in Blocks : AsSet(succ[b]) \subseteq Blocks \ {Entry}
  BY BlocksFacts
<1> QED
  BY <1>1 DEF Edges

LEMMA ReversedFacts ==
    ASSUME NEW S, NEW s \in Seq(S)
    PROVE  /\ Reversed(s) \in Seq(S) /\ Len(Reversed(s)) = Len(s) /\ DOMAIN Reversed(s) = DOMAIN s
           /\ \A i \in DOMAIN s : /\ Reversed(s)[i] = s[Len(s) + 1 - i]
                                  /\ Len(s) + 1 - i \in DOMAIN s
           /\ AsSet(Reversed(s)) = AsSet(s)
<1> DEFINE n == Len(s)
           r == Reversed(s)
<1>1. n \in Nat /\ DOMAIN s = 1..n /\ \A i \in 1..n : s[i] \in S
  BY SeqFacts
<1> HIDE DEF n
<1>2. \A i \in 1..n : n + 1 - i \in 1..n /\ n + 1 - (n + 1 - i) = i
  BY <1>1
<1>3. r = [i \in 1..n |-> s[n + 1 - i]]
  BY <1>1 DEF Reversed, n
<1> HIDE DEF r
<1>4. DOMAIN r = 1..n /\ \A i \in 1..n : r[i] = s[n + 1 - i]
  BY <1>3
<1>5. r \in [1..n -> S]
  BY <1>1, <1>2, <1>3
<1>6. r \in Seq(S) /\ Len(r) = n
  BY <1>1, <1>5
<1>7. AsSet(r) = AsSet(s)
  <2>1. ASSUME NEW x \in AsSet(r) PROVE x \in AsSet(s)
    BY <1>1, <1>2, <1>4 DEF AsSet
  <2>2. ASSUME NEW x \in AsSet(s) PROVE x \in AsSet(r)
    <3>1. PICK i \in 1..n : x = s[i]
      BY <1>1 DEF AsSet
    <3>2. r[n + 1 - i] = s[n + 1 - (n + 1 - i)]
      BY <1>2, <1>4
    <3>3. x = r[n + 1 - i]
      BY <1>2, <3>1, <3>2
    <3> QED
      BY <1>2, <1>4, <3>3 DEF AsSet
  <2> QED
    BY <2>1, <2>2
<1> QED
  BY <1>1, <1>2, <1>4, <1>6, <1>7 DEF r, n

LEMMA NewTargetsFacts ==
    ASSUME prog \in Programs, IrShape, NEW b \in Blocks
    PROVE  /\ NewTargets(b) \in Seq(Blocks)
           /\ AsSet(NewTargets(b)) = {c \in AsSet(succ[b]) : c \notin dfs.seen \cup {b}}
<1> DEFINE s == Reversed(succ[b])
           I == {i \in DOMAIN s : s[i] \notin dfs.seen \cup {b}}
           k == InOrder(I)
           r == [i \in DOMAIN k |-> s[k[i]]]
<1>1. succ[b] \in Seq(Blocks \ {Entry})
  BY BlocksFacts
<1>2. s \in Seq(Blocks \ {Entry}) /\ AsSet(s) = AsSet(succ[b])
  BY <1>1, ReversedFacts
<1>3. NewTargets(b) = r
  BY DEF NewTargets
<1> HIDE DEF s
<1>4. DOMAIN s = 1..Len(s) /\ Len(s) \in Nat /\ \A i \in DOMAIN s : s[i] \in Blocks
  BY <1>2, SeqFacts
<1>5. I \in SUBSET Nat /\ IsFiniteSet(I)
  <2>1. IsFiniteSet(1..Len(s)) /\ I \in SUBSET (1..Len(s))
    BY <1>4, FS_Interval
  <2> HIDE DEF I
  <2>2. IsFiniteSet(I)
    BY <2>1, FS_Subset
  <2> QED
    BY <2>1, <2>2
<1>6. k \in Seq(I) /\ AsSet(k) = I
  <2> HIDE DEF I
  <2> QED
    BY <1>5, Sorted
<1> HIDE DEF k
<1>7. DOMAIN k = 1..Len(k) /\ Len(k) \in Nat /\ \A i \in DOMAIN k : k[i] \in I
  BY <1>6, SeqFacts
<1>8. r \in [1..Len(k) -> Blocks]
  BY <1>4, <1>7
<1>9. r \in Seq(Blocks)
  <2> HIDE DEF r
  <2> QED
    BY <1>7, <1>8
<1>10. ASSUME NEW c \in AsSet(r) PROVE c \in AsSet(s) /\ c \notin dfs.seen \cup {b}
  BY <1>7 DEF AsSet
<1>11. ASSUME NEW c \in AsSet(s), c \notin dfs.seen \cup {b} PROVE c \in AsSet(r)
  <2>1. PICK i \in DOMAIN s : c = s[i]
    BY DEF AsSet
  <2>2. i \in I
    BY <1>11, <2>1
  <2>3. PICK j \in DOMAIN k : k[j] = i
    BY <1>6, <2>2 DEF AsSet
  <2> QED
    BY <2>1, <2>3 DEF AsSet
<1> HIDE DEF r
<1> QED
  BY <1>2, <1>3, <1>9, <1>10, <1>11

FirstDfs == [stack |-> <<[exit |-> FALSE, block |-> Entry]>>, seen |-> {}, postorder |-> <<>>]

LEMMA DfsStarts ==
    ASSUME NEW V, Entry \in V, NEW E \in SUBSET (V \X V)
    PROVE  DfsInv(FirstDfs, V, E)
<1> DEFINE d == FirstDfs
           f == [exit |-> FALSE, block |-> Entry]
<1>1. d.stack = <<f>> /\ d.seen = {} /\ d.postorder = <<>>
      /\ d = [stack |-> d.stack, seen |-> d.seen, postorder |-> d.postorder]
  BY DEF FirstDfs
<1>2. f \in Frames(V) /\ ~f.exit /\ f.block = Entry
  BY DEF Frames
<1> HIDE DEF d, f
<1>3. d.stack \in Seq(Frames(V)) /\ Len(d.stack) = 1 /\ d.stack[1] = f
      /\ \A k : k \in DOMAIN d.stack <=> k = 1
  BY <1>1, <1>2
<1>4. <<>> \in Seq(V) /\ DOMAIN <<>> = {}
  OBVIOUS
<1>5. AsSet(d.postorder) = {} /\ DOMAIN d.postorder = {}
  BY <1>1, <1>4 DEF AsSet
<1>6. \A p, b : ~Exits(d, p, b)
  BY <1>2, <1>3 DEF Exits
<1>7. DfsTyped(d, V, E)
  BY <1>1, <1>3, <1>4 DEF DfsTyped
<1>8. DfsSeen(d)
  BY <1>1, <1>5, <1>6 DEF DfsSeen, Distinct
<1>9. DfsReached(d, V, E)
  BY <1>1, <1>2, <1>3, ConnectedSelf DEF DfsReached
<1>10. DfsClosing(d, E)
  BY <1>1 DEF DfsClosing
<1>11. DfsEntry(d)
  BY <1>1, <1>2, <1>3 DEF DfsEntry, Enters
<1>12. DfsDominates(d, V, E)
  <2>1. \A c : Around(V, E, c, Entry)
    BY ConnectedSelf DEF Around
  <2> QED
    BY <1>2, <1>3, <1>5, <2>1 DEF DfsDominates
<1> QED
  BY <1>7, <1>8, <1>9, <1>10, <1>11, <1>12 DEF DfsInv, d

LEMMA TopoSortStepStep ==
    ASSUME prog \in Programs, IrShape, DfsInv(dfs, Blocks, Edges), TopoSortStep
    PROVE  DfsInv(dfs', Blocks, Edges)
<1> DEFINE d == dfs
           u == dfs'
           V == Blocks
           E == Edges
           s == d.stack
           n == Len(s)
           b == LastOf(s).block
           rest == FrontOf(s)
           new == NewTargets(b)
           enters == [i \in DOMAIN new |-> [exit |-> FALSE, block |-> new[i]]]
           x == [exit |-> TRUE, block |-> b]
<1>1. d.stack # <<>> /\ DfsInv(d, V, E) /\ DfsTyped(d, V, E)
  BY DEF TopoSortStep, DfsInv
<1>2. u = IF LastOf(s).exit
          THEN [d EXCEPT !.stack = rest, !.postorder = Append(@, b)]
          ELSE IF b \in d.seen THEN [d EXCEPT !.stack = rest]
          ELSE [d EXCEPT !.seen = @ \cup {b}, !.stack = Append(rest, x) \o enters]
  BY DEF TopoSortStep
<1>3. CASE LastOf(s).exit
  <2>1. u = [d EXCEPT !.stack = FrontOf(d.stack),
                      !.postorder = Append(d.postorder, LastOf(d.stack).block)]
    BY <1>2, <1>3
  <2>2. DfsInv(u, V, E)
    <3> HIDE DEF d, u, V, E
    <3> QED
      BY <1>1, <1>3, <2>1, DfsLeave DEF s
  <2> QED
    BY <2>2
<1>4. CASE ~LastOf(s).exit /\ b \in d.seen
  <2>1. u = [d EXCEPT !.stack = FrontOf(d.stack)]
    BY <1>2, <1>4
  <2>2. DfsInv(u, V, E)
    <3> HIDE DEF d, u, V, E
    <3> QED
      BY <1>1, <1>4, <2>1, DfsDrop DEF s
  <2> QED
    BY <2>2
<1>5. CASE ~LastOf(s).exit /\ b \notin d.seen
  <2>1. /\ s \in Seq(Frames(V)) /\ d.seen \in SUBSET V /\ d.postorder \in Seq(V)
        /\ E \in SUBSET (V \X V)
        /\ d = [stack |-> d.stack, seen |-> d.seen, postorder |-> d.postorder]
    BY <1>1 DEF DfsTyped
  <2>2. /\ n \in Nat /\ DOMAIN s = 1..n /\ n \in DOMAIN s /\ s[n] \in Frames(V)
        /\ s[n] = LastOf(s)
    BY <1>1, <2>1, SeqFacts DEF LastOf
  <2>3. b \in V /\ x \in Frames(V)
    <3>1. LastOf(s) \in Frames(V)
      BY <2>2
    <3>2. LastOf(s).block \in V
      BY <3>1 DEF Frames
    <3> QED
      BY <3>2 DEF Frames
  <2>4. rest \in Seq(Frames(V)) /\ Len(rest) = n - 1 /\ DOMAIN rest = 1..(n - 1)
        /\ \A k \in 1..(n - 1) : rest[k] = s[k]
    BY <1>1, <2>1, FrontFacts
  <2>5. new \in Seq(V) /\ AsSet(new) = {c \in AsSet(succ[b]) : c \notin d.seen \cup {b}}
    BY <2>3, NewTargetsFacts
  <2>6. /\ E \in SUBSET (V \X V) /\ \A e \in E : e[2] # Entry
        /\ \A a, c : <<a, c>> \in E <=> a \in V /\ c \in AsSet(succ[a])
    BY EdgeFacts
  <2> HIDE DEF d, u, V, E, s, n, rest, new
  <2>7. /\ DOMAIN new = 1..Len(new) /\ Len(new) \in Nat /\ \A i \in DOMAIN new : new[i] \in V
    BY <2>5, SeqFacts
  <2>8. /\ enters \in Seq(Frames(V)) /\ DOMAIN enters = DOMAIN new
        /\ \A i \in DOMAIN new : ~enters[i].exit /\ enters[i].block = new[i]
    <3>1. enters \in [1..Len(new) -> Frames(V)]
      BY <2>7 DEF Frames
    <3> DEFINE en == enters
    <3>2. en \in [1..Len(new) -> Frames(V)]
      BY <3>1
    <3> HIDE DEF en
    <3>3. en \in Seq(Frames(V))
      BY <2>7, <3>2
    <3> QED
      BY <3>3 DEF en
  <2> HIDE DEF enters, b
  <2> DEFINE l == Append(rest, x)
             w == l \o enters
  <2>9. /\ l \in Seq(Frames(V)) /\ Len(l) = n /\ DOMAIN l = 1..n
        /\ \A k \in 1..(n - 1) : l[k] = s[k]
        /\ l[n] = x
    <3>1. x \in Frames(V) /\ rest \in Seq(Frames(V))
      BY <2>3, <2>4
    <3> HIDE DEF x
    <3>2. l \in Seq(Frames(V))
      BY <3>1
    <3>3. /\ Len(l) = Len(rest) + 1 /\ DOMAIN l = 1..(Len(rest) + 1)
          /\ \A i \in DOMAIN rest : l[i] = rest[i]
          /\ l[Len(rest) + 1] = x
      BY <3>1, Appended
    <3>4. Len(rest) + 1 = n
      BY <2>2, <2>4
    <3> QED
      BY <2>4, <3>2, <3>3, <3>4
  <2> HIDE DEF l
  <2>10. /\ w \in Seq(Frames(V))
         /\ \A i \in DOMAIN l : i \in DOMAIN w /\ w[i] = l[i]
         /\ \A i \in DOMAIN enters : n + i \in DOMAIN w /\ w[n + i] = enters[i]
         /\ \A k \in DOMAIN w : k \in DOMAIN l \/ \E i \in DOMAIN enters : k = n + i
    <3>1. l \in Seq(Frames(V)) /\ enters \in Seq(Frames(V))
      BY <2>8, <2>9
    <3>2. /\ l \o enters \in Seq(Frames(V))
          /\ \A i \in DOMAIN l : i \in DOMAIN (l \o enters) /\ (l \o enters)[i] = l[i]
          /\ \A i \in DOMAIN enters : /\ Len(l) + i \in DOMAIN (l \o enters)
                                     /\ (l \o enters)[Len(l) + i] = enters[i]
          /\ \A k \in DOMAIN (l \o enters) :
                k \in DOMAIN l \/ \E i \in DOMAIN enters : k = Len(l) + i
      BY <3>1, Concatenated
    <3> QED
      BY <2>9, <3>2
  <2>11. /\ u.stack = w /\ u.seen = d.seen \cup {b} /\ u.postorder = d.postorder
         /\ u = [stack |-> u.stack, seen |-> u.seen, postorder |-> u.postorder]
    <3> HIDE DEF w
    <3>1. u = [d EXCEPT !.seen = @ \cup {b}, !.stack = w]
      BY <1>2, <1>5 DEF w, l, b, d
    <3> QED
      BY <2>1, <3>1
  <2> HIDE DEF w
  <2>12. DfsTyped(u, V, E)
    BY <2>1, <2>3, <2>10, <2>11 DEF DfsTyped
  <2>13. Expanding(d, E, n, b, u)
    <3>1. d.stack = s
      BY DEF s
    <3>2. \A k \in DOMAIN s : k <= n
      BY <2>2
    <3>3. \A k \in DOMAIN s : k # n => k \in DOMAIN w /\ w[k] = s[k]
      <4>1. \A k \in 1..n : k # n => k \in 1..(n - 1)
        BY <2>2
      <4> QED
        BY <2>2, <2>9, <2>10, <4>1
    <3>4. n \in DOMAIN w /\ w[n].exit /\ w[n].block = b
      BY <2>2, <2>9, <2>10
    <3>5. ASSUME NEW k \in DOMAIN w, k \notin DOMAIN s
          PROVE  n < k /\ ~w[k].exit /\ <<b, w[k].block>> \in E
      <4>1. PICK i \in DOMAIN enters : k = n + i
        BY <2>2, <2>9, <2>10, <3>5
      <4>2. w[k] = enters[i] /\ i \in DOMAIN new
        BY <2>8, <2>10, <4>1
      <4>3. n < k
        BY <2>2, <2>7, <4>1, <4>2
      <4>4. new[i] \in AsSet(new)
        BY <4>2 DEF AsSet
      <4>5. <<b, new[i]>> \in E
        BY <2>3, <2>5, <2>6, <4>4 DEF b
      <4> QED
        BY <2>8, <4>2, <4>3, <4>5
    <3>6. ASSUME NEW c, <<b, c>> \in E, c \notin d.seen \cup {b}
          PROVE  \E k \in DOMAIN w : n < k /\ ~w[k].exit /\ w[k].block = c
      <4>1. c \in AsSet(new)
        BY <2>5, <2>6, <3>6 DEF b
      <4>2. PICK i \in DOMAIN new : new[i] = c
        BY <4>1 DEF AsSet
      <4>3. n + i \in DOMAIN w /\ w[n + i] = enters[i] /\ n < n + i
        BY <2>2, <2>7, <2>8, <2>10, <4>2
      <4> QED
        BY <2>8, <4>2, <4>3
    <3> QED
      BY <2>11, <3>1, <3>2, <3>3, <3>4, <3>5, <3>6 DEF Expanding, Enters
  <2>14. n \in DOMAIN d.stack /\ b \in V /\ ~d.stack[n].exit /\ d.stack[n].block = b /\ b \notin d.seen
    BY <1>5, <2>2, <2>3 DEF s, b
  <2>15. DfsInv(d, V, E) /\ (\A e \in E : e[2] # Entry)
    BY <1>1, <2>6 DEF d, V, E
  <2>16. DfsInv(u, V, E)
    BY <2>11, <2>12, <2>13, <2>14, <2>15, DfsExpand
  <2> QED
    BY <2>16 DEF u, V, E
<1> QED
  BY <1>3, <1>4, <1>5

OrderInv ==
    /\ Shape
    /\ pc \notin {"sort", "done"} => dfs = FirstDfs
    /\ pc \in {"sort", "done"} => DfsInv(dfs, Blocks, Edges)
    /\ pc = "done" => dfs.stack = <<>>

LEMMA OrderInit ==
    ASSUME Init
    PROVE  OrderInv
<1>1. Shape
  BY ShapeInit
<1>2. pc = "validate" /\ dfs = FirstDfs
  BY DEF Init, FirstDfs
<1> QED
  BY <1>1, <1>2 DEF OrderInv

LEMMA OrderNext ==
    ASSUME OrderInv, [Next]_vars
    PROVE  OrderInv'
<1>1. Shape /\ Shape' /\ prog \in Programs /\ prog' = prog /\ IrShape /\ IrShape' /\ prog' \in Programs
  <2>1. Shape /\ Shape'
    BY ShapeNext DEF OrderInv
  <2> QED
    BY <2>1, IrSteps DEF Shape, AnalysisInv
<1>2. FirstDfs' = FirstDfs
  BY DEF FirstDfs, Entry
<1>3. ASSUME ir' = ir PROVE Blocks' = Blocks /\ Edges' = Edges
  BY <1>3 DEF ir, Blocks, Edges
<1>4. ASSUME pc \notin {"sort", "done"}, pc' \notin {"sort", "done"}, dfs' = dfs PROVE OrderInv'
  BY <1>1, <1>2, <1>4 DEF OrderInv
<1>5. CASE TarjanRun \/ TarjanVisit \/ TarjanReturn \/ AssertCyclesHaveSafepoints
  <2>1. pc \notin {"sort", "done"} /\ pc' \notin {"sort", "done"} /\ dfs' = dfs
    BY <1>5 DEF TarjanRun, TarjanVisit, TarjanReturn, AssertCyclesHaveSafepoints, Analysing
  <2> QED
    BY <1>4, <2>1
<1>6. CASE SccGraphNew \/ TopoStep \/ InserterNew
  <2>1. pc \notin {"sort", "done"} /\ pc' \notin {"sort", "done"} /\ dfs' = dfs
    BY <1>6 DEF SccGraphNew, TopoStep, InserterNew
  <2> QED
    BY <1>4, <2>1
<1>7. CASE DrainIncoming \/ MergeNormalized
  <2>1. pc \notin {"sort", "done"} /\ pc' \notin {"sort", "done"} /\ dfs' = dfs
    BY <1>7 DEF DrainIncoming, MergeNormalized
  <2> QED
    BY <1>4, <2>1
<1>8. CASE MergeHaltStates
  <2>1. pc \notin {"sort", "done"} /\ pc' \notin {"sort", "done"} /\ dfs' = dfs
    BY <1>8 DEF MergeHaltStates
  <2> QED
    BY <1>4, <2>1
<1>9. CASE InsertCompensatingCheck
  <2>1. pc \notin {"sort", "done"} /\ pc' \notin {"sort", "done"} /\ dfs' = dfs
    BY <1>9 DEF InsertCompensatingCheck
  <2> QED
    BY <1>4, <2>1
<1>10. CASE ProcessStatement
  <2>1. pc \notin {"sort", "done"} /\ pc' \notin {"sort", "done"} /\ dfs' = dfs
    BY <1>10 DEF ProcessStatement
  <2> QED
    BY <1>4, <2>1
<1>11. CASE FinishBlock
  <2>1. pc = "blocks" /\ dfs' = dfs /\ ir' = ir /\ pc' \in {"blocks", "sort", "drain", "assert_failed"}
    BY <1>11 DEF FinishBlock, ir
  <2>2. CASE pc' # "sort"
    BY <1>4, <2>1, <2>2
  <2>3. CASE pc' = "sort"
    <3>1. Entry \in Blocks /\ Edges \in SUBSET (Blocks \X Blocks)
      BY <1>1, BlocksFacts, EdgeFacts
    <3>2. DfsInv(FirstDfs, Blocks, Edges)
      BY <3>1, DfsStarts
    <3>3. dfs' = FirstDfs
      BY <2>1 DEF OrderInv
    <3> QED
      BY <1>1, <1>3, <2>1, <2>3, <3>2, <3>3 DEF OrderInv
  <2> QED
    BY <2>2, <2>3
<1>12. CASE TopoSortStep
  <2>1. pc = "sort" /\ pc' = pc /\ ir' = ir
    BY <1>12 DEF TopoSortStep, ir
  <2>2. DfsInv(dfs', Blocks, Edges)
    BY <1>1, <1>12, <2>1, TopoSortStepStep DEF OrderInv
  <2> QED
    BY <1>1, <1>3, <2>1, <2>2 DEF OrderInv
<1>13. CASE Built
  <2>1. pc = "sort" /\ pc' = "done" /\ ir' = ir /\ dfs' = dfs /\ dfs.stack = <<>>
    BY <1>13 DEF Built, ir
  <2> QED
    BY <1>1, <1>3, <2>1 DEF OrderInv
<1>14. CASE Terminated \/ UNCHANGED vars
  <2>1. pc' = pc /\ ir' = ir /\ dfs' = dfs
    BY <1>14 DEF Terminated, vars, ir
  <2> QED
    BY <1>1, <1>2, <1>3, <2>1 DEF OrderInv
<1> QED
  BY <1>5, <1>6, <1>7, <1>8, <1>9, <1>10, <1>11, <1>12, <1>13, <1>14 DEF Next

\* A sequence without repetitions is as long as the set of its elements.
LEMMA DistinctLength ==
    ASSUME NEW S, NEW s \in Seq(S), Distinct(s)
    PROVE  IsFiniteSet(AsSet(s)) /\ Cardinality(AsSet(s)) = Len(s)
<1> DEFINE n == Len(s)
           T == AsSet(s)
<1>1. n \in Nat /\ DOMAIN s = 1..n
  BY SeqFacts
<1>2. s \in Bijection(1..n, T)
  <2>1. s \in [1..n -> T] /\ s = [i \in 1..n |-> s[i]]
    BY <1>1 DEF AsSet
  <2>2. \A i, j \in 1..n : s[i] = s[j] => i = j
    BY <1>1 DEF Distinct
  <2>3. \A y \in T : \E i \in 1..n : s[i] = y
    BY <1>1 DEF AsSet
  <2> HIDE DEF n, T
  <2> QED
    BY <2>1, <2>2, <2>3 DEF Bijection, Injection, Surjection, IsInjective
<1>3. ExistsBijection(1..n, T)
  BY <1>2 DEF ExistsBijection
<1> HIDE DEF n, T
<1>4. IsFiniteSet(T) /\ Cardinality(T) = n
  BY <1>1, <1>3, FS_CountingElements, FS_NatBijection
<1> QED
  BY <1>4 DEF n, T

LEMMA OrderAnswers ==
    ASSUME OrderInv
    PROVE  CompileOrderDominates
<1> SUFFICES ASSUME pc = "done" PROVE CompileOrderDominates
  BY DEF CompileOrderDominates
<1> DEFINE V == Blocks
           E == Edges
           post == dfs.postorder
           n == Len(post)
           order == Reversed(post)
           reachable == Reach({Entry}, E)
           Without(d) == {e \in E : e[1] # d /\ e[2] # d}
           Dominated(d) == reachable \ (IF d = Entry THEN {} ELSE Reach({Entry}, Without(d)))
<1>1. /\ prog \in Programs /\ IrShape /\ DfsInv(dfs, V, E) /\ dfs.stack = <<>>
  BY DEF OrderInv, Shape, AnalysisInv
<1>2. /\ DfsTyped(dfs, V, E) /\ DfsSeen(dfs) /\ DfsReached(dfs, V, E) /\ DfsClosing(dfs, E)
      /\ DfsEntry(dfs) /\ DfsDominates(dfs, V, E)
  BY <1>1 DEF DfsInv
<1>3. IsFiniteSet(Blocks) /\ Entry \in V /\ E \in SUBSET (V \X V)
  BY <1>1, BlocksFacts, EdgeFacts
<1>4. \A p, b : ~Exits(dfs, p, b)
  BY <1>1 DEF Exits
<1>5. post \in Seq(V) /\ Distinct(post) /\ \A b : b \in dfs.seen <=> b \in AsSet(post)
  BY <1>2, <1>4 DEF DfsSeen, DfsTyped
<1>6. n \in Nat /\ DOMAIN post = 1..n
  BY <1>5, SeqFacts
<1>7. post # <<>> /\ post[n] = Entry /\ n \in 1..n
  <2>1. DOMAIN dfs.stack = {}
    BY <1>1
  <2>2. post # <<>> /\ post[n] = Entry
    BY <1>2, <2>1 DEF DfsEntry, Enters, Exits, LastOf
  <2> QED
    BY <1>5, <2>2, SeqFacts
<1>8. /\ order \in Seq(V) /\ DOMAIN order = 1..n /\ AsSet(order) = AsSet(post) /\ Len(order) = n
      /\ \A i \in 1..n : order[i] = post[n + 1 - i] /\ n + 1 - i \in 1..n
  BY <1>5, <1>6, ReversedFacts
<1>9. reachable = {y \in V : Connected(V, E, Entry, y)}
  BY <1>3, ReachConnected
<1>10. AsSet(post) = reachable
  <2>1. AsSet(post) \subseteq V
    BY <1>5, SeqFacts
  <2>2. ASSUME NEW b \in AsSet(post) PROVE Connected(V, E, Entry, b)
    BY <1>2, <1>5 DEF DfsReached
  <2>3. Closed(AsSet(post), E)
    <3>1. \A q, b : ~Enters(dfs, q, b)
      BY <1>1 DEF Enters
    <3>2. \A e \in E : e[1] \in dfs.seen => e[2] \in dfs.seen
      BY <1>2, <3>1, Zenon DEF DfsClosing
    <3> QED
      BY <1>5, <3>2 DEF Closed
  <2>4. Entry \in AsSet(post)
    BY <1>6, <1>7 DEF AsSet
  <2>5. ASSUME NEW y \in V, Connected(V, E, Entry, y) PROVE y \in AsSet(post)
    BY <2>1, <2>3, <2>4, <2>5 DEF Connected
  <2> QED
    BY <1>9, <2>1, <2>2, <2>5
<1>11. Len(order) = Cardinality(reachable)
  BY <1>5, <1>8, <1>10, DistinctLength
<1>12. order[1] = Entry
  <2>1. 1 \in 1..n /\ n + 1 - 1 = n
    BY <1>6, <1>7
  <2> QED
    BY <1>7, <1>8, <2>1
<1>13. ASSUME NEW i \in 1..n, NEW j \in 1..n, order[j] \in Dominated(order[i])
       PROVE  i <= j
  <2> DEFINE c == order[i]
             k == n + 1 - j
             m == n + 1 - i
  <2>1. k \in 1..n /\ m \in 1..n /\ order[j] = post[k] /\ c = post[m]
    BY <1>8
  <2>2. CASE c = Entry
    <3>1. m = n
      BY <1>5, <1>6, <1>7, <2>1, <2>2 DEF Distinct
    <3> QED
      BY <1>6, <3>1
  <2>3. CASE c # Entry
    <3>1. c \in V \ {Entry}
      BY <1>8, <2>3, SeqFacts
    <3>2. post[k] \in V
      BY <1>5, <1>6, <2>1, SeqFacts
    <3>3. ~Around(V, E, c, post[k])
      <4> DEFINE W == Without(c)
      <4>1. W \in SUBSET (V \X V)
        BY <1>3
      <4>2. post[k] \notin Reach({Entry}, W)
        BY <1>13, <2>1, <2>3
      <4>3. Reach({Entry}, W) = {y \in V : Connected(V, W, Entry, y)}
        <5> HIDE DEF W
        <5> QED
          BY <1>3, <4>1, ReachConnected
      <4>4. ~Connected(V, W, Entry, post[k])
        BY <3>2, <4>2, <4>3
      <4> QED
        BY <4>4 DEF Around
    <3>4. post[k] = c \/ \E l \in 1..n : k < l /\ post[l] = c
      <4> HIDE DEF c, k, post, V, E
      <4>1. k \in DOMAIN dfs.postorder
        BY <1>6, <2>1 DEF post
      <4> QED
        BY <1>2, <1>4, <1>6, <2>1, <3>1, <3>3, <4>1 DEF DfsDominates, post
    <3>5. k <= m
      <4>1. PICK l \in 1..n : k <= l /\ post[l] = c
        BY <1>6, <2>1, <3>4
      <4>2. l = m
        BY <1>5, <1>6, <2>1, <4>1 DEF Distinct
      <4> QED
        BY <4>1, <4>2
    <3> QED
      BY <1>6, <3>5
  <2> QED
    BY <2>2, <2>3
<1>14. AsSet(order) = reachable
  BY <1>8, <1>10
<1>15. CompileOrderDominates <=>
          /\ AsSet(order) = reachable /\ Len(order) = Cardinality(reachable)
          /\ order[1] = Entry
          /\ \A i, j \in DOMAIN order : order[j] \in Dominated(order[i]) => i <= j
  BY Zenon DEF CompileOrderDominates, block_compile_order
<1> HIDE DEF order, reachable, Dominated
<1> QED
  BY <1>8, <1>11, <1>12, <1>13, <1>14, <1>15

\* The compile order of topo_sort, for every program the pass has finished:
\* it starts at the entry, holds the reachable blocks and no other, each once,
\* and has a block after all the blocks that dominate it.
THEOREM CompileOrderRight == Spec => []CompileOrderDominates
<1>1. Init => OrderInv
  BY OrderInit
<1>2. OrderInv /\ [Next]_vars => OrderInv'
  BY OrderNext
<1>3. OrderInv => CompileOrderDominates
  BY OrderAnswers
<1> QED
  BY <1>1, <1>2, <1>3, PTL DEF Spec

-----------------------------------------------------------------------------
(* Halt checks come often enough: the invariant.                            *)
(*                                                                          *)
(* It is about positions of the source, <<block, number of statements       *)
(* passed>>, which splits do not move.  C bounds at each position the       *)
(* safepoints an execution has passed since its last check.  A later merge  *)
(* may add checks after safepoints that a suffix remembers, so there is such *)
(* a C for every set X of safepoints that may be checked in the end.         *)

\* The source blocks of the components that come before the one in hand, the
\* ones whose statements have all been processed, the ones whose first halt
\* state is settled, and the ones whose incoming edges have been drained.
Past == {b \in SourceBlocks : RankOf(b) < work.component}

Finished ==
    IF pc = "blocks" THEN Past \cup {Component[j] : j \in {i \in DOMAIN Component : i < work.next}}
    ELSE IF Inserting THEN Past
    ELSE SourceBlocks

Opened ==
    IF pc = "blocks" THEN Past \cup AsSet(Component)
    ELSE IF Inserting THEN Past
    ELSE SourceBlocks

Drained ==
    IF pc = "drain" THEN {Component[j] : j \in {i \in DOMAIN Component : i < work.next}}
    ELSE IF pc = "compensate" THEN AsSet(Component)
    ELSE {}

Current == Component[work.next]

Started == IF pc = "blocks" THEN Finished \cup {Current} ELSE Finished

\* Every block is a piece of a source block, seg says from where; the pieces
\* without a check are the last ones.
Segments(seg) ==
    /\ \A b \in Blocks \ {leave} : seg[b] \in SourceBlocks \X Nat
    /\ \A b \in SourceBlocks : b # leave /\ seg[b] = <<b, 0>>
    /\ leave # 0 => stmts[leave] = <<>> /\ succ[leave] = <<>> /\ leave \notin checked
    /\ \A b \in Blocks \ {leave} : \A k \in DOMAIN stmts[b] :
          stmts[b][k] = <<seg[b][1], seg[b][2] + k>>
    /\ \A b \in Blocks \ ({leave} \cup checked) :
          /\ succ[b] = prog.succ[seg[b][1]]
          /\ seg[b][2] + Len(stmts[b]) = Len(prog.body[seg[b][1]])

\* Every safepoint is where loc says, and nowhere else.
Located ==
    /\ \A s \in Points : /\ loc[s][2] \in DOMAIN stmts[loc[s][1]]
                         /\ stmts[loc[s][1]][loc[s][2]] = s
    /\ \A b \in Blocks : \A k \in DOMAIN stmts[b] :
          stmts[b][k] \in Points => loc[stmts[b][k]] = <<b, k>>

\* The safepoints that are followed by a check.
Checks == {s \in Points : \E b \in checked : stmts[b] # <<>> /\ s = LastOf(stmts[b])}

\* The two maps agree; their edges are the ones from a block that is finished to
\* one that is neither opened nor drained.
MapsRight(seg) ==
    /\ incoming = {<<e[2], e[1]>> : e \in DOMAIN outgoing}
    /\ \A e \in DOMAIN outgoing :
          /\ e[1] \in Blocks \ ({leave} \cup checked) /\ seg[e[1]][1] \in Finished
          /\ e[2] \in AsSet(succ[e[1]]) /\ e[2] \notin Opened \cup Drained
    /\ \A b \in Finished : \A c \in AsSet(prog.succ[b]) :
          c \in Opened \cup Drained
          \/ \E e \in DOMAIN outgoing : seg[e[1]][1] = b /\ e[2] = c

\* Suffixes remember safepoints of blocks that were started, and only those
\* blocks have checks.
Remembers(s, S) == \A i \in DOMAIN s.suffix : s.suffix[i][1] \in S

OnlyStarted(seg) ==
    /\ \A e \in DOMAIN outgoing : Remembers(outgoing[e], Finished)
    /\ \A i \in DOMAIN work.states : Remembers(work.states[i], Finished)
    /\ \A b \in checked : seg[b][1] \in Started
    /\ pc = "blocks" =>
          /\ Remembers(work.state, Started)
          /\ work.block \notin checked \cup {leave} /\ seg[work.block][1] = Current
          /\ work.index <= Len(stmts[work.block]) + 1

\* The source position of the pass.
Position(seg) == seg[work.block][2] + work.index - 1

\* C grows at the first n statements of b, by one at every safepoint that is
\* not in Y.
Rises(C, Y, b, n) ==
    \A k \in 1..n :
        IF <<b, k>> \in Points THEN <<b, k>> \notin Y => C[<<b, k - 1>>] < C[<<b, k>>]
        ELSE C[<<b, k - 1>>] <= C[<<b, k>>]

AtEnd(C, b) == C[<<b, Len(prog.body[b])>>]

Flows(C, Y, D, E) ==
    /\ C \in [SourceBlocks \X Nat -> 0..(N - 1)]
    /\ \A b \in D : Rises(C, Y, b, Len(prog.body[b]))
    /\ \A b \in D : \A c \in AsSet(prog.succ[b]) : c \in E => AtEnd(C, b) <= C[<<c, 0>>]

\* The safepoints that a halt state stands for when the ones in X are checked.
Room(s, X) == N - canonicalize(s, X).remaining

\* The halt states out, of the edges that wait, and the ones drained into st
\* leave enough room for what the blocks in D end with.
Counted(C, X, seg, D, Z, out, st) ==
    /\ \A e \in DOMAIN out : AtEnd(C, seg[e[1]][1]) <= Room(out[e], X)
    /\ \A b \in D : \A c \in AsSet(prog.succ[b]) :
          c \in Z => \E i \in DOMAIN st : AtEnd(C, b) <= Room(st[i], X)

\* So does the halt state s after n statements of b, in the component cs.
Here(C, X, Y, b, n, cyclic, cs, s, seen) ==
    /\ Rises(C, Y, b, n)
    /\ IF cyclic
       THEN /\ \A m \in cs : C[<<m, 0>>] = N - s.remaining
            /\ C[<<b, n>>] <= IF seen THEN 0 ELSE N - s.remaining
       ELSE C[<<b, n>>] <= Room(s, X)

Bounded(C, X, seg) ==
    /\ Flows(C, Checks \cup X, Finished, Opened)
    /\ Counted(C, X, seg, Finished, Drained, outgoing, work.states)
    /\ pc = "blocks" => Here(C, X, Checks \cup X, Current, Position(seg), IsCyclic,
                             AsSet(Component), work.state, work.seen)

PassInv(seg) ==
    /\ Segments(seg) /\ Located /\ MapsRight(seg) /\ OnlyStarted(seg)
    /\ resets \subseteq Checks
    /\ \A X \in SUBSET Points : resets \subseteq X => \E C : Bounded(C, X, seg)

NothingYet ==
    checked = {} /\ leave = 0 /\ outgoing = <<>> /\ incoming = {} /\ resets = {}

SoundInv ==
    /\ Shape
    /\ pc \in {"validate", "scc", "order"} => NothingYet
    /\ Inserting \/ Inserted => \E seg : PassInv(seg)

-----------------------------------------------------------------------------
(* The components in their order *)

LEMMA RankForward ==
    ASSUME GraphRight, graph.ready = <<>>, NEW b \in SourceBlocks, NEW c \in SourceBlocks,
           <<b, c>> \in SourceEdges
    PROVE  RankOf(b) <= RankOf(c)
<1> DEFINE cs == graph.components
           topo == graph.topo_order
           p == RankOf(b)
           q == RankOf(c)
<1>1. GraphBuilt(graph, SourceEdges) /\ Sorting(graph)
  BY DEF GraphRight
<1>2. p \in DOMAIN topo /\ q \in DOMAIN topo /\ topo[p] \in DOMAIN cs /\ topo[q] \in DOMAIN cs
      /\ b \in AsSet(cs[topo[p]]) /\ c \in AsSet(cs[topo[q]])
  BY RankRight
<1>3. DOMAIN topo \subseteq Nat /\ Distinct(topo)
  <2>1. topo \in Seq(DOMAIN cs) /\ Distinct(topo)
    BY <1>1 DEF Sorting
  <2>2. DOMAIN topo = 1..Len(topo)
    BY <2>1, SeqFacts
  <2> QED
    BY <2>1, <2>2
<1> HIDE DEF p, q
<1>4. CASE topo[p] = topo[q]
  <2>1. p = q
    BY <1>2, <1>3, <1>4 DEF Distinct
  <2> QED
    BY <1>2, <1>3, <2>1 DEF p, q
<1>5. CASE topo[p] # topo[q]
  <2>1. topo[q] \in graph.edges[topo[p]]
    <3>1. \A i, j \in DOMAIN cs :
             i # j /\ (\E x \in AsSet(cs[i]), y \in AsSet(cs[j]) : <<x, y>> \in SourceEdges)
             => j \in graph.edges[i]
      BY <1>1 DEF GraphBuilt
    <3>2. \E x \in AsSet(cs[topo[p]]), y \in AsSet(cs[topo[q]]) : <<x, y>> \in SourceEdges
      BY <1>2
    <3> HIDE DEF cs, topo
    <3> QED
      BY <1>2, <1>5, <3>1, <3>2
  <2>2. PICK r \in DOMAIN topo : r < q /\ topo[r] = topo[p]
    BY <1>1, <1>2, <2>1 DEF Sorting
  <2>3. r = p
    BY <1>2, <1>3, <2>2 DEF Distinct
  <2> QED
    BY <1>2, <1>3, <2>2, <2>3 DEF p, q
<1> QED
  BY <1>4, <1>5

\* What the pass relies on: ranks tell the components apart and edges lead to
\* components of the same or a later rank; the blocks of a component are
\* distinct, and one that is not cyclic is a single block without an edge to
\* itself.
Ranked ==
    /\ \A b \in SourceBlocks : RankOf(b) \in 1..Len(graph.topo_order)
    /\ \A b : b \in AsSet(Component) <=> b \in SourceBlocks /\ RankOf(b) = work.component
    /\ \A b \in SourceBlocks : \A c \in AsSet(prog.succ[b]) :
          c \in SourceBlocks /\ RankOf(b) <= RankOf(c)
    /\ \A i, j \in DOMAIN Component : Component[i] = Component[j] => i = j
    /\ ~IsCyclic => Len(Component) = 1 /\ Component[1] \notin AsSet(prog.succ[Component[1]])

LEMMA Ranking ==
    ASSUME Shape, Inserting
    PROVE  Ranked
<1>1. /\ prog \in Programs /\ GraphRight /\ graph.ready = <<>>
      /\ Component \in Seq(SourceBlocks) /\ Len(Component) \in Nat \ {0}
      /\ DOMAIN Component = 1..Len(Component)
      /\ DOMAIN graph.topo_order = 1..Len(graph.topo_order)
      /\ work.component \in DOMAIN graph.topo_order
  BY InsertingFacts DEF Shape, Inserting, AnalysisInv, WorkShape
<1> DEFINE cs == graph.components
           topo == graph.topo_order
           i == topo[work.component]
<1>2. /\ Partition(cs, SourceBlocks, SourceEdges) /\ GraphBuilt(graph, SourceEdges)
      /\ Distinct(topo) /\ ComponentsFound(cs, SourceBlocks, SourceEdges)
      /\ topo \in Seq(DOMAIN cs)
  BY <1>1 DEF GraphRight, Partition, Sorting
<1>3. i \in DOMAIN cs /\ Component = cs[i] /\ IsCyclic = (i \in graph.is_cyclic)
  BY <1>1, <1>2, SeqFacts DEF Component, IsCyclic
<1>4. \A b \in SourceBlocks : /\ RankOf(b) \in DOMAIN topo /\ topo[RankOf(b)] \in DOMAIN cs
                              /\ b \in AsSet(cs[topo[RankOf(b)]])
  BY <1>1, RankRight
<1>5. ASSUME NEW b
      PROVE  b \in AsSet(Component) <=> b \in SourceBlocks /\ RankOf(b) = work.component
  <2>1. CASE b \in AsSet(Component)
    <3>1. b \in SourceBlocks
      BY <1>1, <2>1, SeqFacts
    <3>2. topo[RankOf(b)] = i
      BY <1>2, <1>3, <1>4, <2>1, <3>1 DEF ComponentsFound
    <3>3. RankOf(b) = work.component
      BY <1>1, <1>2, <1>4, <3>1, <3>2 DEF Distinct
    <3> QED
      BY <2>1, <3>1, <3>3
  <2>2. CASE b \in SourceBlocks /\ RankOf(b) = work.component
    BY <1>3, <1>4, <2>2
  <2> QED
    BY <2>1, <2>2
<1>6. ASSUME NEW b \in SourceBlocks, NEW c \in AsSet(prog.succ[b])
      PROVE  c \in SourceBlocks /\ RankOf(b) <= RankOf(c) /\ <<b, c>> \in SourceEdges
  <2>1. c \in SourceBlocks /\ SourceEdges = EdgesIn(SourceBlocks)
    BY <1>1, SourceFacts
  <2>2. <<b, c>> \in SourceEdges
    BY <2>1 DEF EdgesIn
  <2> QED
    BY <1>1, <2>1, <2>2, RankForward
<1>7. \A p, q \in DOMAIN Component : Component[p] = Component[q] => p = q
  BY <1>2, <1>3 DEF ComponentsFound
<1>8. ASSUME ~IsCyclic
      PROVE  Len(Component) = 1 /\ Component[1] \notin AsSet(prog.succ[Component[1]])
  <2>1. ~Cyclic(Component, SourceEdges)
    BY <1>2, <1>3, <1>8 DEF GraphBuilt
  <2>2. Len(Component) = 1 /\ <<Component[1], Component[1]>> \notin SourceEdges
    BY <1>1, <2>1 DEF Cyclic
  <2>3. Component[1] \in SourceBlocks
    BY <1>1, <2>2, SeqFacts
  <2> QED
    BY <1>6, <2>2, <2>3
<1> QED
  BY <1>1, <1>4, <1>5, <1>6, <1>7, <1>8 DEF Ranked

-----------------------------------------------------------------------------
(* Canonicalized halt states *)

\* What canonicalize keeps of a state: all of it, or what follows place l.
Keeps(s, X, l, r) ==
    LET n == Len(s.suffix)
    IN /\ l \in 0..n /\ \A k \in (l + 1)..n : s.suffix[k] \notin X
       /\ \/ l = 0 /\ r = s
          \/ /\ l # 0 /\ s.suffix[l] \in X /\ r.remaining = N - (n - l)
             /\ Len(r.suffix) = n - l /\ \A k \in 1..(n - l) : r.suffix[k] = s.suffix[l + k]

LEMMA CanonicalForm ==
    ASSUME prog \in Programs, NEW s \in GoodStates, NEW X
    PROVE  \E l : Keeps(s, X, l, canonicalize(s, X))
<1> DEFINE hits == {i \in DOMAIN s.suffix : s.suffix[i] \in X}
           last == CHOOSE i \in hits : \A j \in hits : j <= i
           n == Len(s.suffix)
           rest == SubSeq(s.suffix, last + 1, n)
<1>1. N \in Nat \ {0} /\ s.suffix \in Seq(Points)
  BY SourceFacts DEF GoodStates
<1>2. n \in Nat /\ DOMAIN s.suffix = 1..n
  BY <1>1, SeqFacts
<1>3. canonicalize(s, X) = IF hits = {} THEN s ELSE [remaining |-> N - Len(rest), suffix |-> rest]
  BY DEF canonicalize
<1>4. CASE hits = {}
  <2>1. Keeps(s, X, 0, canonicalize(s, X))
    BY <1>2, <1>3, <1>4 DEF Keeps
  <2> QED
    BY <2>1
<1>5. CASE hits # {}
  <2>1. last \in 1..n /\ s.suffix[last] \in X /\ \A k \in (last + 1)..n : s.suffix[k] \notin X
    <3>1. hits \in SUBSET Nat /\ \A x \in hits : x <= n
      BY <1>2
    <3>2. \E x \in hits : \A y \in hits : y <= x
      <4> HIDE DEF hits, n
      <4> QED
        BY <1>2, <1>5, <3>1, Greatest
    <3>3. last \in hits /\ \A y \in hits : y <= last
      <4> HIDE DEF hits
      <4> QED
        BY <3>2
    <3> HIDE DEF last
    <3> QED
      BY <1>2, <3>3
  <2> HIDE DEF last, hits, n
  <2>2. last + 1 \in Nat \ {0} /\ n <= n
    BY <1>2, <2>1
  <2>3. /\ Len(rest) = IF last + 1 <= n THEN n - (last + 1) + 1 ELSE 0
        /\ \A k \in 1..(n - (last + 1) + 1) : rest[k] = s.suffix[last + 1 + k - 1]
    BY <1>1, <1>2, <2>2, SubSeqFacts DEF n
  <2> HIDE DEF rest
  <2>4. Len(rest) = n - last /\ \A k \in 1..(n - last) : rest[k] = s.suffix[last + k]
    BY <1>2, <2>1, <2>3
  <2>5. canonicalize(s, X).remaining = N - (n - last) /\ canonicalize(s, X).suffix = rest
    BY <1>3, <1>5, <2>4
  <2>6. Keeps(s, X, last, canonicalize(s, X))
    BY <1>2, <2>1, <2>4, <2>5 DEF Keeps, n
  <2> QED
    BY <2>6
<1> QED
  BY <1>4, <1>5

LEMMA StateFacts ==
    ASSUME prog \in Programs, NEW s \in GoodStates
    PROVE  /\ N \in Nat \ {0} /\ s.remaining \in 1..N /\ s.suffix \in Seq(Points)
           /\ Len(s.suffix) \in Nat /\ DOMAIN s.suffix = 1..Len(s.suffix)
           /\ Len(s.suffix) <= N - s.remaining
<1>1. N \in Nat \ {0} /\ s.suffix \in Seq(Points) /\ s.remaining \in 1..N
      /\ Len(s.suffix) <= N - s.remaining
  BY SourceFacts DEF GoodStates
<1> QED
  BY <1>1, SeqFacts

\* Checks only make room.
LEMMA RoomType ==
    ASSUME prog \in Programs, NEW s \in GoodStates, NEW X
    PROVE  Room(s, X) \in 0..(N - 1) /\ Room(s, X) <= N - s.remaining
<1>1. PICK l : Keeps(s, X, l, canonicalize(s, X))
  BY CanonicalForm
<1>2. canonicalize(s, X) \in GoodStates
  BY Canonicalized
<1>3. canonicalize(s, X).remaining \in 1..N /\ N \in Nat
  BY <1>2, StateFacts
<1>4. /\ s.remaining \in 1..N /\ Len(s.suffix) \in Nat /\ Len(s.suffix) <= N - s.remaining
  BY StateFacts
<1> DEFINE r == canonicalize(s, X)
           n == Len(s.suffix)
<1>5. l \in 0..n /\ (r = s \/ r.remaining = N - (n - l))
  BY <1>1 DEF Keeps
<1> HIDE DEF r, n
<1>6. s.remaining <= r.remaining
  <2>1. n \in Nat /\ n <= N - s.remaining
    BY <1>4 DEF n
  <2>2. CASE r = s
    BY <1>4, <2>2
  <2>3. CASE r.remaining = N - (n - l)
    BY <1>3, <1>4, <1>5, <2>1, <2>3
  <2> QED
    BY <1>5, <2>2, <2>3
<1> QED
  BY <1>3, <1>4, <1>6 DEF Room, r

LEMMA RoomFull ==
    ASSUME prog \in Programs, NEW r \in 1..N, NEW X
    PROVE  Room(from_remaining(r), X) = N - r
<1>1. from_remaining(r).suffix = <<>> /\ from_remaining(r).remaining = r
  BY DEF from_remaining
<1>2. DOMAIN from_remaining(r).suffix = {}
  BY <1>1
<1>3. canonicalize(from_remaining(r), X) = from_remaining(r)
  BY <1>2 DEF canonicalize
<1> QED
  BY <1>1, <1>3 DEF Room

\* To canonicalize a state earlier, against fewer checks, makes no difference.
LEMMA RoomAgain ==
    ASSUME prog \in Programs, NEW s \in GoodStates, NEW R, NEW X, R \subseteq X
    PROVE  Room(canonicalize(s, R), X) = Room(s, X)
<1> DEFINE t == canonicalize(s, R)
           n == Len(s.suffix)
<1>1. t \in GoodStates
  BY Canonicalized
<1>2. PICK l : Keeps(s, R, l, t)
  BY CanonicalForm
<1>3. PICK m : Keeps(s, X, m, canonicalize(s, X))
  BY CanonicalForm
<1> HIDE DEF t
<1>4. PICK p : Keeps(t, X, p, canonicalize(t, X))
  BY <1>1, CanonicalForm
<1>5. N \in Nat /\ n \in Nat /\ s.remaining \in 1..N
  BY StateFacts
<1>6. l \in 0..n /\ m \in 0..n
  BY <1>2, <1>3 DEF Keeps
<1>7. CASE l = 0
  BY <1>2, <1>7 DEF Keeps, t
<1>8. CASE l # 0
  <2>1. s.suffix[l] \in X /\ t.remaining = N - (n - l) /\ Len(t.suffix) = n - l
        /\ \A k \in 1..(n - l) : t.suffix[k] = s.suffix[l + k]
    BY <1>2, <1>8 DEF Keeps
  <2>2. l <= m /\ m # 0
    BY <1>3, <1>5, <1>6, <1>8, <2>1 DEF Keeps
  <2>3. s.suffix[m] \in X /\ canonicalize(s, X).remaining = N - (n - m)
        /\ \A k \in (m + 1)..n : s.suffix[k] \notin X
    BY <1>3, <2>2 DEF Keeps
  <2>4. p \in 0..(n - l) /\ \A k \in (p + 1)..(n - l) : t.suffix[k] \notin X
    BY <1>4, <2>1 DEF Keeps
  <2>7. m - l \in 1..(n - l) => t.suffix[m - l] \in X
    <3> DEFINE d == m - l
    <3>1. d \in Nat /\ l + d = m
      BY <1>5, <1>6, <2>2
    <3> HIDE DEF d
    <3>2. d \in 1..(n - l) => t.suffix[d] \in X
      BY <2>1, <2>3, <3>1
    <3> QED
      BY <3>2 DEF d
  <2>5. p = m - l
    <3>1. CASE p = 0
      <4>1. ~ (m - l \in (p + 1)..(n - l))
        BY <1>5, <1>6, <2>4, <2>7
      <4> QED
        BY <1>5, <1>6, <2>2, <2>4, <3>1, <4>1
    <3>2. CASE p # 0
      <4>1. t.suffix[p] \in X /\ p \in 1..(n - l)
        <5>1. t.suffix[p] \in X
          BY <1>4, <3>2 DEF Keeps
        <5> QED
          BY <1>5, <1>6, <2>4, <3>2, <5>1
      <4>2. s.suffix[l + p] \in X
        BY <2>1, <4>1
      <4>3. l + p <= m
        BY <1>5, <1>6, <2>3, <4>1, <4>2
      <4>4. ~ (m - l \in (p + 1)..(n - l))
        BY <1>5, <1>6, <2>4, <2>7
      <4> QED
        BY <1>5, <1>6, <2>2, <4>1, <4>3, <4>4
    <3> QED
      BY <3>1, <3>2
  <2>6. canonicalize(t, X).remaining = N - (n - m)
    <3>1. CASE p = 0
      <4>1. canonicalize(t, X) = t /\ m = l
        BY <1>4, <1>5, <1>6, <2>5, <3>1 DEF Keeps
      <4> QED
        BY <2>1, <4>1
    <3>2. CASE p # 0
      <4>1. canonicalize(t, X).remaining = N - (n - l - p)
        BY <1>4, <2>1, <3>2 DEF Keeps
      <4> QED
        BY <1>5, <1>6, <2>5, <4>1
    <3> QED
      BY <3>1, <3>2
  <2> QED
    BY <2>3, <2>6 DEF Room, t
<1> QED
  BY <1>7, <1>8

\* A safepoint takes room, unless it is checked.
LEMMA RoomStep ==
    ASSUME prog \in Programs, NEW s \in GoodStates, s.remaining # 1, NEW stmt \in Points, NEW X
    PROVE  stmt \notin X => Room(process_safepoint(s, stmt), X) = Room(s, X) + 1
<1> SUFFICES ASSUME stmt \notin X PROVE Room(process_safepoint(s, stmt), X) = Room(s, X) + 1
  OBVIOUS
<1> DEFINE longer == Append(s.suffix, stmt)
           t == process_safepoint(s, stmt)
           n == Len(s.suffix)
<1>1. /\ N \in Nat /\ s.remaining \in 1..N /\ s.suffix \in Seq(Points) /\ n \in Nat
      /\ n <= N - s.remaining
  BY StateFacts
<1>2. /\ Len(longer) = n + 1 /\ longer[n + 1] = stmt
      /\ \A i \in 1..n : longer[i] = s.suffix[i]
  <2>1. s.suffix \in Seq(Points)
    BY <1>1
  <2> QED
    BY <2>1, Appended
<1>3. t = [remaining |-> s.remaining - 1, suffix |-> longer]
  <2> HIDE DEF longer
  <2>1. ~(Len(longer) > N)
    BY <1>1, <1>2
  <2> QED
    BY <2>1 DEF process_safepoint, longer
<1> HIDE DEF longer
<1>4. t.suffix = longer /\ t.remaining = s.remaining - 1
  BY <1>3
<1>5. t \in GoodStates
  BY SafepointProcessed
<1> HIDE DEF t
<1>6. PICK l : Keeps(s, X, l, canonicalize(s, X))
  BY CanonicalForm
<1>7. PICK m : Keeps(t, X, m, canonicalize(t, X))
  BY <1>5, CanonicalForm
<1>8. l \in 0..n /\ m \in 0..(n + 1) /\ (l # 0 => s.suffix[l] \in X) /\ (m # 0 => longer[m] \in X)
      /\ (\A k \in (l + 1)..n : s.suffix[k] \notin X)
      /\ (\A k \in (m + 1)..(n + 1) : longer[k] \notin X)
  BY <1>2, <1>4, <1>6, <1>7 DEF Keeps
<1>9. m = l
  <2>1. m # n + 1
    BY <1>1, <1>2, <1>8
  <2>2. m # 0 => m <= l
    BY <1>1, <1>2, <1>8, <2>1
  <2>3. l # 0 => l <= m
    BY <1>1, <1>2, <1>8
  <2> QED
    BY <1>1, <1>8, <2>1, <2>2, <2>3
<1>10. CASE l = 0
  <2>1. canonicalize(s, X) = s /\ canonicalize(t, X) = t
    BY <1>6, <1>7, <1>9, <1>10 DEF Keeps
  <2> QED
    BY <1>1, <1>4, <2>1 DEF Room, t
<1>11. CASE l # 0
  <2>1. canonicalize(s, X).remaining = N - (n - l) /\ canonicalize(t, X).remaining = N - (n + 1 - l)
    BY <1>2, <1>4, <1>6, <1>7, <1>9, <1>11 DEF Keeps
  <2> QED
    BY <1>1, <1>8, <2>1 DEF Room, t
<1> QED
  BY <1>10, <1>11

LEMMA StillRemembers ==
    ASSUME prog \in Programs, NEW s \in GoodStates, NEW X, NEW S, Remembers(s, S)
    PROVE  Remembers(canonicalize(s, X), S)
<1>1. PICK l : Keeps(s, X, l, canonicalize(s, X))
  BY CanonicalForm
<1> DEFINE r == canonicalize(s, X)
           n == Len(s.suffix)
<1>2. r \in GoodStates
  BY Canonicalized
<1> HIDE DEF r
<1>3. DOMAIN r.suffix = 1..Len(r.suffix) /\ DOMAIN s.suffix = 1..n /\ n \in Nat
  BY <1>2, StateFacts
<1>4. r = s \/ (l \in 0..n /\ Len(r.suffix) = n - l /\ \A k \in 1..(n - l) : r.suffix[k] = s.suffix[l + k])
  BY <1>1 DEF Keeps, r
<1>5. CASE r = s
  BY <1>5 DEF r
<1>6. CASE l \in 0..n /\ Len(r.suffix) = n - l /\ \A k \in 1..(n - l) : r.suffix[k] = s.suffix[l + k]
  <2> SUFFICES ASSUME NEW k \in DOMAIN r.suffix PROVE r.suffix[k][1] \in S
    BY DEF Remembers, r
  <2>1. l + k \in DOMAIN s.suffix /\ r.suffix[k] = s.suffix[l + k]
    BY <1>3, <1>6
  <2> QED
    BY <2>1 DEF Remembers
<1> QED
  BY <1>4, <1>5, <1>6

LEMMA RemembersMore ==
    ASSUME prog \in Programs, NEW s \in GoodStates, s.remaining # 1, NEW stmt \in Points,
           NEW S, Remembers(s, S), stmt[1] \in S
    PROVE  Remembers(process_safepoint(s, stmt), S)
<1> DEFINE longer == Append(s.suffix, stmt)
           n == Len(s.suffix)
<1>1. N \in Nat /\ s.remaining \in 1..N /\ s.suffix \in Seq(Points) /\ n \in Nat /\ n <= N - s.remaining
      /\ DOMAIN s.suffix = 1..n
  BY StateFacts
<1>2. DOMAIN longer = 1..(n + 1) /\ longer[n + 1] = stmt /\ \A i \in 1..n : longer[i] = s.suffix[i]
      /\ Len(longer) = n + 1
  <2>1. s.suffix \in Seq(Points)
    BY <1>1
  <2> QED
    BY <2>1, Appended
<1> HIDE DEF longer
<1>3. process_safepoint(s, stmt).suffix = longer
  <2>1. ~(Len(longer) > N)
    BY <1>1, <1>2
  <2> QED
    BY <2>1 DEF process_safepoint, longer
<1>4. \A k \in 1..(n + 1) : longer[k][1] \in S
  BY <1>1, <1>2, SMTT(30) DEF Remembers
<1> QED
  BY <1>2, <1>3, <1>4 DEF Remembers

-----------------------------------------------------------------------------
(* What a split does to segments, locations and checks *)

\* The two pieces of a block.
Pieces(block, i, n) ==
    /\ n \in Nat /\ Len(stmts[block]) = n /\ DOMAIN stmts[block] = 1..n /\ i \in 1..n
    /\ DOMAIN stmts'[block] = 1..i /\ Len(stmts'[block]) = i
    /\ \A k \in 1..i : stmts'[block][k] = stmts[block][k]
    /\ DOMAIN stmts'[Continuation] = 1..(n - i) /\ Len(stmts'[Continuation]) = n - i
    /\ \A k \in 1..(n - i) : stmts'[Continuation][k] = stmts[block][i + k]

LEMMA SplitPieces ==
    ASSUME prog \in Programs, IrShape, NEW block \in Blocks, NEW i \in DOMAIN stmts[block],
           Split(block, i)
    PROVE  Pieces(block, i, Len(stmts[block]))
<1> DEFINE s == stmts[block]
           n == Len(s)
           h == SubSeq(s, 1, i)
           t == SubSeq(s, i + 1, n)
<1>1. s \in Seq(Statements)
  BY BlocksFacts
<1>2. n \in Nat /\ DOMAIN s = 1..n /\ i \in 1..n
  BY <1>1, SeqFacts
<1>3. stmts'[block] = h /\ stmts'[Continuation] = t
  BY DEF Split
<1> HIDE DEF s, n
<1>4. i \in Nat /\ i <= n /\ i + 1 \in Nat \ {0} /\ n <= n /\ 1 \in Nat \ {0} /\ n \in Nat
  BY <1>2
<1>5. h \in Seq(Statements) /\ Len(h) = (IF 1 <= i THEN i - 1 + 1 ELSE 0)
      /\ \A k \in 1..(i - 1 + 1) : h[k] = s[1 + k - 1]
  BY <1>1, <1>4, SubSeqFacts DEF n
<1>6. t \in Seq(Statements) /\ Len(t) = (IF i + 1 <= n THEN n - (i + 1) + 1 ELSE 0)
      /\ \A k \in 1..(n - (i + 1) + 1) : t[k] = s[i + 1 + k - 1]
  BY <1>1, <1>4, SubSeqFacts DEF n
<1> HIDE DEF h, t
<1>7. Len(h) = i /\ \A k \in 1..i : h[k] = s[k]
  BY <1>2, <1>5
<1>8. Len(t) = n - i /\ \A k \in 1..(n - i) : t[k] = s[i + k]
  BY <1>2, <1>6
<1>9. DOMAIN h = 1..i /\ DOMAIN t = 1..(n - i)
  BY <1>5, <1>6, <1>7, <1>8, SeqFacts
<1> QED
  BY <1>2, <1>3, <1>7, <1>8, <1>9 DEF Pieces, s, n

\* The continuation begins where the block now ends.
Moved(seg, r, block, i) ==
    /\ \A b \in Blocks : r[b] = seg[b]
    /\ r[Continuation] = <<seg[block][1], seg[block][2] + i>>

LEMMA SplitSegments ==
    ASSUME prog \in Programs, IrShape, prog' = prog, NEW block \in Blocks,
           NEW i \in DOMAIN stmts[block], Split(block, i), NEW seg, Segments(seg),
           NEW r, Moved(seg, r, block, i)
    PROVE  Segments(r)' /\ block # leave
<1> DEFINE n == Len(stmts[block])
           C == Continuation
<1>1. Pieces(block, i, n)
  BY SplitPieces
<1> HIDE DEF n
<1>2. /\ n \in Nat /\ i \in 1..n /\ DOMAIN stmts[block] = 1..n
      /\ DOMAIN stmts'[block] = 1..i
      /\ \A k \in 1..i : stmts'[block][k] = stmts[block][k]
      /\ DOMAIN stmts'[C] = 1..(n - i) /\ Len(stmts'[C]) = n - i
      /\ \A k \in 1..(n - i) : stmts'[C][k] = stmts[block][i + k]
  BY <1>1 DEF Pieces
<1>3. /\ C \notin Blocks /\ C # leave' /\ (leave = 0 => leave' \notin Blocks)
      /\ (leave # 0 => leave' = leave)
      /\ \A b : b \in Blocks' <=> b \in Blocks \/ b = C \/ b = leave'
      /\ leave = 0 => succ'[leave'] = <<>> /\ stmts'[leave'] = <<>>
      /\ succ'[C] = succ[block]
      /\ \A b \in Blocks : b # block => succ'[b] = succ[b] /\ stmts'[b] = stmts[b]
      /\ checked' = checked \cup (IF block \in checked THEN {block, C} ELSE {block})
  BY DEF Split, LeaveBlock
<1>4. /\ \A b \in Blocks \ {leave} : seg[b] \in SourceBlocks \X Nat
      /\ \A b \in SourceBlocks : b # leave /\ seg[b] = <<b, 0>>
      /\ leave # 0 => stmts[leave] = <<>> /\ succ[leave] = <<>> /\ leave \notin checked
      /\ \A b \in Blocks \ {leave} : \A k \in DOMAIN stmts[b] :
            stmts[b][k] = <<seg[b][1], seg[b][2] + k>>
      /\ \A b \in Blocks \ ({leave} \cup checked) :
            /\ succ[b] = prog.succ[seg[b][1]]
            /\ seg[b][2] + Len(stmts[b]) = Len(prog.body[seg[b][1]])
  BY DEF Segments
<1>5. (\A b \in Blocks : r[b] = seg[b]) /\ r[C] = <<seg[block][1], seg[block][2] + i>>
  BY DEF Moved
<1>6. /\ SourceBlocks \subseteq Blocks /\ checked \subseteq Blocks /\ 0 \notin Blocks
      /\ leave \in Blocks \cup {0}
  BY BlocksFacts, SMTT(30) DEF IrShape
<1>7. block # leave
  <2>1. leave # 0 => DOMAIN stmts[leave] = {}
    BY <1>4
  <2> QED
    BY <1>6, <2>1
<1>8. \A b \in Blocks' \ {leave'} : b = C \/ b \in Blocks \ {leave}
  BY <1>3, <1>6
<1>9. seg[block] \in SourceBlocks \X Nat /\ seg[block][2] \in Nat /\ seg[block][1] \in SourceBlocks
  BY <1>4, <1>7
<1>10. SourceBlocks' = SourceBlocks
  BY ProgKept
<1> HIDE DEF C
<1>11. \A b \in Blocks' \ {leave'} : r[b] \in SourceBlocks \X Nat
  <2>1. r[C] \in SourceBlocks \X Nat
    BY <1>2, <1>5, <1>9
  <2> QED
    BY <1>4, <1>5, <1>8, <2>1
<1>12. \A b \in SourceBlocks : b # leave' /\ r[b] = <<b, 0>>
  BY <1>3, <1>4, <1>5, <1>6
<1>13. stmts'[leave'] = <<>> /\ succ'[leave'] = <<>> /\ leave' \notin checked'
  BY <1>3, <1>4, <1>6, <1>7
<1>14. ASSUME NEW b \in Blocks' \ {leave'}, NEW k \in DOMAIN stmts'[b]
       PROVE  stmts'[b][k] = <<r[b][1], r[b][2] + k>>
  <2>1. CASE b = C
    <3>1. k \in 1..(n - i) /\ i + k \in DOMAIN stmts[block]
      BY <1>2, <1>14, <2>1
    <3>2. stmts'[b][k] = <<seg[block][1], seg[block][2] + (i + k)>>
      BY <1>2, <1>4, <1>7, <2>1, <3>1
    <3>3. r[b][1] = seg[block][1] /\ r[b][2] = seg[block][2] + i
      BY <1>5, <2>1
    <3>4. seg[block][2] + (i + k) = seg[block][2] + i + k
      BY <1>2, <1>9, <3>1
    <3> QED
      BY <3>2, <3>3, <3>4
  <2>2. CASE b = block
    <3>1. k \in 1..i /\ k \in DOMAIN stmts[block]
      BY <1>2, <1>14, <2>2
    <3> QED
      BY <1>2, <1>4, <1>5, <1>7, <2>2, <3>1, ZenonT(40)
  <2>3. CASE b # C /\ b # block
    <3>1. b \in Blocks \ {leave} /\ stmts'[b] = stmts[b] /\ r[b] = seg[b]
      BY <1>3, <1>5, <1>8, <2>3
    <3> QED
      BY <1>4, <1>14, <3>1
  <2> QED
    BY <2>1, <2>2, <2>3
<1>15. ASSUME NEW b \in Blocks' \ ({leave'} \cup checked')
       PROVE  /\ succ'[b] = prog.succ[r[b][1]]
              /\ r[b][2] + Len(stmts'[b]) = Len(prog.body[r[b][1]])
  <2>1. b # block
    BY <1>3
  <2>2. CASE b = C
    <3>1. block \notin checked
      BY <1>3, <2>2
    <3>2. succ[block] = prog.succ[seg[block][1]] /\ seg[block][2] + n = Len(prog.body[seg[block][1]])
      BY <1>4, <1>7, <3>1 DEF n
    <3>3. r[b][1] = seg[block][1] /\ r[b][2] = seg[block][2] + i
      BY <1>5, <2>2
    <3>4. seg[block][2] + i + (n - i) = seg[block][2] + n
      BY <1>2, <1>9
    <3> QED
      BY <1>2, <1>3, <2>2, <3>2, <3>3, <3>4
  <2>3. CASE b # C
    <3>1. b \in Blocks \ ({leave} \cup checked)
      BY <1>3, <1>8, <2>3
    <3>2. succ'[b] = succ[b] /\ stmts'[b] = stmts[b] /\ r[b] = seg[b]
      BY <1>3, <1>5, <2>1, <3>1
    <3> QED
      BY <1>4, <3>1, <3>2
  <2> QED
    BY <2>2, <2>3
<1>16. Segments(r)'
  BY <1>10, <1>11, <1>12, <1>13, <1>14, <1>15 DEF Segments
<1> QED
  BY <1>7, <1>16

LEMMA SplitLocated ==
    ASSUME prog \in Programs, IrShape, prog' = prog, loc \in [Points -> Blocks \X Nat], Located,
           NEW block \in Blocks, NEW i \in DOMAIN stmts[block], Split(block, i),
           insert_halt_check_after(block, i)
    PROVE  Located'
<1> DEFINE n == Len(stmts[block])
           C == Continuation
           tail == tail_stmts(block, i)
           moves(s) == \E j \in DOMAIN tail : tail[j] = s
           place(s) == CHOOSE j \in DOMAIN tail : tail[j] = s
<1>1. Pieces(block, i, n)
  BY SplitPieces
<1>2. tail = stmts'[C]
  BY DEF Split, tail_stmts
<1>3. \A s \in Points : loc'[s] = IF moves(s) THEN <<C, place(s)>> ELSE loc[s]
  BY DEF insert_halt_check_after
<1> HIDE DEF n, tail
<1>4. /\ n \in Nat /\ i \in 1..n /\ DOMAIN stmts[block] = 1..n
      /\ DOMAIN stmts'[block] = 1..i
      /\ \A k \in 1..i : stmts'[block][k] = stmts[block][k]
      /\ DOMAIN tail = 1..(n - i)
      /\ \A k \in 1..(n - i) : tail[k] = stmts[block][i + k]
  BY <1>1, <1>2 DEF Pieces
<1>5. /\ C \notin Blocks
      /\ \A b : b \in Blocks' => b \in Blocks \/ b = C \/ (b = leave' /\ stmts'[b] = <<>>)
      /\ \A b \in Blocks : b # block => stmts'[b] = stmts[b]
  BY DEF Split, LeaveBlock
<1>6. /\ \A s \in Points : /\ loc[s][2] \in DOMAIN stmts[loc[s][1]]
                           /\ stmts[loc[s][1]][loc[s][2]] = s
      /\ \A b \in Blocks : \A k \in DOMAIN stmts[b] :
            stmts[b][k] \in Points => loc[stmts[b][k]] = <<b, k>>
  BY DEF Located
<1> HIDE DEF C
<1>7. ASSUME NEW j \in DOMAIN tail, tail[j] \in Points
      PROVE  loc[tail[j]] = <<block, i + j>> /\ i + j \in DOMAIN stmts[block]
  BY <1>4, <1>6, <1>7
<1>8. ASSUME NEW j \in DOMAIN tail, tail[j] \in Points PROVE place(tail[j]) = j
  <2> DEFINE p == place(tail[j])
  <2>1. p \in DOMAIN tail /\ tail[p] = tail[j]
    OBVIOUS
  <2> HIDE DEF p
  <2>2. <<block, i + p>> = <<block, i + j>>
    BY <1>7, <1>8, <2>1
  <2>3. i + p = i + j
    BY <2>2
  <2>4. p = j
    BY <1>4, <2>1, <2>3
  <2> QED
    BY <2>4 DEF p
<1>9. ASSUME NEW s \in Points
      PROVE  loc'[s][2] \in DOMAIN stmts'[loc'[s][1]] /\ stmts'[loc'[s][1]][loc'[s][2]] = s
  <2>1. CASE moves(s)
    <3>1. place(s) \in DOMAIN tail /\ tail[place(s)] = s
      BY <2>1
    <3>2. loc'[s][1] = C /\ loc'[s][2] = place(s)
      <4> HIDE DEF place, moves
      <4>1. loc'[s] = <<C, place(s)>>
        BY <1>3, <2>1, Zenon
      <4> QED
        BY <4>1
    <3> QED
      BY <1>2, <3>1, <3>2 DEF C
  <2>2. CASE ~moves(s)
    <3> DEFINE b == loc[s][1]
               k == loc[s][2]
    <3>1. loc'[s] = loc[s] /\ b \in Blocks /\ k \in DOMAIN stmts[b] /\ stmts[b][k] = s
      BY <1>3, <1>6, <2>2
    <3> HIDE DEF moves
    <3>2. CASE b # block
      BY <1>5, <3>1, <3>2
    <3>3. CASE b = block
      <4>1. k \in 1..n /\ k \in Nat
        BY <1>4, <3>1, <3>3
      <4>2. ~(k > i)
        <5> SUFFICES ASSUME k > i PROVE FALSE
          OBVIOUS
        <5> DEFINE d == k - i
        <5>1. d \in DOMAIN tail /\ i + d = k
          BY <1>4, <4>1
        <5> HIDE DEF d, k, b
        <5>2. tail[d] = s
          BY <1>4, <3>1, <3>3, <5>1
        <5> QED
          BY <2>2, <5>1, <5>2 DEF moves
      <4>3. k \in 1..i
        BY <1>4, <4>1, <4>2
      <4> QED
        BY <1>4, <3>1, <3>3, <4>3
    <3> QED
      BY <3>2, <3>3
  <2> QED
    BY <2>1, <2>2
<1>10. ASSUME NEW b \in Blocks', NEW k \in DOMAIN stmts'[b], stmts'[b][k] \in Points
       PROVE  loc'[stmts'[b][k]] = <<b, k>>
  <2> DEFINE s == stmts'[b][k]
  <2>1. b \in Blocks \/ b = C
    <3>1. ~(stmts'[b] = <<>>)
      BY <1>10
    <3> QED
      BY <1>5, <3>1
  <2>2. CASE b = C
    <3>1. k \in DOMAIN tail /\ s = tail[k]
      BY <1>2, <2>2 DEF C
    <3>2. moves(s) /\ place(s) = k
      BY <1>8, <1>10, <3>1
    <3> HIDE DEF s, place, moves
    <3> QED
      BY <1>3, <1>10, <2>2, <3>2 DEF s
  <2>3. CASE b \in Blocks
    <3>1. k \in DOMAIN stmts[b] /\ stmts[b][k] = s /\ (b = block => k <= i)
      <4>1. CASE b = block
        BY <1>4, <4>1
      <4>2. CASE b # block
        BY <1>5, <2>3, <4>2
      <4> QED
        BY <4>1, <4>2
    <3> HIDE DEF s, moves
    <3>2. loc[s] = <<b, k>>
      BY <1>6, <1>10, <2>3, <3>1 DEF s
    <3>3. ~moves(s)
      <4> SUFFICES ASSUME NEW j \in DOMAIN tail, tail[j] = s PROVE FALSE
        BY DEF moves
      <4>1. <<b, k>> = <<block, i + j>>
        BY <1>7, <1>10, <3>2 DEF s
      <4>2. b = block /\ k = i + j /\ j \in 1..(n - i)
        BY <1>4, <4>1
      <4> QED
        BY <1>4, <3>1, <4>2
    <3> QED
      BY <1>3, <1>10, <3>2, <3>3 DEF s
  <2> QED
    BY <2>1, <2>2, <2>3
<1>11. Points' = Points
  BY ProgKept
<1> QED
  BY <1>9, <1>10, <1>11 DEF Located

LEMMA SplitChecks ==
    ASSUME prog \in Programs, IrShape, prog' = prog, NEW block \in Blocks,
           NEW i \in DOMAIN stmts[block], Split(block, i)
    PROVE  /\ Checks \subseteq Checks'
           /\ stmts[block][i] \in Points => stmts[block][i] \in Checks'
<1> DEFINE n == Len(stmts[block])
           C == Continuation
<1>1. Pieces(block, i, n)
  BY SplitPieces
<1> HIDE DEF n
<1>2. /\ n \in Nat /\ i \in 1..n /\ Len(stmts[block]) = n
      /\ DOMAIN stmts'[block] = 1..i /\ Len(stmts'[block]) = i
      /\ \A k \in 1..i : stmts'[block][k] = stmts[block][k]
      /\ DOMAIN stmts'[C] = 1..(n - i) /\ Len(stmts'[C]) = n - i
      /\ \A k \in 1..(n - i) : stmts'[C][k] = stmts[block][i + k]
  BY <1>1 DEF Pieces
<1>3. /\ \A b \in Blocks : b # block => stmts'[b] = stmts[b]
      /\ checked' = checked \cup (IF block \in checked THEN {block, C} ELSE {block})
      /\ checked \subseteq Blocks
  BY DEF Split, IrShape
<1>4. Points' = Points
  BY ProgKept
<1> HIDE DEF C
<1>5. ASSUME NEW b \in checked', stmts'[b] # <<>>, LastOf(stmts'[b]) \in Points
      PROVE  LastOf(stmts'[b]) \in Checks'
  BY <1>4, <1>5 DEF Checks, LastOf
<1>6. stmts'[block] # <<>> /\ LastOf(stmts'[block]) = stmts[block][i] /\ block \in checked'
  <2>1. 1 \in DOMAIN stmts'[block]
    BY <1>2
  <2>2. stmts'[block] # <<>>
    BY <2>1
  <2> QED
    BY <1>2, <1>3, <2>2 DEF LastOf
<1>7. stmts[block][i] \in Points => stmts[block][i] \in Checks'
  BY <1>5, <1>6
<1>8. ASSUME NEW s \in Checks PROVE s \in Checks'
  <2>1. s \in Points
    BY DEF Checks
  <2>2. PICK b \in checked : stmts[b] # <<>> /\ s = LastOf(stmts[b])
    BY DEF Checks
  <2>3. CASE b # block
    <3>1. stmts'[b] = stmts[b] /\ b \in checked'
      BY <1>3, <2>3
    <3> QED
      BY <1>5, <2>1, <2>2, <3>1
  <2>4. CASE b = block /\ i = n
    BY <1>2, <1>7, <2>1, <2>2, <2>4 DEF LastOf
  <2>5. CASE b = block /\ i # n
    <3>1. n - i \in 1..(n - i) /\ i + (n - i) = n
      BY <1>2, <2>5
    <3>2. stmts'[C][n - i] = stmts[block][n]
      BY <1>2, <3>1
    <3>3. stmts'[C] # <<>>
      <4>1. n - i \in DOMAIN stmts'[C]
        BY <1>2, <3>1
      <4> QED
        BY <4>1
    <3>4. C \in checked' /\ LastOf(stmts'[C]) = s
      BY <1>2, <1>3, <2>2, <2>5, <3>2 DEF LastOf
    <3> QED
      BY <1>5, <2>1, <3>3, <3>4
  <2> QED
    BY <2>3, <2>4, <2>5
<1> QED
  BY <1>7, <1>8

-----------------------------------------------------------------------------
(* Bounds and their parts *)

\* The parts of Bounded depend on the program, which does not change.
BoundedThen(C, X, seg) ==
    /\ Flows(C, Checks' \cup X, Finished', Opened')
    /\ Counted(C, X, seg, Finished', Drained', outgoing', work'.states)
    /\ pc' = "blocks" => Here(C, X, Checks' \cup X, Current', seg[work'.block][2] + work'.index - 1,
                              IsCyclic', AsSet(Component'), work'.state, work'.seen)

LEMMA BoundedPrimed ==
    ASSUME prog' = prog, NEW C, NEW X, NEW seg, BoundedThen(C, X, seg)
    PROVE  Bounded(C, X, seg)'
<1>1. Points' = Points /\ SourceBlocks' = SourceBlocks /\ N' = N
  BY ProgKept
<1>2. ASSUME NEW b, NEW n, Rises(C, Checks' \cup X, b, n)
      PROVE  \A k \in 1..n :
                IF <<b, k>> \in Points' THEN <<b, k>> \notin Checks' \cup X => C[<<b, k - 1>>] < C[<<b, k>>]
                ELSE C[<<b, k - 1>>] <= C[<<b, k>>]
  BY <1>1, <1>2 DEF Rises
<1>3. Flows(C, Checks \cup X, Finished, Opened)'
  <2>1. Flows(C, Checks' \cup X, Finished', Opened')
    BY DEF BoundedThen
  <2> QED
    BY <1>1, <2>1 DEF Flows, Rises, AtEnd
<1>4. Counted(C, X, seg, Finished, Drained, outgoing, work.states)'
  <2>1. Counted(C, X, seg, Finished', Drained', outgoing', work'.states)
    BY DEF BoundedThen
  <2> QED
    BY <1>1, <2>1 DEF Counted, AtEnd, Room, canonicalize
<1>5. pc' = "blocks" => Here(C, X, Checks \cup X, Current, Position(seg), IsCyclic,
                             AsSet(Component), work.state, work.seen)'
  <2> SUFFICES ASSUME pc' = "blocks"
               PROVE  Here(C, X, Checks \cup X, Current, Position(seg), IsCyclic,
                           AsSet(Component), work.state, work.seen)'
    OBVIOUS
  <2>1. Here(C, X, Checks' \cup X, Current', seg[work'.block][2] + work'.index - 1,
             IsCyclic', AsSet(Component'), work'.state, work'.seen)
    BY DEF BoundedThen
  <2>2. Position(seg)' = seg[work'.block][2] + work'.index - 1
    BY DEF Position
  <2> QED
    BY <1>1, <2>1, <2>2 DEF Here, Rises, Room, canonicalize, AsSet
<1> QED
  BY <1>3, <1>4, <1>5 DEF Bounded

Bounds == [SourceBlocks \X Nat -> 0..(N - 1)]

\* Only the values at finished blocks and at the beginnings of opened ones
\* matter, and more checks do no harm.
LEMMA FlowsAgree ==
    ASSUME NEW C, NEW Y, NEW D, NEW E, Flows(C, Y, D, E), NEW G \in Bounds, NEW Z, Y \subseteq Z,
           \A b \in D : \A k \in Nat : G[<<b, k>>] = C[<<b, k>>],
           \A c \in E : G[<<c, 0>>] = C[<<c, 0>>],
           \A b \in D : Len(prog.body[b]) \in Nat
    PROVE  Flows(G, Z, D, E) /\ \A b \in D : AtEnd(G, b) = AtEnd(C, b)
<1>1. \A b \in D : AtEnd(G, b) = AtEnd(C, b)
  BY DEF AtEnd
<1>2. ASSUME NEW b \in D PROVE Rises(G, Z, b, Len(prog.body[b]))
  <2> DEFINE n == Len(prog.body[b])
  <2>1. Rises(C, Y, b, n) /\ n \in Nat
    BY DEF Flows
  <2> HIDE DEF n
  <2> SUFFICES ASSUME NEW k \in 1..n
               PROVE  IF <<b, k>> \in Points THEN <<b, k>> \notin Z => G[<<b, k - 1>>] < G[<<b, k>>]
                      ELSE G[<<b, k - 1>>] <= G[<<b, k>>]
    BY DEF Rises, n
  <2>2. k \in Nat /\ k - 1 \in Nat
    BY <2>1
  <2>3. G[<<b, k>>] = C[<<b, k>>] /\ G[<<b, k - 1>>] = C[<<b, k - 1>>]
    BY <2>2
  <2>4. IF <<b, k>> \in Points THEN <<b, k>> \notin Y => C[<<b, k - 1>>] < C[<<b, k>>]
        ELSE C[<<b, k - 1>>] <= C[<<b, k>>]
    BY <2>1 DEF Rises
  <2> QED
    BY <2>3, <2>4
<1>3. \A b \in D : \A c \in AsSet(prog.succ[b]) : c \in E => AtEnd(C, b) <= C[<<c, 0>>]
  BY DEF Flows
<1>4. \A b \in D : \A c \in AsSet(prog.succ[b]) : c \in E => AtEnd(G, b) <= G[<<c, 0>>]
  BY <1>1, <1>3
<1> QED
  BY <1>1, <1>2, <1>4 DEF Flows, Bounds

\* A block is finished.
LEMMA FlowsFinish ==
    ASSUME NEW C, NEW Y, NEW D, NEW E, Flows(C, Y, D, E), NEW b, Rises(C, Y, b, Len(prog.body[b])),
           \A c \in AsSet(prog.succ[b]) : c \in E => AtEnd(C, b) <= C[<<c, 0>>]
    PROVE  Flows(C, Y, D \cup {b}, E)
  BY DEF Flows

\* Blocks are opened.
LEMMA FlowsOpen ==
    ASSUME NEW C, NEW Y, NEW D, NEW E, Flows(C, Y, D, E), NEW F,
           \A b \in D : \A c \in AsSet(prog.succ[b]) : c \in F => AtEnd(C, b) <= C[<<c, 0>>]
    PROVE  Flows(C, Y, D, E \cup F)
  BY DEF Flows

\* The types of the sets of blocks.
LEMMA SetFacts ==
    ASSUME Shape, Inserting \/ Inserted
    PROVE  /\ Finished \subseteq SourceBlocks /\ Opened \subseteq SourceBlocks
           /\ Finished \subseteq Opened
           /\ \A b \in SourceBlocks : Len(prog.body[b]) \in Nat
           /\ N \in Nat \ {0} /\ prog \in Programs /\ IrShape
<1>1. prog \in Programs /\ IrShape
  BY DEF Shape, AnalysisInv
<1>2. N \in Nat \ {0} /\ \A b \in SourceBlocks : Len(prog.body[b]) \in Nat
  <2>1. N \in Nat \ {0} /\ prog.body \in Seq(Seq({"safepoint", "other"})) /\ DOMAIN prog.body = SourceBlocks
    BY <1>1, SourceFacts
  <2>2. \A b \in SourceBlocks : prog.body[b] \in Seq({"safepoint", "other"})
    BY <2>1, SeqFacts
  <2> QED
    BY <2>1, <2>2, SeqFacts
<1>3. Inserting => AsSet(Component) \subseteq SourceBlocks
  BY Ranking DEF Ranked
<1>4. Past \subseteq SourceBlocks
  BY DEF Past
<1>5. {Component[j] : j \in {i \in DOMAIN Component : i < work.next}} \subseteq AsSet(Component)
  BY DEF AsSet
<1> QED
  BY <1>1, <1>2, <1>3, <1>4, <1>5 DEF Finished, Opened, Inserting

LEMMA LayoutKept ==
    ASSUME prog' = prog, ir' = ir, loc' = loc, NEW seg, Segments(seg), Located
    PROVE  Segments(seg)' /\ Located' /\ Checks' = Checks
<1>1. succ' = succ /\ stmts' = stmts /\ checked' = checked /\ leave' = leave
  BY DEF ir
<1>2. Points' = Points /\ SourceBlocks' = SourceBlocks /\ Blocks' = Blocks
  BY <1>1, ProgKept DEF Blocks
<1>3. Segments(seg)'
  BY <1>1, <1>2 DEF Segments
<1>4. Located'
  BY <1>1, <1>2 DEF Located
<1> QED
  BY <1>1, <1>2, <1>3, <1>4 DEF Checks, LastOf

\* The halt states of the edges stay with the source edges they belong to.
SameStates(seg, r) ==
    \A e \in DOMAIN outgoing' : \E f \in DOMAIN outgoing :
        outgoing'[e] = outgoing[f] /\ r[e[1]][1] = seg[f[1]][1]

LEMMA SplitMaps ==
    ASSUME prog \in Programs, IrShape, OutgoingShape, prog' = prog, NEW block \in Blocks,
           NEW i \in DOMAIN stmts[block], Split(block, i), insert_halt_check_after(block, i),
           NEW seg, Segments(seg), MapsRight(seg), NEW r, Moved(seg, r, block, i),
           Finished' = Finished, Opened' = Opened, Drained' = Drained
    PROVE  MapsRight(r)' /\ SameStates(seg, r)
<1> DEFINE C == Continuation
           g(f) == RemapEdge(f, block)
           moved == {e \in DOMAIN outgoing : e[1] = block}
<1>1. /\ C \notin Blocks /\ C # leave' /\ (leave = 0 => leave' \notin Blocks)
      /\ (leave # 0 => leave' = leave)
      /\ \A b : b \in Blocks' <=> b \in Blocks \/ b = C \/ b = leave'
      /\ succ'[C] = succ[block]
      /\ \A b \in Blocks : b # block => succ'[b] = succ[b]
      /\ checked' = checked \cup (IF block \in checked THEN {block, C} ELSE {block})
      /\ checked \subseteq Blocks
  BY DEF Split, LeaveBlock, IrShape
<1>2. /\ incoming = {<<e[2], e[1]>> : e \in DOMAIN outgoing}
      /\ \A e \in DOMAIN outgoing :
            /\ e[1] \in Blocks \ ({leave} \cup checked) /\ seg[e[1]][1] \in Finished
            /\ e[2] \in AsSet(succ[e[1]]) /\ e[2] \notin Opened \cup Drained
      /\ \A b \in Finished : \A c \in AsSet(prog.succ[b]) :
            c \in Opened \cup Drained
            \/ \E e \in DOMAIN outgoing : seg[e[1]][1] = b /\ e[2] = c
  BY DEF MapsRight
<1>3. (\A b \in Blocks : r[b] = seg[b]) /\ r[C] = <<seg[block][1], seg[block][2] + i>>
  BY DEF Moved
<1>4. DOMAIN outgoing \subseteq Blocks \X Blocks
  BY DEF OutgoingShape
<1>5. /\ outgoing' = [e \in {g(f) : f \in DOMAIN outgoing} |->
                        outgoing[CHOOSE f \in DOMAIN outgoing : g(f) = e]]
      /\ incoming' = (incoming \ {<<e[2], block>> : e \in moved}) \cup {<<e[2], C>> : e \in moved}
  BY DEF insert_halt_check_after
<1> HIDE DEF C
<1>6. \A f \in DOMAIN outgoing : /\ f = <<f[1], f[2]>> /\ f[1] \in Blocks
                                 /\ g(f)[1] = (IF f[1] = block THEN C ELSE f[1])
                                 /\ g(f)[2] = f[2]
  BY <1>4 DEF RemapEdge, C
<1>7. \A f, h \in DOMAIN outgoing : g(f) = g(h) => f = h
  <2> SUFFICES ASSUME NEW f \in DOMAIN outgoing, NEW h \in DOMAIN outgoing, g(f) = g(h) PROVE f = h
    OBVIOUS
  <2> HIDE DEF g
  <2>1. f[1] = h[1] /\ f[2] = h[2]
    BY <1>1, <1>6
  <2> QED
    BY <1>6, <2>1
<1>8. DOMAIN outgoing' = {g(f) : f \in DOMAIN outgoing}
      /\ \A f \in DOMAIN outgoing : outgoing'[g(f)] = outgoing[f]
  <2> HIDE DEF g
  <2> QED
    BY <1>5, <1>7
<1> HIDE DEF g
<1>9. ASSUME NEW f \in DOMAIN outgoing
      PROVE  /\ r[g(f)[1]][1] = seg[f[1]][1]
             /\ g(f)[1] \in Blocks' \ ({leave'} \cup checked')
             /\ succ'[g(f)[1]] = succ[f[1]]
  <2>1. f[1] \in Blocks \ ({leave} \cup checked)
    BY <1>2
  <2>2. CASE f[1] = block
    <3>1. g(f)[1] = C
      BY <1>6, <2>2
    <3>2. C \in Blocks' \ ({leave'} \cup checked')
      BY <1>1, <2>1, <2>2
    <3> QED
      BY <1>1, <1>3, <2>2, <3>1, <3>2
  <2>3. CASE f[1] # block
    <3>1. g(f)[1] = f[1]
      BY <1>6, <2>3
    <3>2. f[1] \in Blocks' \ ({leave'} \cup checked')
      BY <1>1, <2>1, <2>3
    <3> QED
      BY <1>1, <1>3, <2>1, <2>3, <3>1, <3>2
  <2> QED
    BY <2>2, <2>3
<1>10. SameStates(seg, r)
  BY <1>8, <1>9 DEF SameStates
<1>11. incoming' = {<<e[2], e[1]>> : e \in DOMAIN outgoing'}
  <2>1. ASSUME NEW x \in incoming' PROVE x \in {<<e[2], e[1]>> : e \in DOMAIN outgoing'}
    <3>1. CASE x \in incoming \ {<<e[2], block>> : e \in moved}
      <4>1. PICK e \in DOMAIN outgoing : x = <<e[2], e[1]>>
        BY <1>2, <3>1
      <4>2. e[1] # block
        BY <3>1, <4>1
      <4>3. g(e)[1] = e[1] /\ g(e)[2] = e[2] /\ g(e) \in DOMAIN outgoing'
        BY <1>6, <1>8, <4>2
      <4> QED
        BY <4>1, <4>3
    <3>2. CASE x \in {<<e[2], C>> : e \in moved}
      <4>1. PICK e \in DOMAIN outgoing : x = <<e[2], C>> /\ e[1] = block
        BY <3>2
      <4>2. g(e)[1] = C /\ g(e)[2] = e[2] /\ g(e) \in DOMAIN outgoing'
        BY <1>6, <1>8, <4>1
      <4> QED
        BY <4>1, <4>2
    <3> QED
      BY <1>5, <3>1, <3>2
  <2>2. ASSUME NEW e \in DOMAIN outgoing' PROVE <<e[2], e[1]>> \in incoming'
    <3>1. PICK f \in DOMAIN outgoing : e = g(f)
      BY <1>8
    <3>2. CASE f[1] = block
      <4>1. <<e[2], e[1]>> = <<f[2], C>> /\ f \in moved
        BY <1>6, <3>1, <3>2
      <4> QED
        BY <1>5, <4>1
    <3>3. CASE f[1] # block
      <4>1. <<e[2], e[1]>> = <<f[2], f[1]>>
        BY <1>6, <3>1, <3>3
      <4>2. <<f[2], f[1]>> \in incoming
        BY <1>2
      <4>3. <<f[2], f[1]>> \notin {<<h[2], block>> : h \in moved}
        BY <3>3
      <4> QED
        BY <1>5, <4>1, <4>2, <4>3
    <3> QED
      BY <3>2, <3>3
  <2> QED
    BY <2>1, <2>2
<1>12. ASSUME NEW e \in DOMAIN outgoing'
       PROVE  /\ e[1] \in Blocks' \ ({leave'} \cup checked') /\ r[e[1]][1] \in Finished'
              /\ e[2] \in AsSet(succ'[e[1]]) /\ e[2] \notin Opened' \cup Drained'
  <2>1. PICK f \in DOMAIN outgoing : e = g(f)
    BY <1>8
  <2>2. e[2] = f[2]
    BY <1>6, <2>1
  <2> QED
    BY <1>2, <1>9, <2>1, <2>2
<1>13. ASSUME NEW b \in Finished, NEW c \in AsSet(prog.succ[b]), c \notin Opened \cup Drained
       PROVE  \E e \in DOMAIN outgoing' : r[e[1]][1] = b /\ e[2] = c
  <2>1. PICK f \in DOMAIN outgoing : seg[f[1]][1] = b /\ f[2] = c
    BY <1>2, <1>13
  <2>2. g(f) \in DOMAIN outgoing' /\ g(f)[2] = c /\ r[g(f)[1]][1] = b
    BY <1>6, <1>8, <1>9, <2>1
  <2> QED
    BY <2>2
<1> QED
  BY <1>10, <1>11, <1>12, <1>13 DEF MapsRight, AsSet

-----------------------------------------------------------------------------
(* The steps *)

LEMMA RankKept ==
    ASSUME graph' = graph
    PROVE  \A b : RankOf(b)' = RankOf(b)
  BY DEF RankOf, AsSet

\* The same component is in hand.
LEMMA ComponentKept ==
    ASSUME prog' = prog, graph' = graph, work'.component = work.component
    PROVE  /\ Component' = Component /\ IsCyclic' = IsCyclic /\ Past' = Past
           /\ AsSet(Component)' = AsSet(Component) /\ AsSet(Component') = AsSet(Component)
<1>1. Component' = Component /\ IsCyclic' = IsCyclic
  BY DEF Component, IsCyclic
<1>2. \A b : RankOf(b)' = RankOf(b)
  BY RankKept
<1>3. Past' = Past
  BY <1>2, ProgKept DEF Past
<1> QED
  BY <1>1, <1>3 DEF AsSet

LEMMA NewSound ==
    ASSUME SoundInv, InserterNew, pc' = "drain"
    PROVE  \E seg : PassInv(seg)'
<1>1. /\ prog \in Programs /\ GraphRight /\ graph.ready = <<>> /\ IrShape
      /\ succ = prog.succ /\ stmts = SourceStatements
      /\ prog' = prog /\ graph' = graph /\ ir' = ir
      /\ outgoing' = outgoing /\ incoming' = incoming /\ resets' = resets
  BY DEF InserterNew, SoundInv, Shape, AnalysisInv, ir
<1>2. checked = {} /\ leave = 0 /\ outgoing = <<>> /\ incoming = {} /\ resets = {}
  BY DEF SoundInv, InserterNew, NothingYet
<1>3. /\ work'.component = 1 /\ work'.next = 1 /\ work'.states = <<>>
  BY DEF InserterNew
<1>4. /\ Points' = Points /\ SourceBlocks' = SourceBlocks /\ N' = N /\ Blocks' = Blocks
      /\ stmts' = stmts /\ succ' = succ /\ checked' = checked /\ leave' = leave
  BY <1>1, ProgKept DEF ir, Blocks
<1>5. Blocks = SourceBlocks
  BY <1>1 DEF Blocks, SourceBlocks
<1>6. \A b \in Blocks : /\ DOMAIN stmts[b] = DOMAIN prog.body[b] /\ DOMAIN stmts[b] \subseteq Nat
                        /\ Len(stmts[b]) = Len(prog.body[b]) /\ Len(stmts[b]) \in Nat
                        /\ \A i \in DOMAIN stmts[b] : stmts[b][i] = <<b, i>>
  <2> SUFFICES ASSUME NEW b \in Blocks
               PROVE  /\ DOMAIN stmts[b] = DOMAIN prog.body[b] /\ DOMAIN stmts[b] \subseteq Nat
                      /\ Len(stmts[b]) = Len(prog.body[b]) /\ Len(stmts[b]) \in Nat
                      /\ \A i \in DOMAIN stmts[b] : stmts[b][i] = <<b, i>>
    OBVIOUS
  <2>1. stmts[b] = [i \in DOMAIN prog.body[b] |-> <<b, i>>]
    BY <1>1, <1>5 DEF SourceStatements, SourceBlocks
  <2>2. prog.body[b] \in Seq({"safepoint", "other"})
    BY <1>1, <1>5, SourceFacts, SeqFacts
  <2>3. DOMAIN prog.body[b] = 1..Len(prog.body[b]) /\ Len(prog.body[b]) \in Nat
    BY <2>2, SeqFacts
  <2>4. stmts[b] \in Seq(Statements)
    BY <1>1, BlocksFacts
  <2>5. DOMAIN stmts[b] = 1..Len(stmts[b]) /\ Len(stmts[b]) \in Nat
    BY <2>4, SeqFacts
  <2>6. 1..Len(stmts[b]) = 1..Len(prog.body[b])
    BY <2>1, <2>3, <2>5
  <2>7. Len(stmts[b]) = Len(prog.body[b])
    BY <2>3, <2>5, <2>6
  <2> QED
    BY <2>1, <2>3, <2>5, <2>7
<1>7. PICK seg : seg = [b \in SourceBlocks |-> <<b, 0>>]
  OBVIOUS
<1>8. Segments(seg)'
  <2>1. 0 \notin Blocks
    BY <1>1, BlocksFacts
  <2> QED
    BY <1>1, <1>2, <1>4, <1>5, <1>6, <1>7, <2>1 DEF Segments
<1>9. Located'
  <2> DEFINE Ps == UNION {{<<b, i>> : i \in DOMAIN stmts[b]} : b \in Blocks}
             Q == {p \in Ps : IsSafepoint(stmts[p[1]][p[2]])}
             at(s) == CHOOSE p \in Q : stmts[p[1]][p[2]] = s
  <2>1. loc' = [s \in {stmts[p[1]][p[2]] : p \in Q} |-> at(s)]
    BY DEF InserterNew
  <2>2. Ps = Statements
    BY <1>5, <1>6 DEF Statements
  <2>3. \A p \in Ps : stmts[p[1]][p[2]] = p /\ p[1] \in Blocks /\ p[2] \in DOMAIN stmts[p[1]]
                      /\ p = <<p[1], p[2]>>
    BY <1>5, <1>6, <2>2 DEF Statements
  <2> HIDE DEF Ps
  <2>4. Q = Points
    BY <2>2, <2>3 DEF Points
  <2> HIDE DEF Q
  <2>5. \A s \in Points : stmts[s[1]][s[2]] = s /\ s[1] \in Blocks /\ s[2] \in DOMAIN stmts[s[1]]
                          /\ s = <<s[1], s[2]>>
    BY <2>2, <2>3 DEF Points
  <2>6. {stmts[p[1]][p[2]] : p \in Q} = Points
    BY <2>4, <2>5
  <2>7. \A s \in Points : at(s) = s
    BY <2>4, <2>5
  <2>8. \A s \in Points : loc'[s] = s
    <3> HIDE DEF at
    <3> QED
      BY <2>1, <2>6, <2>7
  <2> QED
    BY <1>4, <1>6, <2>5, <2>8 DEF Located
<1>10. Finished' = {} /\ Opened' = {}
  <2>1. \A b \in SourceBlocks : ~(RankOf(b) < 1)
    <3>1. \A b \in SourceBlocks : RankOf(b) \in DOMAIN graph.topo_order
      BY <1>1, RankRight
    <3>2. graph.topo_order \in Seq(DOMAIN graph.components)
      BY <1>1 DEF GraphRight, Sorting
    <3>3. DOMAIN graph.topo_order = 1..Len(graph.topo_order)
      BY <3>2, SeqFacts
    <3> QED
      BY <3>1, <3>3
  <2>2. \A b : RankOf(b)' = RankOf(b)
    BY <1>1, RankKept
  <2>3. Past' = {}
    BY <1>3, <1>4, <2>1, <2>2 DEF Past
  <2> QED
    BY <2>3 DEF Finished, Opened, Inserting
<1>11. MapsRight(seg)' /\ OnlyStarted(seg)' /\ (resets \subseteq Checks)'
  <2>1. DOMAIN outgoing' = {} /\ incoming' = {} /\ resets' = {} /\ checked' = {}
    BY <1>1, <1>2, <1>4
  <2>2. MapsRight(seg)'
    BY <1>10, <2>1 DEF MapsRight
  <2>3. OnlyStarted(seg)'
    BY <1>3, <2>1 DEF OnlyStarted
  <2> QED
    BY <2>1, <2>2, <2>3
<1>12. PICK C : C = [p \in SourceBlocks \X Nat |-> 0]
  OBVIOUS
<1>13. ASSUME NEW X PROVE Bounded(C, X, seg)'
  <2>1. C \in [SourceBlocks \X Nat -> 0..(N - 1)]
    <3>1. N \in Nat \ {0}
      BY <1>1, SourceFacts
    <3>2. 0 \in 0..(N - 1)
      BY <3>1
    <3> QED
      BY <1>12, <3>2
  <2>2. Flows(C, Checks' \cup X, Finished', Opened')
    BY <1>10, <2>1 DEF Flows
  <2>3. DOMAIN outgoing' = {}
    BY <1>1, <1>2
  <2>4. Counted(C, X, seg, Finished', Drained', outgoing', work'.states)
    BY <1>10, <2>3 DEF Counted
  <2>5. BoundedThen(C, X, seg)
    BY <2>2, <2>4 DEF BoundedThen
  <2> QED
    BY <1>1, <2>5, BoundedPrimed
<1>14. \A X \in SUBSET Points' : resets' \subseteq X => \E D : Bounded(D, X, seg)'
  BY <1>13
<1>15. PassInv(seg)'
  BY <1>8, <1>9, <1>11, <1>14 DEF PassInv
<1> QED
  BY <1>15

\* The edges to the block leave the maps, their halt states join the others.
Drains(to, st) ==
    /\ work' = [work EXCEPT !.next = work.next + 1, !.states = st]
    /\ DOMAIN outgoing' = {e \in DOMAIN outgoing : e[2] # to}
    /\ \A e \in DOMAIN outgoing' : outgoing'[e] = outgoing[e]
    /\ incoming' = {e \in incoming : e[1] # to}
    /\ \A i \in DOMAIN work.states : i \in DOMAIN st /\ st[i] = work.states[i]
    /\ \A e \in DOMAIN outgoing : e[2] = to => \E i \in DOMAIN st : st[i] = outgoing[e]
    /\ \A k \in DOMAIN st : \/ \E i \in DOMAIN work.states : st[k] = work.states[i]
                            \/ \E e \in DOMAIN outgoing : st[k] = outgoing[e]

LEMMA DrainEffect ==
    ASSUME Shape, incoming = {<<e[2], e[1]>> : e \in DOMAIN outgoing}, DrainIncoming, pc' = "drain"
    PROVE  \E st : Drains(Component[work.next], st)
<1>1. Inserting
  BY DEF DrainIncoming, Inserting
<1>2. /\ prog \in Programs /\ IrShape /\ OutgoingShape /\ work \in Works /\ IsFiniteSet(Blocks)
  BY <1>1, InsertingFacts, BlocksFacts
<1> DEFINE to == Component[work.next]
           from == {e[2] : e \in {e \in incoming : e[1] = to}}
           drained == {<<f, to>> : f \in from}
<1>3. /\ \A e \in drained : e \in DOMAIN outgoing
      /\ outgoing' = [e \in DOMAIN outgoing \ drained |-> outgoing[e]]
      /\ incoming' = {e \in incoming : e[1] # to}
  BY DEF DrainIncoming
<1>4. PICK order \in Orders(from) :
        work' = [work EXCEPT
                   !.next = @ + 1,
                   !.states = @ \o [i \in DOMAIN order |-> outgoing[<<order[i], to>>]]]
  BY <1>3 DEF DrainIncoming
<1>5. \A e \in DOMAIN outgoing : e = <<e[1], e[2]>> /\ e[1] \in Blocks
  BY <1>2 DEF OutgoingShape
<1> DEFINE goes == {e \in DOMAIN outgoing : e[2] = to}
<1> HIDE DEF to
<1>6. drained = goes /\ \A e \in DOMAIN outgoing : e[2] = to => e[1] \in from
  <2>1. ASSUME NEW e \in DOMAIN outgoing, e[2] = to PROVE e[1] \in from /\ e \in drained
    <3>1. <<e[2], e[1]>> \in incoming
      OBVIOUS
    <3>2. <<e[2], e[1]>>[1] = to /\ <<e[2], e[1]>>[2] = e[1]
      BY <2>1
    <3>3. e[1] \in from
      BY <3>1, <3>2
    <3>4. e = <<e[1], to>>
      BY <1>5, <2>1
    <3> HIDE DEF from
    <3> QED
      BY <3>3, <3>4
  <2>2. ASSUME NEW e \in drained PROVE e \in goes
    BY <1>3, <2>2
  <2> QED
    BY <2>1, <2>2
<1>7. from \subseteq Blocks /\ IsFiniteSet(from)
  <2> HIDE DEF from
  <2>1. \A f \in from : <<f, to>> \in Blocks \X Blocks
    BY <1>2, <1>3 DEF OutgoingShape
  <2>2. from \subseteq Blocks
    BY <2>1
  <2> QED
    BY <1>2, <2>2, FS_Subset
<1> DEFINE new == [i \in DOMAIN order |-> outgoing[<<order[i], to>>]]
           st == work.states \o new
           n == Cardinality(from)
<1>8. /\ n \in Nat /\ DOMAIN order = 1..n /\ \A i \in DOMAIN order : order[i] \in from
      /\ AsSet(order) = from
  BY <1>7, FS_CardinalityType DEF Orders
<1>9. \A i \in DOMAIN order : <<order[i], to>> \in DOMAIN outgoing
  BY <1>3, <1>8
<1>10. new \in Seq(GoodStates) /\ DOMAIN new = 1..n
  <2>1. \A i \in DOMAIN order : outgoing[<<order[i], to>>] \in GoodStates
    BY <1>2, <1>9 DEF OutgoingShape
  <2>2. new \in [1..n -> GoodStates] /\ n \in Nat
    BY <1>8, <2>1
  <2> HIDE DEF new, n
  <2> QED
    BY <2>2
<1>11. work.states \in Seq(GoodStates)
  BY <1>2 DEF Works
<1>12. \A i \in DOMAIN new : new[i] = outgoing[<<order[i], to>>] /\ i \in DOMAIN order
  OBVIOUS
<1> HIDE DEF new
<1>13. /\ \A i \in DOMAIN work.states : i \in DOMAIN st /\ st[i] = work.states[i]
       /\ \A i \in DOMAIN new : Len(work.states) + i \in DOMAIN st /\ st[Len(work.states) + i] = new[i]
       /\ \A k \in DOMAIN st : \/ k \in DOMAIN work.states
                               \/ \E i \in DOMAIN new : k = Len(work.states) + i
  <2>1. new \in Seq(GoodStates) /\ work.states \in Seq(GoodStates)
    BY <1>10, <1>11
  <2> DEFINE old == work.states
             both == old \o new
  <2>2. old \in Seq(GoodStates)
    BY <2>1
  <2> HIDE DEF old
  <2>3. /\ \A i \in DOMAIN old : i \in DOMAIN both /\ both[i] = old[i]
        /\ \A i \in DOMAIN new : Len(old) + i \in DOMAIN both /\ both[Len(old) + i] = new[i]
        /\ \A k \in DOMAIN both : k \in DOMAIN old \/ \E i \in DOMAIN new : k = Len(old) + i
    BY <2>1, <2>2, Concatenated
  <2> QED
    BY <2>3 DEF old
<1> HIDE DEF st, from, drained, n
<1>14. ASSUME NEW e \in DOMAIN outgoing, e[2] = to PROVE \E i \in DOMAIN st : st[i] = outgoing[e]
  <2>1. PICK i \in DOMAIN order : order[i] = e[1]
    BY <1>6, <1>8, <1>14 DEF AsSet
  <2>2. e = <<order[i], to>>
    BY <1>5, <1>14, <2>1
  <2>3. i \in DOMAIN new /\ new[i] = outgoing[e]
    BY <1>8, <1>10, <1>12, <2>2
  <2> QED
    BY <1>13, <2>3
<1>15. ASSUME NEW k \in DOMAIN st
       PROVE  \/ \E i \in DOMAIN work.states : st[k] = work.states[i]
              \/ \E e \in DOMAIN outgoing : st[k] = outgoing[e]
  <2>1. CASE k \in DOMAIN work.states
    BY <1>13, <2>1
  <2>2. CASE \E i \in DOMAIN new : k = Len(work.states) + i
    <3>1. PICK i \in DOMAIN new : k = Len(work.states) + i
      BY <2>2
    <3>2. st[k] = outgoing[<<order[i], to>>] /\ <<order[i], to>> \in DOMAIN outgoing
      BY <1>9, <1>12, <1>13, <3>1
    <3> QED
      BY <3>2
  <2> QED
    BY <1>13, <2>1, <2>2
<1>16. DOMAIN outgoing' = {e \in DOMAIN outgoing : e[2] # to}
       /\ \A e \in DOMAIN outgoing' : outgoing'[e] = outgoing[e]
  BY <1>3, <1>6
<1>17. work' = [work EXCEPT !.next = work.next + 1, !.states = st]
  BY <1>4 DEF st, new
<1> QED
  BY <1>3, <1>13, <1>14, <1>15, <1>16, <1>17 DEF Drains, to

LEMMA DrainSound ==
    ASSUME SoundInv, DrainIncoming, pc' = "drain"
    PROVE  \E seg : PassInv(seg)'
<1>1. /\ pc = "drain" /\ prog' = prog /\ graph' = graph /\ ir' = ir /\ loc' = loc /\ resets' = resets
      /\ work.next <= Len(Component)
  BY DEF DrainIncoming
<1>2. Inserting
  BY <1>1 DEF Inserting
<1>3. PICK seg : PassInv(seg)
  BY <1>2 DEF SoundInv
<1>4. /\ Segments(seg) /\ Located /\ MapsRight(seg) /\ OnlyStarted(seg) /\ resets \subseteq Checks
      /\ Shape
  BY <1>3 DEF PassInv, SoundInv
<1> DEFINE to == Component[work.next]
<1>5. PICK st : Drains(to, st)
  BY <1>1, <1>4, DrainEffect DEF MapsRight
<1>6. /\ work \in Works /\ Len(Component) \in Nat \ {0} /\ DOMAIN Component = 1..Len(Component)
      /\ work.next \in DOMAIN Component /\ work.next \in Nat
  BY <1>1, <1>2, <1>4, InsertingFacts DEF Works
<1> DEFINE nx == work.next + 1
<1>7. work'.component = work.component /\ work'.next = nx /\ work'.states = st
  <2>1. work' = [work EXCEPT !.next = nx, !.states = st]
    BY <1>5 DEF Drains
  <2> HIDE DEF nx
  <2> QED
    BY <1>6, <2>1 DEF Works
<1>8. Component' = Component /\ Past' = Past
  BY <1>1, <1>7, ComponentKept
<1>9. /\ Finished = Past /\ Opened = Past /\ Finished' = Past /\ Opened' = Past
      /\ Drained' = Drained \cup {to}
  <2>1. Inserting' /\ pc' # "blocks"
    BY DEF Inserting
  <2>2. Finished = Past /\ Opened = Past /\ Finished' = Past /\ Opened' = Past
    BY <1>1, <1>2, <1>8, <2>1 DEF Finished, Opened
  <2>3. {i \in DOMAIN Component : i < nx} = {i \in DOMAIN Component : i < work.next} \cup {work.next}
    BY <1>6
  <2>4. Drained' = {Component[j] : j \in {i \in DOMAIN Component : i < nx}}
    BY <1>7, <1>8 DEF Drained
  <2>5. Drained = {Component[j] : j \in {i \in DOMAIN Component : i < work.next}}
    BY <1>1 DEF Drained
  <2> QED
    BY <2>2, <2>3, <2>4, <2>5
<1>10. to \notin Past
  <2>1. Ranked
    BY <1>2, <1>4, Ranking
  <2>2. to \in SourceBlocks /\ RankOf(to) = work.component /\ work.component \in Nat
    BY <1>6, <2>1 DEF Ranked, AsSet, Works
  <2> QED
    BY <2>2 DEF Past
<1>11. Segments(seg)' /\ Located' /\ Checks' = Checks
  BY <1>1, <1>4, LayoutKept
<1>12. succ' = succ /\ checked' = checked /\ leave' = leave /\ Blocks' = Blocks
  BY <1>1 DEF ir, Blocks
<1>13. /\ DOMAIN outgoing' = {e \in DOMAIN outgoing : e[2] # to}
       /\ \A e \in DOMAIN outgoing' : outgoing'[e] = outgoing[e]
       /\ incoming' = {e \in incoming : e[1] # to}
       /\ \A i \in DOMAIN work.states : i \in DOMAIN st /\ st[i] = work.states[i]
       /\ \A e \in DOMAIN outgoing : e[2] = to => \E i \in DOMAIN st : st[i] = outgoing[e]
       /\ \A k \in DOMAIN st : \/ \E i \in DOMAIN work.states : st[k] = work.states[i]
                               \/ \E e \in DOMAIN outgoing : st[k] = outgoing[e]
  BY <1>5 DEF Drains
<1> HIDE DEF to, nx
<1>14. /\ incoming = {<<e[2], e[1]>> : e \in DOMAIN outgoing}
       /\ \A e \in DOMAIN outgoing :
             /\ e[1] \in Blocks \ ({leave} \cup checked) /\ seg[e[1]][1] \in Past
             /\ e[2] \in AsSet(succ[e[1]]) /\ e[2] \notin Past \cup Drained
       /\ \A b \in Past : \A c \in AsSet(prog.succ[b]) :
             c \in Past \cup Drained
             \/ \E e \in DOMAIN outgoing : seg[e[1]][1] = b /\ e[2] = c
  BY <1>4, <1>9 DEF MapsRight
<1>15. MapsRight(seg)'
  <2>1. incoming' = {<<e[2], e[1]>> : e \in DOMAIN outgoing'}
    BY <1>13, <1>14
  <2>2. \A e \in DOMAIN outgoing' :
             /\ e[1] \in Blocks \ ({leave} \cup checked) /\ seg[e[1]][1] \in Past
             /\ e[2] \in AsSet(succ[e[1]]) /\ e[2] \notin Past \cup Drained'
    BY <1>9, <1>13, <1>14
  <2>3. \A b \in Past : \A c \in AsSet(prog.succ[b]) :
             c \in Past \cup Drained'
             \/ \E e \in DOMAIN outgoing' : seg[e[1]][1] = b /\ e[2] = c
    BY <1>9, <1>13, <1>14
  <2> QED
    BY <1>1, <1>9, <1>12, <2>1, <2>2, <2>3 DEF MapsRight, AsSet
<1>16. OnlyStarted(seg)'
  <2>1. /\ \A e \in DOMAIN outgoing : Remembers(outgoing[e], Past)
        /\ \A i \in DOMAIN work.states : Remembers(work.states[i], Past)
        /\ \A b \in checked : seg[b][1] \in Past
    BY <1>1, <1>4, <1>9 DEF OnlyStarted, Started
  <2>2. /\ \A e \in DOMAIN outgoing' : Remembers(outgoing'[e], Past)
        /\ \A i \in DOMAIN st : Remembers(st[i], Past)
    BY <1>13, <2>1
  <2>3. Started' = Past
    BY <1>9 DEF Started
  <2> QED
    BY <1>7, <1>9, <1>12, <2>1, <2>2, <2>3 DEF OnlyStarted, Remembers
<1>17. ASSUME NEW X \in SUBSET Points, resets \subseteq X PROVE \E C : Bounded(C, X, seg)'
  <2>1. PICK C : Bounded(C, X, seg)
    BY <1>3, <1>17 DEF PassInv
  <2>2. Flows(C, Checks \cup X, Past, Past)
    BY <1>9, <2>1 DEF Bounded
  <2>3. /\ \A e \in DOMAIN outgoing : AtEnd(C, seg[e[1]][1]) <= Room(outgoing[e], X)
        /\ \A b \in Past : \A c \in AsSet(prog.succ[b]) :
              c \in Drained => \E i \in DOMAIN work.states : AtEnd(C, b) <= Room(work.states[i], X)
    BY <1>9, <2>1 DEF Bounded, Counted
  <2>4. ASSUME NEW b \in Past, NEW c \in AsSet(prog.succ[b]), c \in Drained'
        PROVE  \E i \in DOMAIN st : AtEnd(C, b) <= Room(st[i], X)
    <3>1. CASE c \in Drained
      BY <1>13, <2>3, <3>1
    <3>2. CASE c \notin Drained
      <4>1. c = to
        BY <1>9, <2>4, <3>2
      <4>2. PICK e \in DOMAIN outgoing : seg[e[1]][1] = b /\ e[2] = to
        BY <1>10, <1>14, <3>2, <4>1
      <4>3. PICK i \in DOMAIN st : st[i] = outgoing[e]
        BY <1>13, <4>2
      <4>4. AtEnd(C, b) <= Room(st[i], X)
        BY <2>3, <4>2, <4>3
      <4> QED
        BY <4>4
    <3> QED
      BY <3>1, <3>2
  <2>5. Counted(C, X, seg, Past, Drained', outgoing', st)
    BY <1>13, <2>3, <2>4 DEF Counted
  <2>6. BoundedThen(C, X, seg)
    BY <1>7, <1>9, <1>11, <2>2, <2>5 DEF BoundedThen
  <2>7. Bounded(C, X, seg)'
    BY <1>1, <2>6, BoundedPrimed
  <2> QED
    BY <2>7
<1>18. PassInv(seg)'
  <2>1. Points' = Points
    BY <1>1, ProgKept
  <2>2. resets' \subseteq Checks'
    BY <1>1, <1>4, <1>11
  <2> QED
    BY <1>1, <1>11, <1>15, <1>16, <1>17, <2>1, <2>2 DEF PassInv
<1> QED
  BY <1>18

\* The maps and the representation are the same.
Untouched == prog' = prog /\ graph' = graph /\ ir' = ir /\ inserter' = inserter

\* The states s stands for, which are drained, leave no less room than s.
Covers(s) ==
    /\ s \in GoodStates /\ Remembers(s, Past)
    /\ \A X \in SUBSET Points : resets \subseteq X =>
          \A i \in DOMAIN work.states : Room(work.states[i], X) <= Room(s, X)

LEMMA StartSound ==
    ASSUME SoundInv, pc \in {"drain", "compensate"}, Drained = AsSet(Component), Untouched,
           pc' = "blocks", NEW s, Covers(s), work' = StartBlocks(work, s)
    PROVE  \E seg : PassInv(seg)'
<1>1. Inserting /\ prog' = prog /\ graph' = graph /\ ir' = ir /\ inserter' = inserter
  BY DEF Untouched, Inserting
<1>2. PICK seg : PassInv(seg)
  BY <1>1 DEF SoundInv
<1>3. /\ Segments(seg) /\ Located /\ MapsRight(seg) /\ OnlyStarted(seg) /\ resets \subseteq Checks
      /\ Shape
  BY <1>2 DEF PassInv, SoundInv
<1>4. /\ prog \in Programs /\ IrShape
      /\ work \in Works /\ Len(Component) \in Nat \ {0} /\ DOMAIN Component = 1..Len(Component)
      /\ OutgoingShape
  BY <1>1, <1>3, InsertingFacts
<1> DEFINE first == Component[1]
           members == AsSet(Component)
<1>5. /\ work'.component = work.component /\ work'.next = 1 /\ work'.states = <<>>
      /\ work'.state = s /\ work'.block = first /\ work'.index = 1 /\ work'.seen = FALSE
  BY <1>4 DEF StartBlocks, Works
<1>6. Component' = Component /\ Past' = Past /\ IsCyclic' = IsCyclic /\ AsSet(Component') = members
  BY <1>1, <1>5, ComponentKept
<1>7. Ranked
  BY <1>1, <1>3, Ranking
<1>8. /\ first \in members /\ members \subseteq SourceBlocks /\ members \cap Past = {}
      /\ Past \subseteq SourceBlocks
  <2>1. 1 \in DOMAIN Component
    BY <1>4
  <2>2. first \in members
    BY <2>1 DEF AsSet
  <2>3. \A b \in members : b \in SourceBlocks /\ RankOf(b) = work.component
    BY <1>7 DEF Ranked
  <2>4. work.component \in Nat
    BY <1>4 DEF Works
  <2> HIDE DEF members, first
  <2> QED
    BY <2>2, <2>3, <2>4 DEF Past
<1>9. /\ Finished = Past /\ Opened = Past /\ Drained = members /\ Started = Past
      /\ Finished' = Past /\ Opened' = Past \cup members /\ Drained' = {} /\ Current' = first
      /\ Started' = Past \cup {first}
  <2>1. Finished = Past /\ Opened = Past /\ Started = Past
    BY <1>1 DEF Finished, Opened, Started
  <2>2. {i \in DOMAIN Component : i < 1} = {}
    BY <1>4
  <2>3. Finished' = Past
    BY <1>5, <1>6, <2>2 DEF Finished
  <2>4. Opened' = Past \cup members /\ Drained' = {}
    BY <1>6 DEF Opened, Drained
  <2>5. Current' = first
    BY <1>5, <1>6 DEF Current
  <2> QED
    BY <2>1, <2>3, <2>4, <2>5 DEF Started
<1> HIDE DEF members, first
<1>10. Segments(seg)' /\ Located' /\ Checks' = Checks
  BY <1>1, <1>3, LayoutKept DEF inserter
<1>11. /\ succ' = succ /\ checked' = checked /\ leave' = leave /\ Blocks' = Blocks /\ stmts' = stmts
       /\ outgoing' = outgoing /\ incoming' = incoming /\ resets' = resets
  BY <1>1 DEF ir, Blocks, inserter
<1>12. MapsRight(seg)'
  <2>1. Opened' \cup Drained' = Opened \cup Drained
    BY <1>9
  <2> QED
    BY <1>1, <1>3, <1>9, <1>11, <2>1 DEF MapsRight, AsSet
<1>13. first \notin checked \cup {leave} /\ seg[first] = <<first, 0>> /\ first \in Blocks
  <2>1. first # leave /\ seg[first] = <<first, 0>> /\ first \in Blocks
    BY <1>3, <1>4, <1>8, BlocksFacts DEF Segments
  <2>2. \A b \in checked : seg[b][1] \in Past
    BY <1>3, <1>9 DEF OnlyStarted
  <2> QED
    BY <1>8, <2>1, <2>2
<1>14. OnlyStarted(seg)'
  <2>1. /\ \A e \in DOMAIN outgoing : Remembers(outgoing[e], Past)
        /\ \A b \in checked : seg[b][1] \in Past
    BY <1>3, <1>9 DEF OnlyStarted
  <2>2. Remembers(s, Past \cup {first})
    BY DEF Covers, Remembers
  <2>3. Len(stmts[first]) \in Nat
    BY <1>4, <1>13, BlocksFacts, SeqFacts
  <2>4. 1 <= Len(stmts[first]) + 1
    BY <2>3
  <2> QED
    BY <1>5, <1>9, <1>11, <1>13, <2>1, <2>2, <2>4 DEF OnlyStarted, Remembers
<1>15. ASSUME NEW X \in SUBSET Points, resets \subseteq X PROVE \E C : Bounded(C, X, seg)'
  <2>1. PICK C : Bounded(C, X, seg)
    BY <1>2, <1>15 DEF PassInv
  <2> DEFINE v == IF IsCyclic THEN N - s.remaining ELSE Room(s, X)
             Y == Checks \cup X
  <2>2. /\ Flows(C, Y, Past, Past)
        /\ \A e \in DOMAIN outgoing : AtEnd(C, seg[e[1]][1]) <= Room(outgoing[e], X)
        /\ \A b \in Past : \A c \in AsSet(prog.succ[b]) :
              c \in members => \E i \in DOMAIN work.states : AtEnd(C, b) <= Room(work.states[i], X)
    BY <1>9, <2>1 DEF Bounded, Counted
  <2>3. /\ N \in Nat \ {0} /\ s.remaining \in 1..N /\ Room(s, X) \in 0..(N - 1)
        /\ Room(s, X) <= N - s.remaining
    BY <1>4, StateFacts, RoomType DEF Covers
  <2>4. v \in 0..(N - 1) /\ Room(s, X) <= v
    BY <2>3
  <2> HIDE DEF v
  <2>5. PICK G : G = [p \in SourceBlocks \X Nat |-> IF p[1] \in members /\ p[2] = 0 THEN v ELSE C[p]]
    OBVIOUS
  <2>6. C \in Bounds
    BY <2>2 DEF Flows, Bounds
  <2>7. /\ G \in Bounds /\ \A c \in members : G[<<c, 0>>] = v
        /\ \A b \in Past : \A k \in Nat : G[<<b, k>>] = C[<<b, k>>]
    <3>1. G \in Bounds
      BY <2>4, <2>5, <2>6 DEF Bounds
    <3>2. \A c \in members : <<c, 0>> \in SourceBlocks \X Nat
      BY <1>8
    <3>3. \A b \in Past : \A k \in Nat : <<b, k>> \in SourceBlocks \X Nat /\ b \notin members
      BY <1>8
    <3> QED
      BY <2>5, <3>1, <3>2, <3>3
  <2>8. \A b \in Past : Len(prog.body[b]) \in Nat
    BY <1>1, <1>3, <1>8, SetFacts
  <2>9. Flows(G, Y, Past, Past) /\ \A b \in Past : AtEnd(G, b) = AtEnd(C, b)
    <3>1. \A c \in Past : G[<<c, 0>>] = C[<<c, 0>>]
      BY <2>7
    <3> HIDE DEF Y
    <3> QED
      BY <2>2, <2>7, <2>8, <3>1, FlowsAgree
  <2>10. ASSUME NEW b \in Past, NEW c \in AsSet(prog.succ[b]), c \in members
         PROVE  AtEnd(G, b) <= G[<<c, 0>>]
    <3>1. PICK i \in DOMAIN work.states : AtEnd(C, b) <= Room(work.states[i], X)
      BY <2>2, <2>10
    <3>2. Room(work.states[i], X) <= Room(s, X)
      BY <1>15 DEF Covers
    <3>3. Room(work.states[i], X) \in 0..(N - 1)
      <4>1. work.states[i] \in GoodStates
        BY <1>4, SeqFacts DEF Works
      <4> QED
        BY <1>4, <4>1, RoomType
    <3>4. AtEnd(C, b) \in 0..(N - 1)
      <4>1. <<b, Len(prog.body[b])>> \in SourceBlocks \X Nat
        BY <1>8, <2>8
      <4> QED
        BY <2>6, <4>1 DEF AtEnd, Bounds
    <3>5. AtEnd(C, b) <= v
      BY <2>3, <2>4, <3>1, <3>2, <3>3, <3>4
    <3> QED
      BY <2>7, <2>9, <2>10, <3>5
  <2>11. Flows(G, Y, Past, Past \cup members)
    <3> HIDE DEF Y
    <3> QED
      BY <2>9, <2>10, FlowsOpen
  <2>12. Counted(G, X, seg, Past, {}, outgoing, <<>>)
    <3>1. \A e \in DOMAIN outgoing : seg[e[1]][1] \in Past
      BY <1>3, <1>9 DEF MapsRight
    <3> QED
      BY <2>2, <2>9, <3>1 DEF Counted
  <2>13. Here(G, X, Y, first, 0, IsCyclic, members, s, FALSE)
    <3>1. Rises(G, Y, first, 0)
      BY DEF Rises
    <3>2. G[<<first, 0>>] = v
      BY <1>8, <2>7
    <3>3. CASE IsCyclic
      <4>1. v = N - s.remaining
        BY <3>3 DEF v
      <4>2. N - s.remaining <= N - s.remaining
        BY <2>3
      <4> QED
        BY <2>7, <3>1, <3>2, <3>3, <4>1, <4>2 DEF Here
    <3>4. CASE ~IsCyclic
      <4>1. v = Room(s, X) /\ Room(s, X) <= Room(s, X)
        BY <2>3, <3>4 DEF v
      <4> QED
        BY <3>1, <3>2, <3>4, <4>1 DEF Here
    <3> QED
      BY <3>3, <3>4
  <2>14. seg[work'.block][2] + work'.index - 1 = 0
    BY <1>5, <1>13
  <2>15. BoundedThen(G, X, seg)
    BY <1>5, <1>6, <1>9, <1>10, <1>11, <2>11, <2>12, <2>13, <2>14 DEF BoundedThen
  <2>16. Bounded(G, X, seg)'
    BY <1>1, <2>15, BoundedPrimed
  <2> QED
    BY <2>16
<1>16. PassInv(seg)'
  <2>1. Points' = Points
    BY <1>1, ProgKept
  <2>2. resets' \subseteq Checks'
    BY <1>3, <1>10, <1>11
  <2> QED
    BY <1>10, <1>11, <1>12, <1>14, <1>15, <2>1, <2>2 DEF PassInv
<1> QED
  BY <1>16

\* The drained states are replaced by ones that stand for the same.
SameRoom(st) ==
    /\ DOMAIN st = DOMAIN work.states
    /\ \A i \in DOMAIN work.states :
          /\ Remembers(st[i], Past)
          /\ \A X \in SUBSET Points : resets' \subseteq X => Room(st[i], X) = Room(work.states[i], X)

LEMMA StatesSound ==
    ASSUME SoundInv, pc \in {"drain", "compensate"}, Drained = AsSet(Component), Untouched,
           pc' = "compensate", work'.component = work.component, SameRoom(work'.states)
    PROVE  \E seg : PassInv(seg)'
<1>1. Inserting /\ prog' = prog /\ graph' = graph /\ ir' = ir /\ inserter' = inserter
  BY DEF Untouched, Inserting
<1>2. PICK seg : PassInv(seg)
  BY <1>1 DEF SoundInv
<1>3. /\ Segments(seg) /\ Located /\ MapsRight(seg) /\ OnlyStarted(seg) /\ resets \subseteq Checks
      /\ Shape
  BY <1>2 DEF PassInv, SoundInv
<1>4. Component' = Component /\ Past' = Past /\ AsSet(Component') = AsSet(Component)
  BY <1>1, ComponentKept
<1>5. /\ Finished = Past /\ Opened = Past /\ Started = Past
      /\ Finished' = Past /\ Opened' = Past /\ Drained' = Drained /\ Started' = Past
  <2>1. Finished = Past /\ Opened = Past /\ Started = Past
    BY <1>1 DEF Finished, Opened, Started
  <2>2. Finished' = Past /\ Opened' = Past /\ Drained' = Drained
    BY <1>4 DEF Finished, Opened, Drained, Inserting
  <2> QED
    BY <2>1, <2>2 DEF Started
<1>6. Segments(seg)' /\ Located' /\ Checks' = Checks
  BY <1>1, <1>3, LayoutKept DEF inserter
<1>7. /\ succ' = succ /\ checked' = checked /\ leave' = leave /\ Blocks' = Blocks /\ stmts' = stmts
      /\ outgoing' = outgoing /\ incoming' = incoming /\ resets' = resets
  BY <1>1 DEF ir, Blocks, inserter
<1>8. MapsRight(seg)'
  BY <1>1, <1>3, <1>5, <1>7 DEF MapsRight, AsSet
<1>9. /\ DOMAIN work'.states = DOMAIN work.states
      /\ \A i \in DOMAIN work.states :
            /\ Remembers(work'.states[i], Past)
            /\ \A X \in SUBSET Points : resets \subseteq X =>
                  Room(work'.states[i], X) = Room(work.states[i], X)
  BY <1>7 DEF SameRoom
<1>10. OnlyStarted(seg)'
  BY <1>3, <1>5, <1>7, <1>9 DEF OnlyStarted, Remembers
<1>11. ASSUME NEW X \in SUBSET Points, resets \subseteq X PROVE \E C : Bounded(C, X, seg)'
  <2>1. PICK C : Bounded(C, X, seg)
    BY <1>2, <1>11 DEF PassInv
  <2>2. Flows(C, Checks \cup X, Past, Past) /\ Counted(C, X, seg, Past, Drained, outgoing, work.states)
    BY <1>5, <2>1 DEF Bounded
  <2>3. Counted(C, X, seg, Past, Drained, outgoing, work'.states)
    BY <1>9, <1>11, <2>2 DEF Counted
  <2>4. BoundedThen(C, X, seg)
    BY <1>5, <1>6, <1>7, <2>2, <2>3 DEF BoundedThen
  <2>5. Bounded(C, X, seg)'
    BY <1>1, <2>4, BoundedPrimed
  <2> QED
    BY <2>5
<1>12. PassInv(seg)'
  <2>1. Points' = Points
    BY <1>1, ProgKept
  <2>2. resets' \subseteq Checks'
    BY <1>3, <1>6, <1>7
  <2> QED
    BY <1>6, <1>7, <1>8, <1>10, <1>11, <2>1, <2>2 DEF PassInv
<1> QED
  BY <1>12

\* The drained states remember finished blocks.
LEMMA DrainedFacts ==
    ASSUME SoundInv, pc \in {"drain", "compensate"}
    PROVE  /\ Inserting /\ Shape /\ prog \in Programs /\ work \in Works /\ work.states \in Seq(GoodStates)
           /\ \A i \in DOMAIN work.states : work.states[i] \in GoodStates /\ Remembers(work.states[i], Past)
           /\ pc = "drain" /\ work.next > Len(Component) => Drained = AsSet(Component)
           /\ pc = "compensate" => Drained = AsSet(Component)
<1>1. Inserting /\ Shape
  BY DEF SoundInv, Inserting
<1>2. PICK seg : PassInv(seg)
  BY <1>1 DEF SoundInv
<1>3. /\ prog \in Programs /\ work \in Works /\ DOMAIN Component = 1..Len(Component)
      /\ Len(Component) \in Nat /\ work.states \in Seq(GoodStates) /\ work.next \in Nat
  BY <1>1, InsertingFacts DEF Works
<1>4. \A i \in DOMAIN work.states : work.states[i] \in GoodStates
  BY <1>3, SeqFacts
<1>5. Finished = Past
  BY <1>1 DEF Finished
<1>6. \A i \in DOMAIN work.states : Remembers(work.states[i], Past)
  BY <1>2, <1>5 DEF PassInv, OnlyStarted
<1>7. pc = "compensate" => Drained = AsSet(Component)
  BY DEF Drained
<1>8. ASSUME pc = "drain", work.next > Len(Component) PROVE Drained = AsSet(Component)
  <2>1. {i \in DOMAIN Component : i < work.next} = DOMAIN Component
    BY <1>3, <1>8
  <2> QED
    BY <1>8, <2>1 DEF Drained, AsSet
<1> QED
  BY <1>1, <1>3, <1>4, <1>6, <1>7, <1>8

LEMMA FullRemembers ==
    ASSUME NEW r, NEW S
    PROVE  Remembers(from_remaining(r), S)
<1>1. from_remaining(r).suffix = <<>>
  BY DEF from_remaining
<1>2. DOMAIN from_remaining(r).suffix = {}
  BY <1>1
<1> QED
  BY <1>2 DEF Remembers

\* A state without a suffix that has no more left than the drained ones.
LEMMA FullCovers ==
    ASSUME SoundInv, pc \in {"drain", "compensate"}, NEW r \in 1..N,
           \A i \in DOMAIN work.states : r <= canonicalize(work.states[i], resets).remaining
    PROVE  Covers(from_remaining(r))
<1>1. prog \in Programs /\ \A i \in DOMAIN work.states : work.states[i] \in GoodStates
  BY DrainedFacts
<1>2. from_remaining(r) \in GoodStates /\ Remembers(from_remaining(r), Past)
  BY <1>1, FullState, FullRemembers
<1>3. ASSUME NEW X, resets \subseteq X, NEW i \in DOMAIN work.states
      PROVE  Room(work.states[i], X) <= Room(from_remaining(r), X)
  <2> DEFINE s == work.states[i]
             t == canonicalize(s, resets)
  <2>1. s \in GoodStates
    BY <1>1
  <2>2. t \in GoodStates /\ Room(t, X) = Room(s, X)
    BY <1>1, <1>3, <2>1, Canonicalized, RoomAgain
  <2>3. r <= t.remaining
    OBVIOUS
  <2> HIDE DEF t
  <2>4. Room(t, X) \in 0..(N - 1) /\ Room(t, X) <= N - t.remaining /\ t.remaining \in 1..N /\ N \in Nat
    BY <1>1, <2>2, RoomType, StateFacts
  <2>5. Room(from_remaining(r), X) = N - r
    BY <1>1, RoomFull
  <2> QED
    BY <2>2, <2>3, <2>4, <2>5
<1> QED
  BY <1>2, <1>3 DEF Covers

LEMMA MergeSound ==
    ASSUME SoundInv, MergeHaltStates
    PROVE  \E seg : PassInv(seg)'
<1>1. pc = "drain" /\ pc \in {"drain", "compensate"} /\ work.next > Len(Component) /\ Untouched
  BY DEF MergeHaltStates, Untouched
<1>2. /\ prog \in Programs /\ work \in Works /\ work.states \in Seq(GoodStates)
      /\ \A i \in DOMAIN work.states : work.states[i] \in GoodStates /\ Remembers(work.states[i], Past)
      /\ Drained = AsSet(Component)
  BY <1>1, DrainedFacts
<1>3. N \in Nat \ {0} /\ resets' = resets
  BY <1>1, <1>2, SourceFacts DEF Untouched, inserter
<1> DEFINE states == [i \in DOMAIN work.states |-> canonicalize(work.states[i], resets)]
           all == {states[i].remaining : i \in DOMAIN states}
           lo == CHOOSE r \in all : \A q \in all : r <= q
           hi == CHOOSE r \in all : \A q \in all : q <= r
<1>4. /\ DOMAIN states = DOMAIN work.states
      /\ \A i \in DOMAIN work.states : /\ states[i] = canonicalize(work.states[i], resets)
                                       /\ states[i] \in GoodStates /\ Remembers(states[i], Past)
  BY <1>2, Canonicalized, StillRemembers
<1>5. \A i \in DOMAIN work.states : \A X : resets \subseteq X => Room(states[i], X) = Room(work.states[i], X)
  <2> SUFFICES ASSUME NEW i \in DOMAIN work.states, NEW X, resets \subseteq X
               PROVE  Room(states[i], X) = Room(work.states[i], X)
    OBVIOUS
  <2> DEFINE s == work.states[i]
  <2>1. s \in GoodStates /\ states[i] = canonicalize(s, resets)
    BY <1>2, <1>4
  <2> HIDE DEF s, states
  <2>2. Room(canonicalize(s, resets), X) = Room(s, X)
    BY <1>2, <2>1, RoomAgain
  <2> QED
    BY <2>1, <2>2 DEF s
<1>6. DOMAIN work.states = 1..Len(work.states) /\ Len(work.states) \in Nat
  BY <1>2, SeqFacts
<1>7. Len(states) = Len(work.states)
  <2>1. states \in [1..Len(work.states) -> GoodStates]
    BY <1>4, <1>6
  <2> HIDE DEF states
  <2> QED
    BY <1>6, <2>1
<1> HIDE DEF states
<1> DEFINE full == from_remaining(N)
           low == from_remaining(lo)
<1>8. \/ pc' = "blocks" /\ Len(states) = 0 /\ work' = StartBlocks(work, full)
      \/ pc' = "blocks" /\ Len(states) = 1 /\ work' = StartBlocks(work, states[1])
      \/ /\ pc' = "compensate" /\ Len(states) # 0
         /\ work' = [work EXCEPT !.states = states, !.fixed = 1, !.target = hi]
      \/ pc' = "blocks" /\ Len(states) # 0 /\ work' = StartBlocks(work, low)
  BY Zenon DEF MergeHaltStates, states, all, lo, hi, full, low
<1>9. CASE pc' = "blocks" /\ Len(states) = 0 /\ work' = StartBlocks(work, full)
  <2>1. DOMAIN work.states = {}
    BY <1>6, <1>7, <1>9
  <2>2. Covers(full)
    BY <1>1, <1>3, <2>1, FullCovers
  <2> HIDE DEF full
  <2> QED
    BY <1>1, <1>2, <1>9, <2>2, StartSound
<1>10. CASE pc' = "blocks" /\ Len(states) = 1 /\ work' = StartBlocks(work, states[1])
  <2> DEFINE t == states[1]
  <2>1. DOMAIN work.states = {1}
    BY <1>6, <1>7, <1>10
  <2>2. t \in GoodStates /\ Remembers(t, Past)
    BY <1>4, <2>1
  <2>3. ASSUME NEW X, resets \subseteq X, NEW i \in DOMAIN work.states
        PROVE  Room(work.states[i], X) <= Room(t, X)
    <3>1. Room(t, X) = Room(work.states[i], X)
      BY <1>5, <2>1, <2>3
    <3>2. Room(t, X) \in 0..(N - 1)
      <4> HIDE DEF t
      <4> QED
        BY <1>2, <2>2, RoomType
    <3> QED
      BY <1>3, <3>1, <3>2
  <2>4. Covers(t)
    BY <2>2, <2>3 DEF Covers
  <2>5. work' = StartBlocks(work, t) /\ pc' = "blocks"
    BY <1>10
  <2> HIDE DEF t
  <2> QED
    BY <1>1, <1>2, <2>4, <2>5, StartSound
<1>11. CASE /\ pc' = "compensate" /\ Len(states) # 0
            /\ work' = [work EXCEPT !.states = states, !.fixed = 1, !.target = hi]
  <2> HIDE DEF hi
  <2>1. work'.states = states /\ work'.component = work.component
    BY <1>2, <1>11 DEF Works
  <2>2. SameRoom(work'.states)
    BY <1>3, <1>4, <1>5, <2>1 DEF SameRoom
  <2> QED
    BY <1>1, <1>2, <1>11, <2>1, <2>2, StatesSound
<1>12. CASE pc' = "blocks" /\ Len(states) # 0 /\ work' = StartBlocks(work, low)
  <2>1. 1 \in DOMAIN states
    BY <1>4, <1>6, <1>7, <1>12
  <2>2. all \in SUBSET (1..N) /\ all # {}
    BY <1>4, <2>1 DEF GoodStates
  <2>3. \A i \in DOMAIN work.states : states[i].remaining \in all
    BY <1>4
  <2> HIDE DEF all
  <2>4. all \in SUBSET Nat
    BY <1>3, <2>2
  <2>5. lo \in all /\ \A q \in all : lo <= q
    BY <2>2, <2>4, Least
  <2> HIDE DEF lo
  <2>6. lo \in 1..N
    BY <2>2, <2>5
  <2>7. \A i \in DOMAIN work.states : lo <= canonicalize(work.states[i], resets).remaining
    BY <1>4, <2>3, <2>5
  <2>8. Covers(low)
    BY <1>1, <2>6, <2>7, FullCovers
  <2> HIDE DEF low
  <2> QED
    BY <1>1, <1>2, <1>12, <2>8, StartSound
<1> HIDE DEF full, low
<1> QED
  BY <1>8, <1>9, <1>10, <1>11, <1>12

LEMMA NormalizedSound ==
    ASSUME SoundInv, MergeNormalized, pc' = "blocks"
    PROVE  \E seg : PassInv(seg)'
<1>1. /\ pc = "compensate" /\ pc \in {"drain", "compensate"} /\ Untouched
      /\ work' = StartBlocks(work, from_remaining(work.target))
      /\ \A i \in DOMAIN work.states : work.states[i].remaining >= work.target
  BY DEF MergeNormalized, Untouched
<1>2. /\ prog \in Programs /\ Shape /\ Inserting /\ Drained = AsSet(Component)
      /\ \A i \in DOMAIN work.states : work.states[i] \in GoodStates
  BY <1>1, DrainedFacts
<1>3. work.target \in 1..N
  BY <1>1, <1>2 DEF Shape, WorkShape
<1>4. ASSUME NEW i \in DOMAIN work.states
      PROVE  work.target <= canonicalize(work.states[i], resets).remaining
  <2> DEFINE s == work.states[i]
             t == canonicalize(s, resets)
  <2>1. s \in GoodStates /\ s.remaining >= work.target
    BY <1>1, <1>2
  <2> HIDE DEF s
  <2>2. t \in GoodStates
    BY <1>2, <2>1, Canonicalized
  <2>3. s.remaining \in 1..N /\ N \in Nat
    BY <1>2, <2>1, StateFacts
  <2>4. Room(s, resets) <= N - s.remaining
    BY <1>2, <2>1, RoomType
  <2>5. Room(s, resets) = N - t.remaining
    BY DEF Room
  <2>6. t.remaining \in 1..N
    <3> HIDE DEF t
    <3> QED
      BY <1>2, <2>2, StateFacts
  <2> HIDE DEF t
  <2>7. work.target <= t.remaining
    BY <1>3, <2>1, <2>3, <2>4, <2>5, <2>6
  <2> QED
    BY <2>7 DEF t, s
<1> DEFINE s == from_remaining(work.target)
<1>5. Covers(s)
  BY <1>1, <1>3, <1>4, FullCovers
<1> HIDE DEF s
<1> QED
  BY <1>1, <1>2, <1>5, StartSound DEF s

\* What is right before a split is right after it.
SplitRight(seg, r, block, i) ==
    /\ Moved(seg, r, block, i) /\ Segments(r)' /\ Located' /\ MapsRight(r)' /\ SameStates(seg, r)
    /\ Checks \subseteq Checks' /\ stmts[block][i] \in Checks' /\ block # leave
    /\ \A b \in checked' : r[b][1] = seg[block][1] \/ (b \in checked /\ r[b] = seg[b])

LEMMA SplitSound ==
    ASSUME Shape, Inserting, prog' = prog, NEW seg, Segments(seg), Located, MapsRight(seg),
           NEW block \in Blocks, NEW i \in DOMAIN stmts[block], stmts[block][i] \in Points,
           insert_halt_check_after(block, i),
           Finished' = Finished, Opened' = Opened, Drained' = Drained
    PROVE  \E r : SplitRight(seg, r, block, i)
<1>1. prog \in Programs /\ IrShape /\ OutgoingShape /\ loc \in [Points -> Blocks \X Nat]
  BY InsertingFacts
<1>2. Split(block, i)
  BY <1>1, SplitFacts
<1>3. /\ Continuation \notin Blocks /\ checked \subseteq Blocks
      /\ checked' = checked \cup (IF block \in checked THEN {block, Continuation} ELSE {block})
  BY <1>1, <1>2 DEF Split, IrShape
<1>4. PICK r : r = [b \in Blocks \cup {Continuation} |->
                      IF b = Continuation THEN <<seg[block][1], seg[block][2] + i>> ELSE seg[b]]
  OBVIOUS
<1>5. Moved(seg, r, block, i)
  BY <1>3, <1>4 DEF Moved
<1>6. Segments(r)' /\ block # leave
  BY <1>1, <1>2, <1>5, SplitSegments
<1>7. Located'
  BY <1>1, <1>2, SplitLocated
<1>8. MapsRight(r)' /\ SameStates(seg, r)
  BY <1>1, <1>2, <1>5, SplitMaps
<1>9. Checks \subseteq Checks' /\ stmts[block][i] \in Checks'
  BY <1>1, <1>2, SplitChecks
<1>10. \A b \in checked' : r[b][1] = seg[block][1] \/ (b \in checked /\ r[b] = seg[b])
  <2>1. r[Continuation][1] = seg[block][1] /\ \A b \in Blocks : r[b] = seg[b]
    BY <1>5 DEF Moved
  <2> QED
    BY <1>3, <2>1
<1> QED
  BY <1>5, <1>6, <1>7, <1>8, <1>9, <1>10 DEF SplitRight

LEMMA CompensateSound ==
    ASSUME SoundInv, InsertCompensatingCheck, pc' = "compensate"
    PROVE  \E seg : PassInv(seg)'
<1>1. /\ pc = "compensate" /\ pc \in {"drain", "compensate"} /\ prog' = prog /\ graph' = graph
      /\ work.fixed <= Len(work.states)
  BY DEF InsertCompensatingCheck
<1>2. /\ Inserting /\ Shape /\ prog \in Programs /\ work \in Works /\ work.states \in Seq(GoodStates)
      /\ \A i \in DOMAIN work.states : work.states[i] \in GoodStates /\ Remembers(work.states[i], Past)
      /\ Drained = AsSet(Component)
  BY <1>1, DrainedFacts
<1>3. /\ N \in Nat \ {0} /\ work.fixed \in Nat \ {0}
      /\ work.target \in 1..N /\ loc \in [Points -> Blocks \X Nat]
  BY <1>1, <1>2, SourceFacts DEF Shape, WorkShape, Works
<1> DEFINE n == work.fixed
           old == work.states[n]
<1>4. n \in DOMAIN work.states
  BY <1>1, <1>2, <1>3, SeqFacts
<1> DEFINE s == IF n = 1 THEN work.states[1] ELSE canonicalize(old, resets)
           at == compensating_insertion_safepoint(s, work.target)
           here == loc[at]
           c == canonicalize(s, resets \cup {at})
<1>5. s \in GoodStates /\ Remembers(s, Past)
  BY <1>2, <1>4, Canonicalized, StillRemembers
<1>6. \A X : resets \subseteq X => Room(s, X) = Room(old, X)
  <2> SUFFICES ASSUME NEW X, resets \subseteq X PROVE Room(s, X) = Room(old, X)
    OBVIOUS
  <2>1. CASE n = 1
    BY <2>1
  <2>2. CASE n # 1
    <3>1. old \in GoodStates /\ s = canonicalize(old, resets)
      BY <1>2, <1>4, <2>2
    <3> HIDE DEF old, s
    <3> QED
      BY <1>2, <3>1, RoomAgain
  <2> QED
    BY <2>1, <2>2
<1> HIDE DEF s
<1>7. \/ /\ work' = [work EXCEPT !.states[work.fixed] = s, !.fixed = @ + 1]
         /\ ir' = ir /\ inserter' = inserter
      \/ /\ has_insertion_point(s, work.target) /\ InsertAsserts(here[1], here[2])
         /\ insert_halt_check_after(here[1], here[2]) /\ resets' = resets \cup {at}
         /\ work' = [work EXCEPT !.states[work.fixed] = c, !.fixed = @ + 1]
  BY DEF InsertCompensatingCheck, s
<1> HIDE DEF c, at
<1>8. ASSUME NEW x \in GoodStates, Remembers(x, Past), resets \subseteq resets',
             \A X \in SUBSET Points : resets' \subseteq X => Room(x, X) = Room(old, X),
             work' = [work EXCEPT !.states[work.fixed] = x, !.fixed = @ + 1]
      PROVE  work'.component = work.component /\ SameRoom(work'.states)
  <2> DEFINE st == [work.states EXCEPT ![n] = x]
             nx == work.fixed + 1
  <2>1. st \in Seq(GoodStates) /\ Len(st) = Len(work.states)
        /\ \A k \in DOMAIN work.states : st[k] = IF k = n THEN x ELSE work.states[k]
    BY <1>2, <1>4, ReplacedAt
  <2>2. work' = [work EXCEPT !.states = st, !.fixed = nx]
    BY <1>2, <1>8 DEF Works
  <2>3. DOMAIN st = DOMAIN work.states
    OBVIOUS
  <2> HIDE DEF st, nx
  <2>4. work'.states = st /\ work'.component = work.component
    BY <1>2, <2>2 DEF Works
  <2>5. SameRoom(st)
    <3> SUFFICES ASSUME NEW k \in DOMAIN work.states
                 PROVE  /\ Remembers(st[k], Past)
                        /\ \A X \in SUBSET Points : resets' \subseteq X =>
                              Room(st[k], X) = Room(work.states[k], X)
      BY <2>3 DEF SameRoom
    <3>1. CASE k = n
      BY <1>4, <1>8, <2>1, <3>1
    <3>2. CASE k # n
      BY <1>2, <2>1, <3>2
    <3> QED
      BY <3>1, <3>2
  <2> QED
    BY <2>4, <2>5
<1> HIDE DEF old, n
<1>9. CASE /\ work' = [work EXCEPT !.states[work.fixed] = s, !.fixed = @ + 1]
           /\ ir' = ir /\ inserter' = inserter
  <2>1. resets' = resets /\ Untouched
    BY <1>1, <1>9 DEF inserter, Untouched
  <2>2. work'.component = work.component /\ SameRoom(work'.states)
    BY <1>5, <1>6, <1>8, <1>9, <2>1
  <2> QED
    BY <1>1, <1>2, <2>1, <2>2, StatesSound
<1>10. CASE /\ has_insertion_point(s, work.target) /\ InsertAsserts(here[1], here[2])
            /\ insert_halt_check_after(here[1], here[2]) /\ resets' = resets \cup {at}
            /\ work' = [work EXCEPT !.states[work.fixed] = c, !.fixed = @ + 1]
  <2> DEFINE block == here[1]
             i == here[2]
  <2>1. at \in Points
    BY <1>2, <1>3, <1>5, <1>10, InsertionPoint DEF at
  <2>2. at[1] \in Past
    <3>1. Len(s.suffix) - (N - work.target) \in 1..Len(s.suffix) /\ DOMAIN s.suffix = 1..Len(s.suffix)
      <4>1. /\ s.remaining \in 1..N /\ Len(s.suffix) \in Nat /\ DOMAIN s.suffix = 1..Len(s.suffix)
            /\ Len(s.suffix) > N - work.target
        BY <1>2, <1>5, <1>10, StateFacts DEF has_insertion_point
      <4> QED
        BY <1>3, <4>1
    <3> QED
      BY <1>5, <3>1 DEF Remembers, at, compensating_insertion_safepoint
  <2>3. PICK seg : PassInv(seg)
    BY <1>2 DEF SoundInv
  <2>4. /\ Segments(seg) /\ Located /\ MapsRight(seg) /\ OnlyStarted(seg) /\ resets \subseteq Checks
    BY <2>3 DEF PassInv
  <2>5. block \in Blocks /\ i \in DOMAIN stmts[block] /\ stmts[block][i] = at
    BY <1>3, <2>1, <2>4 DEF Located
  <2>6. c \in GoodStates /\ Remembers(c, Past)
    BY <1>2, <1>5, Canonicalized, StillRemembers DEF c
  <2>7. ASSUME NEW X, resets' \subseteq X PROVE Room(c, X) = Room(old, X)
    <3>1. resets \cup {at} \subseteq X /\ resets \subseteq X
      BY <1>10, <2>7
    <3> DEFINE R == resets \cup {at}
    <3>2. R \subseteq X /\ c = canonicalize(s, R)
      BY <3>1 DEF c
    <3> HIDE DEF R
    <3>3. Room(c, X) = Room(s, X)
      BY <1>2, <1>5, <3>2, RoomAgain
    <3> QED
      BY <1>6, <3>1, <3>3
  <2>8. work'.component = work.component /\ SameRoom(work'.states)
    BY <1>8, <1>10, <2>6, <2>7
  <2>9. Component' = Component /\ Past' = Past /\ AsSet(Component') = AsSet(Component)
    BY <1>1, <2>8, ComponentKept
  <2>10. /\ Finished = Past /\ Opened = Past /\ Started = Past
         /\ Finished' = Past /\ Opened' = Past /\ Drained' = Drained /\ Started' = Past
    <3>1. Finished = Past /\ Opened = Past /\ Started = Past
      BY <1>1, <1>2 DEF Finished, Opened, Started
    <3>2. Finished' = Past /\ Opened' = Past /\ Drained' = Drained
      BY <1>2, <2>9 DEF Finished, Opened, Drained, Inserting
    <3> QED
      BY <3>1, <3>2 DEF Started
  <2> HIDE DEF block, i
  <2>11. PICK r : SplitRight(seg, r, block, i)
    <3>1. insert_halt_check_after(block, i) /\ stmts[block][i] \in Points
      BY <1>10, <2>1, <2>5 DEF block, i
    <3>2. Finished' = Finished /\ Opened' = Opened /\ Drained' = Drained
      BY <2>10
    <3> QED
      BY <1>1, <1>2, <2>4, <2>5, <3>1, <3>2, SplitSound
  <2>12. /\ Segments(r)' /\ Located' /\ MapsRight(r)' /\ SameStates(seg, r)
         /\ Checks \subseteq Checks' /\ at \in Checks' /\ block # leave
         /\ \A b \in checked' : r[b][1] = seg[block][1] \/ (b \in checked /\ r[b] = seg[b])
    BY <2>5, <2>11 DEF SplitRight
  <2>13. seg[block][1] \in Past
    <3>1. at = <<seg[block][1], seg[block][2] + i>>
      BY <2>4, <2>5, <2>12 DEF Segments
    <3> QED
      BY <2>2, <3>1
  <2>14. /\ DOMAIN work'.states = DOMAIN work.states
         /\ \A k \in DOMAIN work.states :
               /\ Remembers(work'.states[k], Past)
               /\ \A X \in SUBSET Points : resets' \subseteq X =>
                     Room(work'.states[k], X) = Room(work.states[k], X)
    BY <2>8 DEF SameRoom
  <2>15. OnlyStarted(r)'
    <3>1. /\ \A e \in DOMAIN outgoing : Remembers(outgoing[e], Past)
          /\ \A b \in checked : seg[b][1] \in Past
      BY <2>4, <2>10 DEF OnlyStarted
    <3>2. \A e \in DOMAIN outgoing' : Remembers(outgoing'[e], Past)
      BY <2>12, <3>1 DEF SameStates
    <3>3. \A b \in checked' : r[b][1] \in Past
      BY <2>12, <2>13, <3>1
    <3> QED
      BY <2>10, <2>14, <3>2, <3>3 DEF OnlyStarted, Remembers
  <2>16. ASSUME NEW X \in SUBSET Points, resets' \subseteq X PROVE \E C : Bounded(C, X, r)'
    <3>1. PICK C : Bounded(C, X, seg)
      BY <1>10, <2>3, <2>16 DEF PassInv
    <3>2. Flows(C, Checks \cup X, Past, Past) /\ Counted(C, X, seg, Past, Drained, outgoing, work.states)
      BY <2>10, <3>1 DEF Bounded
    <3>3. Flows(C, Checks' \cup X, Past, Past)
      <4>1. C \in Bounds
        BY <3>2 DEF Flows, Bounds
      <4>2. \A b \in Past : Len(prog.body[b]) \in Nat
        BY <1>2, SetFacts DEF Past
      <4>3. Checks \cup X \subseteq Checks' \cup X
        BY <2>12
      <4> QED
        BY <3>2, <4>1, <4>2, <4>3, FlowsAgree
    <3>4. Counted(C, X, r, Past, Drained, outgoing', work'.states)
      BY <2>12, <2>14, <2>16, <3>2 DEF Counted, SameStates
    <3>5. BoundedThen(C, X, r)
      BY <2>10, <3>3, <3>4 DEF BoundedThen
    <3>6. Bounded(C, X, r)'
      BY <1>1, <3>5, BoundedPrimed
    <3> QED
      BY <3>6
  <2>17. PassInv(r)'
    <3>1. Points' = Points
      BY <1>1, ProgKept
    <3>2. resets' \subseteq Checks'
      BY <1>10, <2>4, <2>12
    <3> QED
      BY <2>12, <2>15, <2>16, <3>1, <3>2 DEF PassInv
  <2> QED
    BY <2>17
<1> QED
  BY <1>7, <1>9, <1>10

\* The bounds while a block is in hand.
Stage(C, X, Y, seg, D, E, Z, out, st, b, n, cyclic, cs, s, seen) ==
    /\ Flows(C, Y, D, E) /\ Counted(C, X, seg, D, Z, out, st)
    /\ Here(C, X, Y, b, n, cyclic, cs, s, seen)

StageTypes(seg, D, E, out, b, n, cs) ==
    /\ D \subseteq SourceBlocks /\ E \subseteq SourceBlocks /\ cs \subseteq SourceBlocks
    /\ b \in SourceBlocks \ D /\ n \in Nat
    /\ \A d \in D : Len(prog.body[d]) \in Nat
    /\ \A e \in DOMAIN out : seg[e[1]][1] \in D

\* A value for the position after the next statement.
GoodValue(C, X, W, b, n, cyclic, s, s2, seen2, v) ==
    /\ v \in 0..(N - 1)
    /\ IF <<b, n + 1>> \in Points THEN <<b, n + 1>> \notin W => C[<<b, n>>] < v
       ELSE C[<<b, n>>] <= v
    /\ IF cyclic THEN s2.remaining = s.remaining /\ v <= (IF seen2 THEN 0 ELSE N - s.remaining)
       ELSE v <= Room(s2, X)

\* One more statement of the block in hand.
LEMMA HereStep ==
    ASSUME NEW C, NEW X, NEW Y, NEW seg, NEW D, NEW E, NEW Z, NEW out, NEW st, NEW b, NEW n,
           NEW cyclic, NEW cs, NEW s, NEW seen, Stage(C, X, Y, seg, D, E, Z, out, st, b, n, cyclic, cs, s, seen),
           StageTypes(seg, D, E, out, b, n, cs), NEW W, Y \subseteq W, NEW s2, NEW seen2, NEW v,
           GoodValue(C, X, W, b, n, cyclic, s, s2, seen2, v)
    PROVE  \E G : Stage(G, X, W, seg, D, E, Z, out, st, b, n + 1, cyclic, cs, s2, seen2)
<1>1. /\ Flows(C, Y, D, E) /\ Counted(C, X, seg, D, Z, out, st)
      /\ Here(C, X, Y, b, n, cyclic, cs, s, seen)
  BY DEF Stage
<1>2. /\ D \subseteq SourceBlocks /\ E \subseteq SourceBlocks /\ cs \subseteq SourceBlocks
      /\ b \in SourceBlocks \ D /\ n \in Nat
      /\ \A d \in D : Len(prog.body[d]) \in Nat
      /\ \A e \in DOMAIN out : seg[e[1]][1] \in D
  BY DEF StageTypes
<1>3. /\ v \in 0..(N - 1)
      /\ IF <<b, n + 1>> \in Points THEN <<b, n + 1>> \notin W => C[<<b, n>>] < v
         ELSE C[<<b, n>>] <= v
      /\ IF cyclic THEN s2.remaining = s.remaining /\ v <= (IF seen2 THEN 0 ELSE N - s.remaining)
         ELSE v <= Room(s2, X)
  BY DEF GoodValue
<1> DEFINE at == <<b, n + 1>>
<1>4. PICK G : G = [p \in SourceBlocks \X Nat |-> IF p = at THEN v ELSE C[p]]
  OBVIOUS
<1>5. C \in Bounds
  BY <1>1 DEF Flows, Bounds
<1>6. at \in SourceBlocks \X Nat /\ G \in Bounds /\ G[at] = v
  <2>1. at \in SourceBlocks \X Nat
    BY <1>2
  <2> HIDE DEF at
  <2> QED
    BY <1>4, <1>3, <1>5, <2>1 DEF Bounds
<1>7. \A d \in SourceBlocks : \A k \in Nat : d # b \/ k # n + 1 => G[<<d, k>>] = C[<<d, k>>]
  <2> SUFFICES ASSUME NEW d \in SourceBlocks, NEW k \in Nat, d # b \/ k # n + 1
               PROVE  G[<<d, k>>] = C[<<d, k>>]
    OBVIOUS
  <2>1. <<d, k>> \in SourceBlocks \X Nat /\ <<d, k>> # at
    OBVIOUS
  <2> HIDE DEF at
  <2> QED
    BY <1>4, <2>1
<1> HIDE DEF at
<1>8. /\ \A d \in D : \A k \in Nat : G[<<d, k>>] = C[<<d, k>>]
      /\ \A c \in SourceBlocks : G[<<c, 0>>] = C[<<c, 0>>]
  <2>1. n + 1 # 0 /\ 0 \in Nat
    BY <1>2
  <2> QED
    BY <1>2, <1>7, <2>1
<1>9. Flows(G, W, D, E) /\ \A d \in D : AtEnd(G, d) = AtEnd(C, d)
  <2>1. \A c \in E : G[<<c, 0>>] = C[<<c, 0>>]
    BY <1>2, <1>8
  <2> QED
    BY <1>1, <1>2, <1>6, <1>8, <2>1, FlowsAgree
<1>10. Counted(G, X, seg, D, Z, out, st)
  BY <1>1, <1>2, <1>9 DEF Counted
<1>11. Rises(G, W, b, n + 1)
  <2>1. Rises(C, Y, b, n)
    BY <1>1 DEF Here
  <2> SUFFICES ASSUME NEW k \in 1..(n + 1)
               PROVE  IF <<b, k>> \in Points THEN <<b, k>> \notin W => G[<<b, k - 1>>] < G[<<b, k>>]
                      ELSE G[<<b, k - 1>>] <= G[<<b, k>>]
    BY DEF Rises
  <2>2. k \in Nat /\ k - 1 \in Nat /\ k - 1 # n + 1
    BY <1>2
  <2>3. G[<<b, k - 1>>] = C[<<b, k - 1>>]
    BY <1>2, <1>7, <2>2
  <2>4. CASE k = n + 1
    <3>1. k - 1 = n /\ G[<<b, k>>] = v
      BY <1>2, <1>6, <2>4 DEF at
    <3>2. <<b, k - 1>> = <<b, n>> /\ <<b, k>> = <<b, n + 1>>
      BY <2>4, <3>1
    <3> QED
      BY <1>3, <2>3, <3>1, <3>2
  <2>5. CASE k # n + 1
    <3>1. k \in 1..n /\ G[<<b, k>>] = C[<<b, k>>]
      BY <1>2, <1>7, <2>2, <2>5
    <3>2. IF <<b, k>> \in Points THEN <<b, k>> \notin Y => C[<<b, k - 1>>] < C[<<b, k>>]
          ELSE C[<<b, k - 1>>] <= C[<<b, k>>]
      BY <2>1, <3>1 DEF Rises
    <3> QED
      BY <2>3, <3>1, <3>2
  <2> QED
    BY <2>4, <2>5
<1>12. Here(G, X, W, b, n + 1, cyclic, cs, s2, seen2)
  <2>1. CASE cyclic
    <3>1. \A m \in cs : G[<<m, 0>>] = N - s2.remaining
      BY <1>1, <1>2, <1>3, <1>8, <2>1 DEF Here
    <3>2. G[<<b, n + 1>>] <= IF seen2 THEN 0 ELSE N - s2.remaining
      BY <1>3, <1>6, <2>1 DEF at
    <3> QED
      BY <1>11, <2>1, <3>1, <3>2 DEF Here
  <2>2. CASE ~cyclic
    <3>1. G[<<b, n + 1>>] <= Room(s2, X)
      BY <1>3, <1>6, <2>2 DEF at
    <3> QED
      BY <1>11, <2>2, <3>1 DEF Here
  <2> QED
    BY <2>1, <2>2
<1>13. Stage(G, X, W, seg, D, E, Z, out, st, b, n + 1, cyclic, cs, s2, seen2)
  BY <1>9, <1>10, <1>12 DEF Stage
<1> QED
  BY <1>13

\* What a statement does to the halt state.
Advances(stmt) ==
    IF ~AtSafepoint THEN work'.state = work.state /\ work'.seen = work.seen
    ELSE IF IsCyclic THEN work'.state = work.state /\ work'.seen = TRUE
    ELSE work'.state = process_safepoint(work.state, stmt) /\ work'.seen = work.seen

LEMMA StatementEffect ==
    ASSUME Shape, ProcessStatement, pc' = "blocks"
    PROVE  /\ prog' = prog /\ graph' = graph /\ resets' = resets /\ pc = "blocks"
           /\ work.index \in DOMAIN stmts[work.block]
           /\ work'.component = work.component /\ work'.next = work.next
           /\ work'.states = work.states /\ Advances(stmts[work.block][work.index])
           /\ IF should_halt THEN /\ insert_halt_check_after(work.block, work.index)
                                  /\ work'.block = Continuation /\ work'.index = 1
              ELSE /\ ir' = ir /\ inserter' = inserter
                   /\ work'.block = work.block /\ work'.index = work.index + 1
<1>1. /\ pc = "blocks" /\ prog' = prog /\ graph' = graph /\ Inserting
      /\ work.index <= Len(stmts[work.block])
  BY DEF ProcessStatement, Inserting
<1>2. /\ prog \in Programs /\ IrShape /\ work \in Works
      /\ work.block \in Blocks /\ work.index \in Nat \ {0}
  BY <1>1, InsertingFacts DEF Shape, WorkShape, Works
<1>3. stmts[work.block] \in Seq(Statements)
  BY <1>2, BlocksFacts
<1>4. work.index \in DOMAIN stmts[work.block]
  BY <1>1, <1>2, <1>3, SeqFacts
<1> DEFINE stmt == stmts[work.block][work.index]
           x == process_safepoint(work.state, stmt)
           after == IF AtSafepoint
                    THEN IF IsCyclic THEN [work EXCEPT !.seen = TRUE]
                         ELSE [work EXCEPT !.state = x]
                    ELSE work
<1>5. /\ should_halt => /\ insert_halt_check_after(work.block, work.index) /\ resets' = resets
                        /\ work' = [after EXCEPT !.block = Continuation, !.index = 1]
      /\ ~should_halt => /\ work' = [after EXCEPT !.index = @ + 1]
                         /\ ir' = ir /\ inserter' = inserter
  BY DEF ProcessStatement
<1>6. resets' = resets
  BY <1>5 DEF inserter
<1> DEFINE c == Continuation
           nx == work.index + 1
<1> HIDE DEF x, c, nx
<1>8. /\ after.component = work.component /\ after.next = work.next /\ after.states = work.states
      /\ after.block = work.block /\ after.index = work.index
      /\ IF ~AtSafepoint THEN after.state = work.state /\ after.seen = work.seen
         ELSE IF IsCyclic THEN after.state = work.state /\ after.seen = TRUE
         ELSE after.state = x /\ after.seen = work.seen
      /\ DOMAIN after = DOMAIN work
  BY <1>2 DEF Works
<1>9. DOMAIN work = {"component", "next", "states", "fixed", "target", "state", "block", "index", "seen"}
  BY <1>2 DEF Works
<1> HIDE DEF after
<1>10. CASE should_halt
  <2>1. work' = [after EXCEPT !.block = c, !.index = 1]
    BY <1>5, <1>10 DEF c
  <2>2. /\ work'.component = after.component /\ work'.next = after.next /\ work'.states = after.states
        /\ work'.state = after.state /\ work'.seen = after.seen
        /\ work'.block = c /\ work'.index = 1
    BY <1>8, <1>9, <2>1
  <2> QED
    BY <1>1, <1>4, <1>5, <1>6, <1>8, <1>10, <2>2 DEF Advances, c, x
<1>11. CASE ~should_halt
  <2>1. work' = [after EXCEPT !.index = nx]
    BY <1>5, <1>8, <1>11 DEF nx
  <2>2. /\ work'.component = after.component /\ work'.next = after.next /\ work'.states = after.states
        /\ work'.state = after.state /\ work'.seen = after.seen
        /\ work'.block = after.block /\ work'.index = nx
    BY <1>8, <1>9, <2>1
  <2> QED
    BY <1>1, <1>4, <1>5, <1>6, <1>8, <1>11, <2>2 DEF Advances, nx, x
<1> QED
  BY <1>10, <1>11

LEMMA InBlocks ==
    ASSUME SoundInv, pc = "blocks", NEW seg, PassInv(seg)
    PROVE  /\ Inserting /\ Shape /\ prog \in Programs /\ IrShape /\ OutgoingShape /\ Ranked
           /\ work \in Works /\ work.state \in GoodStates /\ work.next \in DOMAIN Component
           /\ AsSet(Component) \subseteq SourceBlocks /\ Current \in AsSet(Component)
           /\ Finished \subseteq SourceBlocks /\ Opened \subseteq SourceBlocks
           /\ Current \in SourceBlocks \ Finished /\ Started = Finished \cup {Current}
           /\ \A b \in SourceBlocks : Len(prog.body[b]) \in Nat
           /\ work.block \in Blocks \ (checked \cup {leave})
           /\ seg[work.block][1] = Current /\ seg[work.block][2] \in Nat
           /\ work.index \in Nat \ {0} /\ work.index <= Len(stmts[work.block]) + 1
           /\ stmts[work.block] \in Seq(Statements) /\ Len(stmts[work.block]) \in Nat
           /\ Position(seg) \in Nat
<1>1. Inserting /\ Shape /\ Segments(seg) /\ OnlyStarted(seg)
  BY DEF SoundInv, Inserting, PassInv
<1>2. /\ prog \in Programs /\ IrShape /\ OutgoingShape /\ work \in Works
      /\ work.next \in DOMAIN Component /\ work.block \in Blocks /\ work.index \in Nat \ {0}
      /\ work.state \in GoodStates /\ DOMAIN Component = 1..Len(Component) /\ work.component \in Nat
  BY <1>1, InsertingFacts DEF Shape, WorkShape, Works
<1>3. Ranked
  BY <1>1, Ranking
<1>4. Current \in AsSet(Component) /\ AsSet(Component) \subseteq SourceBlocks
  BY <1>2, <1>3 DEF Current, AsSet, Ranked
<1>5. Finished \subseteq SourceBlocks /\ Opened \subseteq SourceBlocks
      /\ \A b \in SourceBlocks : Len(prog.body[b]) \in Nat
  BY <1>1, SetFacts
<1>6. Current \notin Finished
  <2>1. Current \notin Past
    <3>1. RankOf(Current) = work.component
      BY <1>3, <1>4 DEF Ranked
    <3> QED
      BY <1>2, <3>1 DEF Past
  <2>2. \A j \in DOMAIN Component : j < work.next => Component[j] # Current
    BY <1>2, <1>3 DEF Ranked, Current
  <2> QED
    BY <2>1, <2>2 DEF Finished
<1>7. /\ work.block \notin checked \cup {leave} /\ seg[work.block][1] = Current
      /\ work.index <= Len(stmts[work.block]) + 1 /\ Started = Finished \cup {Current}
  BY <1>1 DEF OnlyStarted, Started
<1>8. seg[work.block][2] \in Nat
  BY <1>1, <1>2, <1>7 DEF Segments
<1>9. stmts[work.block] \in Seq(Statements)
  BY <1>2, BlocksFacts
<1>10. Len(stmts[work.block]) \in Nat
  BY <1>9, SeqFacts
<1>11. Position(seg) \in Nat
  BY <1>2, <1>8 DEF Position
<1> QED
  BY <1>1, <1>2, <1>3, <1>4, <1>5, <1>6, <1>7, <1>8, <1>9, <1>10, <1>11

\* The bounds go one statement further.
LEMMA StatementBounds ==
    ASSUME SoundInv, ProcessStatement, pc' = "blocks", NEW seg, PassInv(seg),
           NEW X \in SUBSET Points, resets \subseteq X,
           NEW W, Checks \subseteq W, should_halt => stmts[work.block][work.index] \in W,
           NEW r, NEW out, \A e \in DOMAIN out : \E f \in DOMAIN outgoing :
                              out[e] = outgoing[f] /\ r[e[1]][1] = seg[f[1]][1]
    PROVE  \E G : Stage(G, X, W \cup X, r, Finished, Opened, Drained, out, work.states, Current,
                        Position(seg) + 1, IsCyclic, AsSet(Component), work'.state, work'.seen)
<1> DEFINE n == Position(seg)
           b == Current
           stmt == stmts[work.block][work.index]
           Y == Checks \cup X
           Z == W \cup X
           s == work.state
           s2 == work'.state
<1>1. pc = "blocks" /\ work.index \in DOMAIN stmts[work.block] /\ Advances(stmt)
  BY StatementEffect DEF SoundInv
<1>2. /\ prog \in Programs /\ s \in GoodStates /\ AsSet(Component) \subseteq SourceBlocks
      /\ Finished \subseteq SourceBlocks /\ Opened \subseteq SourceBlocks
      /\ b \in SourceBlocks \ Finished /\ \A d \in SourceBlocks : Len(prog.body[d]) \in Nat
      /\ work.block \in Blocks \ (checked \cup {leave})
      /\ seg[work.block][1] = b /\ seg[work.block][2] \in Nat
      /\ work.index \in Nat \ {0} /\ stmts[work.block] \in Seq(Statements) /\ n \in Nat
  BY <1>1, InBlocks
<1>3. stmt = <<b, n + 1>> /\ stmt \in Statements
  <2>1. stmt = <<seg[work.block][1], seg[work.block][2] + work.index>>
    BY <1>1, <1>2 DEF PassInv, Segments
  <2>2. seg[work.block][2] + work.index = n + 1
    BY <1>2 DEF Position
  <2>3. stmt \in Statements
    BY <1>1, <1>2, SeqFacts
  <2> QED
    BY <1>2, <2>1, <2>2, <2>3
<1>4. AtSafepoint <=> stmt \in Points
  BY <1>3 DEF AtSafepoint, Points
<1>5. PICK C : Bounded(C, X, seg)
  BY DEF PassInv
<1>6. /\ Flows(C, Y, Finished, Opened)
      /\ Counted(C, X, seg, Finished, Drained, outgoing, work.states)
      /\ Here(C, X, Y, b, n, IsCyclic, AsSet(Component), s, work.seen)
  BY <1>1, <1>5 DEF Bounded
<1>7. Counted(C, X, r, Finished, Drained, out, work.states)
  BY <1>6 DEF Counted
<1>8. \A e \in DOMAIN out : r[e[1]][1] \in Finished
  BY DEF PassInv, MapsRight
<1>9. Y \subseteq Z
  OBVIOUS
<1>10. /\ N \in Nat \ {0} /\ s.remaining \in 1..N /\ C[<<b, n>>] \in 0..(N - 1)
       /\ Room(s, X) \in 0..(N - 1)
  <2>1. N \in Nat \ {0} /\ s.remaining \in 1..N /\ Room(s, X) \in 0..(N - 1)
    BY <1>2, StateFacts, RoomType
  <2>2. C[<<b, n>>] \in 0..(N - 1)
    <3>1. <<b, n>> \in SourceBlocks \X Nat
      BY <1>2
    <3> HIDE DEF n, b
    <3> QED
      BY <1>6, <3>1 DEF Flows
  <2> QED
    BY <2>1, <2>2
<1>11. IF IsCyclic THEN C[<<b, n>>] <= IF work.seen THEN 0 ELSE N - s.remaining
       ELSE C[<<b, n>>] <= Room(s, X)
  BY <1>6 DEF Here
<1>12. \E v : GoodValue(C, X, Z, b, n, IsCyclic, s, s2, work'.seen, v)
  <2>1. CASE ~AtSafepoint
    <3>1. s2 = s /\ work'.seen = work.seen /\ <<b, n + 1>> \notin Points
      BY <1>1, <1>3, <1>4, <2>1 DEF Advances
    <3> HIDE DEF b, n, s, s2, Z
    <3>2. C[<<b, n>>] <= C[<<b, n>>]
      BY <1>10
    <3>3. GoodValue(C, X, Z, b, n, IsCyclic, s, s2, work'.seen, C[<<b, n>>])
      BY <1>10, <1>11, <3>1, <3>2 DEF GoodValue
    <3> QED
      BY <3>3
  <2>2. CASE AtSafepoint /\ IsCyclic
    <3>1. s2 = s /\ work'.seen = TRUE /\ <<b, n + 1>> \in Z
      BY <1>1, <1>3, <1>9, <2>2 DEF Advances, should_halt
    <3>2. 0 \in 0..(N - 1) /\ 0 <= 0
      BY <1>10
    <3>3. <<b, n + 1>> \in Points
      BY <1>3, <1>4, <2>2
    <3> HIDE DEF b, n, s, s2, Z
    <3>4. GoodValue(C, X, Z, b, n, IsCyclic, s, s2, work'.seen, 0)
      BY <2>2, <3>1, <3>2, <3>3 DEF GoodValue
    <3> QED
      BY <3>4
  <2>3. CASE AtSafepoint /\ ~IsCyclic
    <3>1. s2 = process_safepoint(s, stmt) /\ stmt \in Points
      BY <1>1, <1>4, <2>3 DEF Advances
    <3>2. s2 \in GoodStates
      <4> HIDE DEF s, s2, stmt
      <4> QED
        BY <1>2, <3>1, SafepointProcessed
    <3>3. Room(s2, X) \in 0..(N - 1)
      <4> HIDE DEF s2
      <4> QED
        BY <1>2, <3>2, RoomType
    <3>4. stmt \notin Z => C[<<b, n>>] < Room(s2, X)
      <4>1. CASE s.remaining = 1
        BY <2>3, <4>1 DEF should_halt
      <4>2. CASE s.remaining # 1
        <5> SUFFICES ASSUME stmt \notin Z PROVE C[<<b, n>>] < Room(s2, X)
          OBVIOUS
        <5>1. stmt \notin X
          OBVIOUS
        <5> HIDE DEF s, s2, stmt, b, n
        <5>2. Room(s2, X) = Room(s, X) + 1
          BY <1>2, <3>1, <4>2, <5>1, RoomStep
        <5> QED
          BY <1>10, <1>11, <2>3, <5>2
      <4> QED
        BY <4>1, <4>2
    <3> HIDE DEF s, s2, Z, b, n
    <3>5. Room(s2, X) <= Room(s2, X)
      BY <1>10, <3>3
    <3>6. GoodValue(C, X, Z, b, n, IsCyclic, s, s2, work'.seen, Room(s2, X))
      BY <1>3, <2>3, <3>1, <3>3, <3>4, <3>5 DEF GoodValue
    <3> QED
      BY <3>6
  <2> QED
    BY <2>1, <2>2, <2>3
<1>13. PICK v : GoodValue(C, X, Z, b, n, IsCyclic, s, s2, work'.seen, v)
  BY <1>12
<1>14. StageTypes(r, Finished, Opened, out, b, n, AsSet(Component))
  BY <1>2, <1>8 DEF StageTypes
<1>15. Stage(C, X, Y, r, Finished, Opened, Drained, out, work.states, b, n, IsCyclic,
             AsSet(Component), s, work.seen)
  BY <1>6, <1>7 DEF Stage
<1> HIDE DEF b, n, s, s2, Y, Z
<1>16. \E G : Stage(G, X, Z, r, Finished, Opened, Drained, out, work.states, b, n + 1, IsCyclic,
                    AsSet(Component), s2, work'.seen)
  BY <1>9, <1>13, <1>14, <1>15, HereStep
<1> QED
  BY <1>16 DEF b, n, s2, Z

LEMMA StatementSound ==
    ASSUME SoundInv, ProcessStatement, pc' = "blocks"
    PROVE  \E seg : PassInv(seg)'
<1> DEFINE block == work.block
           i == work.index
           stmt == stmts[block][i]
<1>1. /\ prog' = prog /\ graph' = graph /\ resets' = resets /\ pc = "blocks"
      /\ i \in DOMAIN stmts[block]
      /\ work'.component = work.component /\ work'.next = work.next
      /\ work'.states = work.states /\ Advances(stmt)
      /\ should_halt => /\ insert_halt_check_after(block, i)
                        /\ work'.block = Continuation /\ work'.index = 1
      /\ ~should_halt => /\ ir' = ir /\ inserter' = inserter
                         /\ work'.block = block /\ work'.index = i + 1
  BY StatementEffect DEF SoundInv
<1>2. Inserting
  BY <1>1 DEF Inserting
<1>3. PICK seg : PassInv(seg)
  BY <1>2 DEF SoundInv
<1>4. /\ Segments(seg) /\ Located /\ MapsRight(seg) /\ OnlyStarted(seg) /\ resets \subseteq Checks
      /\ \A X \in SUBSET Points : resets \subseteq X => \E C : Bounded(C, X, seg)
  BY <1>3 DEF PassInv
<1>5. /\ Shape /\ prog \in Programs /\ IrShape /\ OutgoingShape
      /\ work.state \in GoodStates /\ Current \in SourceBlocks
      /\ Started = Finished \cup {Current}
      /\ block \in Blocks \ (checked \cup {leave})
      /\ seg[block][1] = Current /\ seg[block][2] \in Nat
      /\ i \in Nat \ {0} /\ stmts[block] \in Seq(Statements) /\ Len(stmts[block]) \in Nat
  BY <1>1, <1>3, InBlocks
<1>6. /\ Component' = Component /\ Past' = Past /\ IsCyclic' = IsCyclic
      /\ AsSet(Component)' = AsSet(Component) /\ AsSet(Component') = AsSet(Component)
  BY <1>1, ComponentKept
<1>7. /\ Finished' = Finished /\ Opened' = Opened /\ Drained' = Drained /\ Current' = Current
      /\ Started' = Started
  <2>1. Finished' = Finished /\ Opened' = Opened /\ Drained' = Drained /\ Current' = Current
    BY <1>1, <1>6 DEF Finished, Opened, Drained, Current
  <2> QED
    BY <1>1, <2>1 DEF Started
<1>8. Points' = Points
  BY <1>1, ProgKept
<1>9. stmt \in Statements /\ stmt[1] = Current /\ (AtSafepoint <=> stmt \in Points)
  <2>1. stmt \in Statements
    BY <1>1, <1>5, SeqFacts
  <2>2. stmt = <<seg[block][1], seg[block][2] + i>>
    BY <1>1, <1>4, <1>5 DEF Segments
  <2> QED
    BY <1>5, <2>1, <2>2 DEF AtSafepoint, Points
<1>10. Remembers(work'.state, Started)
  <2>1. Remembers(work.state, Started)
    BY <1>1, <1>4 DEF OnlyStarted
  <2>2. CASE AtSafepoint /\ ~IsCyclic
    <3>1. work'.state = process_safepoint(work.state, stmt)
      BY <1>1, <2>2 DEF Advances
    <3>2. CASE work.state.remaining = 1
      BY <3>1, <3>2, FullRemembers DEF process_safepoint
    <3>3. CASE work.state.remaining # 1
      <4>1. stmt \in Points /\ stmt[1] \in Started
        BY <1>5, <1>9, <2>2
      <4> HIDE DEF stmt
      <4> QED
        BY <1>5, <2>1, <3>1, <3>3, <4>1, RemembersMore
    <3> QED
      BY <3>2, <3>3
  <2>3. CASE ~(AtSafepoint /\ ~IsCyclic)
    <3>1. work'.state = work.state
      BY <1>1, <2>3 DEF Advances
    <3> QED
      BY <2>1, <3>1
  <2> QED
    BY <2>2, <2>3
<1> HIDE DEF stmt
<1>11. ASSUME NEW X \in SUBSET Points, resets \subseteq X, NEW r, Checks \subseteq Checks',
              should_halt => stmt \in Checks', SameStates(seg, r),
              r[work'.block][2] + work'.index - 1 = Position(seg) + 1
       PROVE  \E C : Bounded(C, X, r)'
  <2>1. PICK G : Stage(G, X, Checks' \cup X, r, Finished, Opened, Drained, outgoing', work.states, Current,
                       Position(seg) + 1, IsCyclic, AsSet(Component), work'.state, work'.seen)
    BY <1>3, <1>11, StatementBounds DEF SameStates, stmt
  <2>2. BoundedThen(G, X, r)
    BY <1>1, <1>6, <1>7, <1>11, <2>1 DEF Stage, BoundedThen
  <2>3. Bounded(G, X, r)'
    BY <1>1, <2>2, BoundedPrimed
  <2> QED
    BY <2>3
<1>12. CASE ~should_halt
  <2>1. Segments(seg)' /\ Located' /\ Checks' = Checks
    BY <1>1, <1>4, <1>12, LayoutKept DEF inserter
  <2>2. /\ succ' = succ /\ checked' = checked /\ leave' = leave /\ Blocks' = Blocks /\ stmts' = stmts
        /\ outgoing' = outgoing /\ incoming' = incoming
    BY <1>1, <1>12 DEF ir, Blocks, inserter
  <2>3. MapsRight(seg)'
    BY <1>1, <1>4, <1>7, <2>2 DEF MapsRight, AsSet
  <2>4. SameStates(seg, seg)
    BY <2>2 DEF SameStates
  <2>5. OnlyStarted(seg)'
    <3>1. i + 1 <= Len(stmts[block]) + 1
      <4>1. i \in 1..Len(stmts[block])
        BY <1>1, <1>5, SeqFacts
      <4> QED
        BY <1>5, <4>1
    <3>2. work'.index <= Len(stmts'[work'.block]) + 1
      BY <1>1, <1>12, <2>2, <3>1
    <3>3. work'.block \notin checked \cup {leave} /\ seg[work'.block][1] = Current
      BY <1>1, <1>5, <1>12
    <3>4. /\ \A e \in DOMAIN outgoing : Remembers(outgoing[e], Finished)
          /\ \A k \in DOMAIN work.states : Remembers(work.states[k], Finished)
          /\ \A b \in checked : seg[b][1] \in Started
      BY <1>4 DEF OnlyStarted
    <3> HIDE DEF i, block
    <3> QED
      BY <1>1, <1>7, <1>10, <2>2, <3>2, <3>3, <3>4 DEF OnlyStarted, Remembers
  <2>6. seg[work'.block][2] + work'.index - 1 = Position(seg) + 1
    <3>1. work'.block = block /\ work'.index = i + 1
      BY <1>1, <1>12
    <3> QED
      BY <1>5, <3>1 DEF Position
  <2>7. \A X \in SUBSET Points : resets \subseteq X => \E C : Bounded(C, X, seg)'
    BY <1>11, <1>12, <2>1, <2>4, <2>6
  <2>8. PassInv(seg)'
    BY <1>1, <1>4, <1>8, <2>1, <2>3, <2>5, <2>7 DEF PassInv
  <2> QED
    BY <2>8
<1>13. CASE should_halt
  <2>1. insert_halt_check_after(block, i) /\ work'.block = Continuation /\ work'.index = 1
    BY <1>1, <1>13
  <2>2. stmt \in Points
    BY <1>9, <1>13 DEF should_halt
  <2>3. PICK r : SplitRight(seg, r, block, i)
    <3>1. stmts[block][i] \in Points
      BY <2>2 DEF stmt
    <3> HIDE DEF block, i
    <3> QED
      BY <1>1, <1>2, <1>4, <1>5, <1>7, <2>1, <3>1, SplitSound
  <2>4. /\ Moved(seg, r, block, i) /\ Segments(r)' /\ Located' /\ MapsRight(r)' /\ SameStates(seg, r)
        /\ Checks \subseteq Checks' /\ stmt \in Checks'
        /\ \A b \in checked' : r[b][1] = seg[block][1] \/ (b \in checked /\ r[b] = seg[b])
    BY <2>3 DEF SplitRight, stmt
  <2>5. Split(block, i)
    BY <1>1, <1>5, <2>1, SplitFacts
  <2>6. Len(stmts'[Continuation]) \in Nat
    <3>1. Pieces(block, i, Len(stmts[block]))
      BY <1>1, <1>5, <2>5, SplitPieces
    <3> DEFINE n == Len(stmts[block])
    <3>2. Len(stmts'[Continuation]) = n - i /\ n \in Nat /\ i \in 1..n
      BY <3>1 DEF Pieces
    <3> HIDE DEF n, i
    <3> QED
      BY <3>2
  <2>7. Continuation \notin checked' \cup {leave'}
    <3>1. checked' = checked \cup {block} /\ Continuation \notin Blocks /\ Continuation # leave'
      BY <1>5, <2>5 DEF Split
    <3>2. checked \subseteq Blocks
      BY <1>5 DEF IrShape
    <3> QED
      BY <1>5, <3>1, <3>2
  <2>8. r[Continuation] = <<Current, seg[block][2] + i>>
    BY <1>5, <2>4 DEF Moved
  <2>9. OnlyStarted(r)'
    <3>1. /\ \A e \in DOMAIN outgoing : Remembers(outgoing[e], Finished)
          /\ \A k \in DOMAIN work.states : Remembers(work.states[k], Finished)
          /\ \A b \in checked : seg[b][1] \in Started
      BY <1>4 DEF OnlyStarted
    <3>2. \A e \in DOMAIN outgoing' : Remembers(outgoing'[e], Finished)
      BY <2>4, <3>1 DEF SameStates
    <3>3. \A b \in checked' : r[b][1] \in Started
      BY <1>5, <2>4, <3>1
    <3>4. 1 <= Len(stmts'[Continuation]) + 1 /\ r[Continuation][1] = Current
      BY <2>6, <2>8
    <3> HIDE DEF i, block
    <3> QED
      BY <1>1, <1>7, <1>10, <2>1, <2>7, <3>1, <3>2, <3>3, <3>4 DEF OnlyStarted, Remembers
  <2>10. r[work'.block][2] + work'.index - 1 = Position(seg) + 1
    <3>1. r[work'.block][2] = seg[block][2] + i
      BY <2>1, <2>8
    <3> QED
      BY <1>5, <2>1, <3>1 DEF Position
  <2>11. \A X \in SUBSET Points : resets \subseteq X => \E C : Bounded(C, X, r)'
    BY <1>11, <2>4, <2>10
  <2>12. PassInv(r)'
    <3>1. resets' \subseteq Checks'
      BY <1>1, <1>4, <2>4
    <3> QED
      BY <1>1, <1>8, <2>4, <2>9, <2>11, <3>1 DEF PassInv
  <2> QED
    BY <2>12
<1> QED
  BY <1>12, <1>13

\* The block in hand is finished.
LEMMA FinishSets ==
    ASSUME SoundInv, FinishBlock, pc' # "assert_failed", NEW seg, PassInv(seg)
    PROVE  /\ Opened = Past \cup AsSet(Component) /\ Drained = {}
           /\ Finished' = Finished \cup {Current} /\ Opened' = Opened /\ Drained' = {}
           /\ work'.states = work.states
           /\ pc' = "blocks" =>
                 /\ work'.component = work.component /\ work.next # Len(Component)
                 /\ work.next + 1 \in DOMAIN Component
                 /\ work'.next = work.next + 1 /\ work'.index = 1 /\ work'.seen = FALSE
                 /\ work'.state = work.state /\ work'.block = Component[work.next + 1]
<1>1. pc = "blocks" /\ prog' = prog /\ graph' = graph
  BY DEF FinishBlock
<1>2. Inserting /\ Shape /\ Ranked /\ work \in Works /\ work.next \in DOMAIN Component
  BY <1>1, InBlocks
<1>3. /\ DOMAIN Component = 1..Len(Component) /\ Len(Component) \in Nat \ {0} /\ work.next \in Nat
      /\ work.component \in Nat /\ Len(graph.topo_order) \in Nat
      /\ work.component \in DOMAIN graph.topo_order
      /\ DOMAIN graph.topo_order = 1..Len(graph.topo_order)
  BY <1>2, InsertingFacts DEF Works, Shape, WorkShape
<1> DEFINE members == AsSet(Component)
           nx == work.next + 1
           Upto(k) == {Component[j] : j \in {i \in DOMAIN Component : i < k}}
<1>4. Finished = Past \cup Upto(work.next) /\ Opened = Past \cup members /\ Drained = {}
  BY <1>1 DEF Finished, Opened, Drained
<1>5. Upto(nx) = Upto(work.next) \cup {Current}
  <2>1. {i \in DOMAIN Component : i < nx} = {i \in DOMAIN Component : i < work.next} \cup {work.next}
    BY <1>2, <1>3
  <2> QED
    BY <2>1 DEF Current
<1>6. work.next = Len(Component) => Upto(nx) = members
  <2> SUFFICES ASSUME work.next = Len(Component) PROVE Upto(nx) = members
    OBVIOUS
  <2>1. {i \in DOMAIN Component : i < nx} = DOMAIN Component
    BY <1>3
  <2> QED
    BY <2>1 DEF AsSet
<1> DEFINE last == work.next = Len(Component)
           end == work.component = Len(graph.topo_order)
<1>7. /\ pc' = IF ~last THEN "blocks" ELSE IF end THEN "sort" ELSE "drain"
      /\ work' = IF ~last
                 THEN [work EXCEPT !.next = @ + 1, !.index = 1, !.seen = FALSE,
                                   !.block = Component[work.next + 1]]
                 ELSE IF end THEN work
                 ELSE [work EXCEPT !.component = @ + 1, !.next = 1]
  BY DEF FinishBlock
<1>8. /\ \A b : b \in members <=> b \in SourceBlocks /\ RankOf(b) = work.component
      /\ \A b \in SourceBlocks : RankOf(b) \in 1..Len(graph.topo_order)
  BY <1>2 DEF Ranked
<1>9. SourceBlocks' = SourceBlocks
  BY <1>1, ProgKept
<1> HIDE DEF members, Upto
<1>10. CASE ~last
  <2> DEFINE c == Component[nx]
  <2>1. work' = [work EXCEPT !.next = nx, !.index = 1, !.seen = FALSE, !.block = c] /\ pc' = "blocks"
    BY <1>7, <1>10
  <2> HIDE DEF nx, c
  <2>2. /\ work'.component = work.component /\ work'.next = nx /\ work'.index = 1 /\ work'.seen = FALSE
        /\ work'.state = work.state /\ work'.block = c /\ work'.states = work.states
    BY <1>2, <2>1 DEF Works
  <2>3. Component' = Component /\ Past' = Past /\ AsSet(Component)' = members
    BY <1>1, <2>2, ComponentKept DEF members
  <2>4. Finished' = Past \cup Upto(nx) /\ Opened' = Past \cup members /\ Drained' = {}
    BY <2>1, <2>2, <2>3 DEF Finished, Opened, Drained, Upto
  <2>5. nx \in DOMAIN Component
    BY <1>2, <1>3, <1>10 DEF nx
  <2> QED
    BY <1>4, <1>5, <1>10, <2>2, <2>4, <2>5 DEF nx, c, members
<1>11. CASE last /\ end
  <2>1. work' = work /\ pc' = "sort"
    BY <1>7, <1>11
  <2>2. Finished' = SourceBlocks /\ Opened' = SourceBlocks /\ Drained' = {}
    BY <1>9, <2>1 DEF Finished, Opened, Drained, Inserting
  <2>3. Past \cup members = SourceBlocks
    <3>1. \A b \in SourceBlocks : RankOf(b) < work.component \/ RankOf(b) = work.component
      BY <1>3, <1>8, <1>11
    <3> QED
      BY <1>8, <3>1 DEF Past
  <2> QED
    BY <1>4, <1>5, <1>6, <1>11, <2>1, <2>2, <2>3 DEF members
<1>12. CASE last /\ ~end
  <2> DEFINE cx == work.component + 1
  <2>1. work' = [work EXCEPT !.component = cx, !.next = 1] /\ pc' = "drain"
    BY <1>7, <1>12
  <2>2. cx \in Nat /\ cx \in DOMAIN graph.topo_order
    BY <1>3, <1>12
  <2> HIDE DEF cx
  <2>3. work'.component = cx /\ work'.next = 1 /\ work'.states = work.states
    BY <1>2, <2>1 DEF Works
  <2>4. Past' = Past \cup members
    <3>1. \A b : RankOf(b)' = RankOf(b)
      BY <1>1, RankKept
    <3>2. \A b \in SourceBlocks : RankOf(b) < cx <=> RankOf(b) < work.component \/ RankOf(b) = work.component
      BY <1>3, <1>8 DEF cx
    <3> QED
      BY <1>8, <1>9, <2>3, <3>1, <3>2 DEF Past
  <2>5. Finished' = Past' /\ Opened' = Past'
    BY <2>1 DEF Finished, Opened, Inserting
  <2>6. Drained' = {}
    <3>1. DOMAIN Component' \subseteq Nat \ {0}
      <4>1. Component' = graph.components[graph.topo_order[cx]]
        BY <1>1, <2>3 DEF Component
      <4>2. prog \in Programs /\ GraphRight
        BY <1>2, InsertingFacts
      <4> DEFINE d == graph.components[graph.topo_order[cx]]
      <4>3. DOMAIN d = 1..Len(d)
        BY <2>2, <4>2, ComponentFacts
      <4> HIDE DEF d
      <4> QED
        BY <4>1, <4>3 DEF d
    <3>2. {i \in DOMAIN Component' : i < 1} = {}
      BY <3>1
    <3> QED
      BY <2>1, <2>3, <3>2 DEF Drained
  <2> QED
    BY <1>4, <1>5, <1>6, <1>12, <2>1, <2>3, <2>4, <2>5, <2>6 DEF members
<1> HIDE DEF last, end
<1> QED
  BY <1>10, <1>11, <1>12

\* Where the block in hand leads: inside a cyclic component, or to blocks that
\* are not opened yet.
LEMMA Onward ==
    ASSUME SoundInv, pc = "blocks", NEW seg, PassInv(seg), NEW c \in AsSet(prog.succ[Current])
    PROVE  c \in Past \cup AsSet(Component) <=> IsCyclic /\ c \in AsSet(Component)
<1>1. /\ Ranked /\ Current \in AsSet(Component) /\ Current \in SourceBlocks /\ work \in Works
      /\ work.next \in DOMAIN Component /\ Inserting /\ Shape
  BY InBlocks
<1>2. DOMAIN Component = 1..Len(Component)
  BY <1>1, InsertingFacts
<1>3. c \notin Past
  <2>1. c \in SourceBlocks /\ RankOf(Current) <= RankOf(c) /\ RankOf(Current) = work.component
        /\ RankOf(c) \in Nat /\ work.component \in Nat
    BY <1>1 DEF Ranked, Works
  <2> QED
    BY <2>1 DEF Past
<1>4. ~IsCyclic => c \notin AsSet(Component)
  <2> SUFFICES ASSUME ~IsCyclic PROVE c \notin AsSet(Component)
    OBVIOUS
  <2>1. Len(Component) = 1 /\ Component[1] \notin AsSet(prog.succ[Component[1]])
    BY <1>1 DEF Ranked
  <2>2. work.next = 1 /\ Current = Component[1] /\ AsSet(Component) = {Component[1]}
    BY <1>1, <1>2, <2>1 DEF Current, AsSet
  <2> QED
    BY <2>1, <2>2
<1> QED
  BY <1>3, <1>4

LEMMA FinishSound ==
    ASSUME SoundInv, FinishBlock, pc' # "assert_failed"
    PROVE  \E seg : PassInv(seg)'
<1>1. /\ pc = "blocks" /\ prog' = prog /\ graph' = graph /\ ir' = ir /\ loc' = loc /\ resets' = resets
      /\ work.index > Len(stmts[work.block])
  BY DEF FinishBlock
<1>2. Inserting
  BY <1>1 DEF Inserting
<1>3. PICK seg : PassInv(seg)
  BY <1>2 DEF SoundInv
<1>4. /\ Segments(seg) /\ Located /\ MapsRight(seg) /\ OnlyStarted(seg) /\ resets \subseteq Checks
  BY <1>3 DEF PassInv
<1> DEFINE b == work.block
           cur == Current
           members == AsSet(Component)
           s == work.state
           targets == {c \in AsSet(succ[b]) : ~(IsCyclic /\ c \in members)}
           added == {<<b, c>> : c \in targets}
           taken == take_current_state
<1>5. /\ Shape /\ prog \in Programs /\ IrShape /\ OutgoingShape /\ Ranked /\ work \in Works
      /\ s \in GoodStates /\ members \subseteq SourceBlocks /\ cur \in members
      /\ work.next \in DOMAIN Component /\ cur \in SourceBlocks \ Finished
      /\ Started = Finished \cup {cur} /\ Finished \subseteq SourceBlocks
      /\ \A d \in SourceBlocks : Len(prog.body[d]) \in Nat
      /\ b \in Blocks \ (checked \cup {leave})
      /\ seg[b][1] = cur /\ seg[b][2] \in Nat
      /\ work.index \in Nat \ {0} /\ work.index <= Len(stmts[b]) + 1 /\ Len(stmts[b]) \in Nat
  BY <1>1, <1>3, InBlocks
<1>6. succ[b] = prog.succ[cur] /\ Position(seg) = Len(prog.body[cur])
  <2>1. succ[b] = prog.succ[cur] /\ seg[b][2] + Len(stmts[b]) = Len(prog.body[cur])
    BY <1>4, <1>5 DEF Segments
  <2>2. work.index - 1 = Len(stmts[b])
    BY <1>1, <1>5
  <2>3. Position(seg) = seg[b][2] + Len(stmts[b])
    BY <1>5, <2>2 DEF Position
  <2> QED
    BY <2>1, <2>3
<1>7. /\ Opened = Past \cup members /\ Drained = {}
      /\ Finished' = Finished \cup {cur} /\ Opened' = Opened /\ Drained' = {}
      /\ work'.states = work.states
      /\ pc' = "blocks" =>
            /\ work'.component = work.component /\ work.next # Len(Component)
            /\ work.next + 1 \in DOMAIN Component
            /\ work'.next = work.next + 1 /\ work'.index = 1 /\ work'.seen = FALSE
            /\ work'.state = s /\ work'.block = Component[work.next + 1]
  BY <1>3, FinishSets
<1>8. \A c \in AsSet(prog.succ[cur]) : c \in Opened <=> IsCyclic /\ c \in members
  BY <1>1, <1>3, <1>7, Onward
<1>9. targets = {c \in AsSet(prog.succ[cur]) : c \notin Opened}
  BY <1>6, <1>8
<1>10. /\ outgoing' = [e \in DOMAIN outgoing \cup added |-> IF e \in added THEN taken ELSE outgoing[e]]
       /\ incoming' = incoming \cup {<<c, b>> : c \in targets}
  BY DEF FinishBlock
<1>11. \A e \in added : e[1] = b /\ e[2] \in targets
  OBVIOUS
<1>12. \A c \in targets : <<b, c>> \in added
  OBVIOUS
<1> HIDE DEF targets, added, members, cur, b
<1>13. /\ DOMAIN outgoing' = DOMAIN outgoing \cup added
       /\ \A e \in DOMAIN outgoing' : outgoing'[e] = IF e \in added THEN taken ELSE outgoing[e]
  BY <1>10
<1>14. /\ incoming = {<<e[2], e[1]>> : e \in DOMAIN outgoing}
       /\ \A e \in DOMAIN outgoing :
             /\ e[1] \in Blocks \ ({leave} \cup checked) /\ seg[e[1]][1] \in Finished
             /\ e[2] \in AsSet(succ[e[1]]) /\ e[2] \notin Opened
       /\ \A d \in Finished : \A c \in AsSet(prog.succ[d]) :
             c \in Opened \/ \E e \in DOMAIN outgoing : seg[e[1]][1] = d /\ e[2] = c
  BY <1>4, <1>7 DEF MapsRight
<1>15. Segments(seg)' /\ Located' /\ Checks' = Checks
  BY <1>1, <1>4, LayoutKept
<1>16. /\ succ' = succ /\ checked' = checked /\ leave' = leave /\ Blocks' = Blocks /\ stmts' = stmts
  BY <1>1 DEF ir, Blocks
<1>17. MapsRight(seg)'
  <2>1. incoming' = {<<e[2], e[1]>> : e \in DOMAIN outgoing'}
    <3>1. {<<c, b>> : c \in targets} = {<<e[2], e[1]>> : e \in added}
      <4>1. \A c \in targets : <<b, c>>[1] = b /\ <<b, c>>[2] = c
        OBVIOUS
      <4> QED
        BY <1>11, <1>12, <4>1
    <3> QED
      BY <1>10, <1>13, <1>14, <3>1
  <2>2. ASSUME NEW e \in DOMAIN outgoing'
        PROVE  /\ e[1] \in Blocks \ ({leave} \cup checked) /\ seg[e[1]][1] \in Finished'
               /\ e[2] \in AsSet(succ[e[1]]) /\ e[2] \notin Opened
    <3>1. CASE e \in DOMAIN outgoing
      BY <1>7, <1>14, <3>1
    <3>2. CASE e \in added
      BY <1>5, <1>6, <1>7, <1>9, <1>11, <3>2
    <3> QED
      BY <1>13, <3>1, <3>2
  <2>3. ASSUME NEW d \in Finished', NEW c \in AsSet(prog.succ[d]), c \notin Opened
        PROVE  \E e \in DOMAIN outgoing' : seg[e[1]][1] = d /\ e[2] = c
    <3>1. CASE d \in Finished
      BY <1>13, <1>14, <2>3, <3>1
    <3>2. CASE d = cur
      <4>1. <<b, c>> \in DOMAIN outgoing'
        BY <1>9, <1>12, <1>13, <2>3, <3>2
      <4>2. <<b, c>>[1] = b /\ <<b, c>>[2] = c
        OBVIOUS
      <4> QED
        BY <1>5, <3>2, <4>1, <4>2
    <3> QED
      BY <1>7, <2>3, <3>1, <3>2
  <2> QED
    BY <1>1, <1>7, <1>16, <2>1, <2>2, <2>3 DEF MapsRight, AsSet
<1>18. Remembers(taken, Finished')
  <2>1. Remembers(s, Finished')
    BY <1>1, <1>4, <1>5, <1>7 DEF OnlyStarted
  <2> QED
    BY <2>1, FullRemembers DEF take_current_state
<1> DEFINE nxt == Component[work.next + 1]
<1>19. pc' = "blocks" => /\ Current' = nxt /\ nxt \in members /\ nxt \notin Finished'
                         /\ Component' = Component /\ IsCyclic' = IsCyclic /\ AsSet(Component') = members
                         /\ IsCyclic
  <2> SUFFICES ASSUME pc' = "blocks"
               PROVE  /\ Current' = nxt /\ nxt \in members /\ nxt \notin Finished'
                      /\ Component' = Component /\ IsCyclic' = IsCyclic /\ AsSet(Component') = members
                      /\ IsCyclic
    OBVIOUS
  <2>1. Component' = Component /\ IsCyclic' = IsCyclic /\ AsSet(Component') = members
    BY <1>1, <1>7, ComponentKept DEF members
  <2>2. work.next + 1 \in DOMAIN Component /\ work.next # Len(Component)
    BY <1>7
  <2>3. Current' = nxt /\ nxt \in members
    BY <1>7, <2>1, <2>2 DEF Current, members, AsSet
  <2>4. DOMAIN Component = 1..Len(Component) /\ Len(Component) \in Nat /\ work.next \in Nat
        /\ work.component \in Nat
    BY <1>2, <1>5, InsertingFacts DEF Works
  <2>5. IsCyclic
    <3>1. ~IsCyclic => Len(Component) = 1
      BY <1>5 DEF Ranked
    <3> QED
      BY <1>5, <2>2, <2>4, <3>1
  <2>6. nxt \notin Finished'
    <3>1. nxt \notin Past
      <4>1. RankOf(nxt) = work.component
        BY <1>5, <2>3 DEF Ranked, members
      <4> QED
        BY <2>4, <4>1 DEF Past
    <3>2. \A j \in DOMAIN Component : Component[j] = nxt => j = work.next + 1
      BY <1>5, <2>2 DEF Ranked
    <3>3. nxt \notin Finished
      <4>1. Finished = Past \cup {Component[j] : j \in {i \in DOMAIN Component : i < work.next}}
        BY <1>1 DEF Finished
      <4>2. \A j \in DOMAIN Component : j < work.next => j # work.next + 1
        BY <2>4
      <4> HIDE DEF nxt
      <4> QED
        BY <3>1, <3>2, <4>1, <4>2
    <3>4. nxt # cur
      BY <1>5, <2>4, <3>2 DEF cur, Current
    <3> QED
      BY <1>7, <3>3, <3>4
  <2> QED
    BY <2>1, <2>3, <2>5, <2>6
<1>20. pc' = "blocks" => /\ nxt \notin checked \cup {leave} /\ seg[nxt] = <<nxt, 0>>
                         /\ Len(stmts[nxt]) \in Nat
  <2> SUFFICES ASSUME pc' = "blocks"
               PROVE  /\ nxt \notin checked \cup {leave} /\ seg[nxt] = <<nxt, 0>>
                      /\ Len(stmts[nxt]) \in Nat
    OBVIOUS
  <2>1. nxt \in SourceBlocks /\ nxt \notin Finished'
    BY <1>5, <1>19
  <2> HIDE DEF nxt
  <2>2. nxt # leave /\ seg[nxt] = <<nxt, 0>>
    BY <1>4, <2>1 DEF Segments
  <2>3. \A d \in checked : seg[d][1] \in Finished'
    BY <1>4, <1>5, <1>7 DEF OnlyStarted
  <2>4. nxt \in Blocks
    BY <1>5, <2>1, BlocksFacts
  <2>5. stmts[nxt] \in Seq(Statements)
    BY <1>5, <2>4, BlocksFacts
  <2>6. Len(stmts[nxt]) \in Nat
    BY <2>5, SeqFacts
  <2> QED
    BY <2>1, <2>2, <2>3, <2>6
<1>21. OnlyStarted(seg)'
  <2>1. /\ \A e \in DOMAIN outgoing : Remembers(outgoing[e], Finished)
        /\ \A i \in DOMAIN work.states : Remembers(work.states[i], Finished)
        /\ \A d \in checked : seg[d][1] \in Finished'
        /\ Remembers(s, Finished')
    BY <1>1, <1>4, <1>5, <1>7 DEF OnlyStarted
  <2>2. Finished \subseteq Finished' /\ Finished' \subseteq Started'
    BY <1>7 DEF Started
  <2>3. \A x : Remembers(x, Finished) => Remembers(x, Finished')
    BY <2>2 DEF Remembers
  <2>4. \A e \in DOMAIN outgoing' : Remembers(outgoing'[e], Finished')
    BY <1>13, <1>18, <2>1, <2>3
  <2>5. \A i \in DOMAIN work'.states : Remembers(work'.states[i], Finished')
    BY <1>7, <2>1, <2>3
  <2>6. \A d \in checked' : seg[d][1] \in Started'
    BY <1>16, <2>1, <2>2
  <2>7. ASSUME pc' = "blocks"
        PROVE  /\ Remembers(work'.state, Started') /\ work'.block \notin checked' \cup {leave'}
               /\ seg[work'.block][1] = Current' /\ work'.index <= Len(stmts'[work'.block]) + 1
    <3>1. work'.block = nxt /\ work'.state = s /\ work'.index = 1
      BY <1>7, <2>7
    <3>2. Remembers(work'.state, Started')
      BY <2>1, <2>2, <3>1 DEF Remembers
    <3>3. seg[nxt][1] = nxt /\ 1 <= Len(stmts[nxt]) + 1
      BY <1>20, <2>7
    <3> QED
      BY <1>16, <1>19, <1>20, <2>7, <3>1, <3>2, <3>3
  <2> QED
    BY <2>4, <2>5, <2>6, <2>7 DEF OnlyStarted, Remembers
<1>22. ASSUME NEW X \in SUBSET Points, resets \subseteq X PROVE \E C : Bounded(C, X, seg)'
  <2>1. PICK C : Bounded(C, X, seg)
    BY <1>3, <1>22 DEF PassInv
  <2> DEFINE Y == Checks \cup X
             n == Len(prog.body[cur])
  <2>2. /\ Flows(C, Y, Finished, Opened)
        /\ \A e \in DOMAIN outgoing : AtEnd(C, seg[e[1]][1]) <= Room(outgoing[e], X)
        /\ Here(C, X, Y, cur, n, IsCyclic, members, s, work.seen)
    BY <1>1, <1>6, <2>1 DEF Bounded, Counted, cur, members
  <2>3. N \in Nat \ {0} /\ s.remaining \in 1..N
    BY <1>5, StateFacts
  <2>4. AtEnd(C, cur) \in 0..(N - 1)
    <3>1. <<cur, n>> \in SourceBlocks \X Nat
      BY <1>5
    <3> QED
      BY <2>2, <3>1 DEF Flows, AtEnd
  <2>5. /\ Rises(C, Y, cur, n)
        /\ IsCyclic => /\ \A m \in members : C[<<m, 0>>] = N - s.remaining
                       /\ AtEnd(C, cur) <= IF work.seen THEN 0 ELSE N - s.remaining
        /\ ~IsCyclic => AtEnd(C, cur) <= Room(s, X)
    BY <2>2 DEF Here, AtEnd
  <2> HIDE DEF Y, n, s
  <2>6. ASSUME NEW c \in AsSet(prog.succ[cur]), c \in Opened PROVE AtEnd(C, cur) <= C[<<c, 0>>]
    <3>1. IsCyclic /\ c \in members
      BY <1>8, <2>6
    <3>2. C[<<c, 0>>] = N - s.remaining /\ AtEnd(C, cur) <= IF work.seen THEN 0 ELSE N - s.remaining
      BY <2>5, <3>1
    <3> QED
      BY <2>3, <2>4, <3>2
  <2>7. Flows(C, Y, Finished \cup {cur}, Opened)
    BY <2>2, <2>5, <2>6, FlowsFinish DEF n
  <2>8. AtEnd(C, cur) <= Room(taken, X)
    <3>1. CASE ~IsCyclic
      BY <2>5, <3>1 DEF take_current_state, s
    <3>2. CASE IsCyclic /\ work.seen
      <4>1. taken = from_remaining(N)
        BY <3>2 DEF take_current_state
      <4>2. Room(from_remaining(N), X) = N - N
        BY <1>5, <2>3, RoomFull
      <4> HIDE DEF taken
      <4> QED
        BY <2>3, <2>4, <2>5, <3>2, <4>1, <4>2
    <3>3. CASE IsCyclic /\ ~work.seen
      <4>1. taken = from_remaining(s.remaining)
        BY <3>3 DEF take_current_state, s
      <4>2. Room(from_remaining(s.remaining), X) = N - s.remaining
        BY <1>5, <2>3, RoomFull
      <4> HIDE DEF taken
      <4> QED
        BY <2>5, <3>3, <4>1, <4>2
    <3> QED
      BY <3>1, <3>2, <3>3
  <2>9. Counted(C, X, seg, Finished', {}, outgoing', work'.states)
    <3>1. ASSUME NEW e \in DOMAIN outgoing' PROVE AtEnd(C, seg[e[1]][1]) <= Room(outgoing'[e], X)
      <4> HIDE DEF taken
      <4>1. CASE e \in added
        <5>1. seg[e[1]][1] = cur /\ outgoing'[e] = taken
          BY <1>5, <1>11, <1>13, <4>1
        <5> QED
          BY <2>8, <5>1
      <4>2. CASE e \notin added
        BY <1>13, <2>2, <4>2
      <4> QED
        BY <4>1, <4>2
    <3> QED
      BY <3>1 DEF Counted
  <2>10. ASSUME pc' = "blocks"
         PROVE  Here(C, X, Y, nxt, 0, IsCyclic, members, s, FALSE)
    <3>1. Rises(C, Y, nxt, 0)
      BY DEF Rises
    <3>2. IsCyclic /\ nxt \in members
      BY <1>19, <2>10
    <3> HIDE DEF nxt
    <3>3. C[<<nxt, 0>>] = N - s.remaining
      BY <2>5, <3>2
    <3>4. C[<<nxt, 0>>] <= N - s.remaining
      BY <2>3, <3>3
    <3> QED
      BY <2>5, <3>1, <3>2, <3>4 DEF Here
  <2>11. pc' = "blocks" => Here(C, X, Checks' \cup X, Current', seg[work'.block][2] + work'.index - 1,
                                IsCyclic', AsSet(Component'), work'.state, work'.seen)
    <3> SUFFICES ASSUME pc' = "blocks"
                 PROVE  Here(C, X, Checks' \cup X, Current', seg[work'.block][2] + work'.index - 1,
                             IsCyclic', AsSet(Component'), work'.state, work'.seen)
      OBVIOUS
    <3>1. seg[work'.block][2] + work'.index - 1 = 0 /\ work'.state = s /\ work'.seen = FALSE
      BY <1>7, <1>20 DEF s
    <3>2. Current' = nxt /\ IsCyclic' = IsCyclic /\ AsSet(Component') = members /\ Checks' = Checks
      BY <1>15, <1>19
    <3>3. Here(C, X, Y, nxt, 0, IsCyclic, members, s, FALSE)
      BY <2>10
    <3> HIDE DEF nxt
    <3> QED
      BY <3>1, <3>2, <3>3 DEF Y
  <2>12. BoundedThen(C, X, seg)
    BY <1>7, <1>15, <2>7, <2>9, <2>11 DEF BoundedThen, Y
  <2>13. Bounded(C, X, seg)'
    BY <1>1, <2>12, BoundedPrimed
  <2> QED
    BY <2>13
<1>23. PassInv(seg)'
  <2>1. Points' = Points
    BY <1>1, ProgKept
  <2>2. resets' \subseteq Checks'
    BY <1>1, <1>4, <1>15
  <2> QED
    BY <1>1, <1>15, <1>17, <1>21, <1>22, <2>1, <2>2 DEF PassInv
<1> QED
  BY <1>23

\* Steps that leave the pass alone.
LEMMA SameSound ==
    ASSUME SoundInv, Untouched, work' = work, Inserting \/ Inserted,
           pc' = pc \/ (Inserted /\ Inserted')
    PROVE  \E seg : PassInv(seg)'
<1>1. prog' = prog /\ graph' = graph /\ ir' = ir /\ inserter' = inserter
  BY DEF Untouched
<1>2. PICK seg : PassInv(seg)
  BY DEF SoundInv
<1>3. /\ Segments(seg) /\ Located /\ MapsRight(seg) /\ OnlyStarted(seg) /\ resets \subseteq Checks
  BY <1>2 DEF PassInv
<1>4. /\ Component' = Component /\ IsCyclic' = IsCyclic /\ Past' = Past
      /\ AsSet(Component)' = AsSet(Component) /\ AsSet(Component') = AsSet(Component)
  BY <1>1, ComponentKept
<1>5. Points' = Points /\ SourceBlocks' = SourceBlocks
  BY <1>1, ProgKept
<1>6. /\ Finished' = Finished /\ Opened' = Opened /\ Drained' = Drained
      /\ (pc' = "blocks" => pc = "blocks")
  <2>1. CASE pc' = pc
    BY <1>4, <1>5, <2>1 DEF Finished, Opened, Drained, Inserting
  <2>2. CASE Inserted /\ Inserted'
    BY <1>5, <2>2 DEF Finished, Opened, Drained, Inserting, Inserted
  <2> QED
    BY <2>1, <2>2
<1>7. Current' = Current /\ Started' = Started
  <2>1. Current' = Current
    BY <1>4 DEF Current
  <2>2. pc' = "blocks" <=> pc = "blocks"
    BY DEF Inserted
  <2> QED
    BY <1>6, <2>1, <2>2 DEF Started
<1>8. Segments(seg)' /\ Located' /\ Checks' = Checks
  BY <1>1, <1>3, LayoutKept DEF inserter
<1>9. /\ succ' = succ /\ checked' = checked /\ leave' = leave /\ Blocks' = Blocks /\ stmts' = stmts
      /\ outgoing' = outgoing /\ incoming' = incoming /\ resets' = resets
  BY <1>1 DEF ir, Blocks, inserter
<1>10. MapsRight(seg)'
  BY <1>1, <1>3, <1>6, <1>9 DEF MapsRight, AsSet
<1>11. OnlyStarted(seg)'
  BY <1>3, <1>6, <1>7, <1>9 DEF OnlyStarted, Remembers
<1>12. ASSUME NEW X \in SUBSET Points, resets \subseteq X PROVE \E C : Bounded(C, X, seg)'
  <2>1. PICK C : Bounded(C, X, seg)
    BY <1>2, <1>12 DEF PassInv
  <2>2. BoundedThen(C, X, seg)
    BY <1>4, <1>6, <1>7, <1>8, <1>9, <2>1 DEF BoundedThen, Bounded, Position
  <2>3. Bounded(C, X, seg)'
    BY <1>1, <2>2, BoundedPrimed
  <2> QED
    BY <2>3
<1>13. PassInv(seg)'
  BY <1>3, <1>5, <1>8, <1>9, <1>10, <1>11, <1>12 DEF PassInv
<1> QED
  BY <1>13

LEMMA SoundInit ==
    ASSUME Init
    PROVE  SoundInv
<1>1. Shape
  BY ShapeInit
<1>2. pc = "validate" /\ NothingYet
  BY DEF Init, NothingYet
<1> QED
  BY <1>1, <1>2 DEF SoundInv, Inserting, Inserted

LEMMA SoundNext ==
    ASSUME SoundInv, [Next]_vars
    PROVE  SoundInv'
<1>1. Shape'
  BY ShapeNext DEF SoundInv
<1>2. ASSUME pc \in {"validate", "scc", "order"}, ir' = ir, inserter' = inserter PROVE NothingYet'
  <2>1. /\ checked' = checked /\ leave' = leave /\ outgoing' = outgoing /\ incoming' = incoming
        /\ resets' = resets
    BY <1>2 DEF ir, inserter
  <2> QED
    BY <1>2, <2>1 DEF SoundInv, NothingYet
<1>3. CASE TarjanRun \/ TarjanVisit \/ TarjanReturn \/ AssertCyclesHaveSafepoints
  <2>1. pc \in {"validate", "scc", "order"} /\ ir' = ir /\ inserter' = inserter
        /\ pc' \in {"validate", "scc", "panic"}
    BY <1>3 DEF TarjanRun, TarjanVisit, TarjanReturn, AssertCyclesHaveSafepoints, Analysing, ir, inserter
  <2> QED
    BY <1>1, <1>2, <2>1 DEF SoundInv, Inserting, Inserted
<1>4. CASE SccGraphNew \/ TopoStep
  <2>1. pc \in {"validate", "scc", "order"} /\ ir' = ir /\ inserter' = inserter /\ pc' = "order"
    BY <1>4 DEF SccGraphNew, TopoStep, ir, inserter
  <2> QED
    BY <1>1, <1>2, <2>1 DEF SoundInv, Inserting, Inserted
<1>5. ASSUME pc' \in {"panic", "assert_failed"} \/ Inserting' \/ Inserted',
             Inserting' \/ Inserted' => \E seg : PassInv(seg)'
      PROVE  SoundInv'
  BY <1>1, <1>5 DEF SoundInv, Inserting, Inserted
<1>6. CASE InserterNew
  <2>1. pc' \in {"drain", "assert_failed"}
    BY <1>6 DEF InserterNew
  <2> QED
    BY <1>5, <1>6, <2>1, NewSound DEF Inserting, Inserted
<1>7. CASE DrainIncoming
  <2>1. pc' \in {"drain", "assert_failed"}
    BY <1>7 DEF DrainIncoming
  <2> QED
    BY <1>5, <1>7, <2>1, DrainSound DEF Inserting, Inserted
<1>8. CASE MergeHaltStates
  <2>1. pc' \in {"blocks", "compensate"}
    BY <1>8 DEF MergeHaltStates
  <2> QED
    BY <1>5, <1>8, <2>1, MergeSound DEF Inserting, Inserted
<1>9. CASE InsertCompensatingCheck
  <2>1. pc' \in {"compensate", "assert_failed"}
    BY <1>9 DEF InsertCompensatingCheck
  <2> QED
    BY <1>5, <1>9, <2>1, CompensateSound DEF Inserting, Inserted
<1>10. CASE MergeNormalized
  <2>1. pc' \in {"blocks", "assert_failed"}
    BY <1>10 DEF MergeNormalized
  <2> QED
    BY <1>5, <1>10, <2>1, NormalizedSound DEF Inserting, Inserted
<1>11. CASE ProcessStatement
  <2>1. pc' \in {"blocks", "assert_failed"}
    BY <1>11 DEF ProcessStatement
  <2> QED
    BY <1>5, <1>11, <2>1, StatementSound DEF Inserting, Inserted
<1>12. CASE FinishBlock
  <2>1. pc' \in {"blocks", "sort", "drain", "assert_failed"}
    BY <1>12 DEF FinishBlock
  <2> QED
    BY <1>5, <1>12, <2>1, FinishSound DEF Inserting, Inserted
<1>13. CASE TopoSortStep \/ Built
  <2>1. Inserted /\ Inserted' /\ Untouched /\ work' = work
    BY <1>13 DEF TopoSortStep, Built, Inserted, Untouched, ir, inserter
  <2> QED
    BY <1>5, <2>1, SameSound
<1>14. CASE Terminated \/ UNCHANGED vars
  <2>1. pc' = pc /\ Untouched /\ work' = work /\ ir' = ir /\ inserter' = inserter
    BY <1>14 DEF Terminated, Untouched, vars, ir, inserter
  <2>2. CASE Inserting \/ Inserted
    BY <1>5, <2>1, <2>2, SameSound DEF Inserting, Inserted
  <2>3. CASE ~(Inserting \/ Inserted)
    BY <1>1, <1>2, <2>1, <2>3 DEF SoundInv, Inserting, Inserted
  <2> QED
    BY <2>2, <2>3
<1> QED
  BY <1>3, <1>4, <1>6, <1>7, <1>8, <1>9, <1>10, <1>11, <1>12, <1>13, <1>14 DEF Next

-----------------------------------------------------------------------------
(* What the invariant says of executions *)

\* A block that is not finished leads to no block that is opened.
LEMMA NoWayBack ==
    ASSUME Shape, Inserting \/ Inserted, ~(pc = "blocks" /\ IsCyclic),
           NEW b \in SourceBlocks, b \notin Finished, NEW c \in AsSet(prog.succ[b])
    PROVE  c \notin Opened
<1>1. CASE ~Inserting
  BY <1>1 DEF Finished, Inserting
<1>2. CASE Inserting
  <2>1. Ranked /\ work \in Works
    BY <1>2, Ranking, InsertingFacts
  <2>2. /\ RankOf(b) \in Nat /\ RankOf(c) \in Nat /\ RankOf(b) <= RankOf(c) /\ c \in SourceBlocks
        /\ work.component \in Nat
    BY <2>1 DEF Ranked, Works
  <2>3. b \notin Past
    BY <1>2 DEF Finished
  <2>4. c \notin Past /\ (RankOf(c) = work.component => RankOf(b) = work.component)
    BY <2>2, <2>3 DEF Past
  <2>5. CASE pc # "blocks"
    BY <1>2, <2>4, <2>5 DEF Opened
  <2>6. CASE pc = "blocks"
    <3>1. Opened = Past \cup AsSet(Component)
      BY <2>6 DEF Opened
    <3>2. Len(Component) = 1 /\ Component[1] \notin AsSet(prog.succ[Component[1]])
      BY <2>1, <2>6 DEF Ranked
    <3>3. DOMAIN Component = 1..Len(Component)
      BY <1>2, InsertingFacts
    <3>4. AsSet(Component) = {Component[1]}
      BY <3>2, <3>3 DEF AsSet
    <3>5. c \in AsSet(Component) => b \in AsSet(Component)
      BY <2>1, <2>4 DEF Ranked
    <3> QED
      BY <2>4, <3>1, <3>2, <3>4, <3>5
  <2> QED
    BY <2>5, <2>6
<1> QED
  BY <1>1, <1>2

\* The safepoints among the first n statements of b.
PointsUpTo(b, n) == {i \in 1..n : IsSafepoint(stmts[b][i])}

LEMMA PointsCounted ==
    ASSUME prog \in Programs, IrShape, NEW b \in Blocks
    PROVE  /\ Len(stmts[b]) \in Nat /\ DOMAIN stmts[b] = 1..Len(stmts[b])
           /\ Safepoints(b) = Cardinality(PointsUpTo(b, Len(stmts[b])))
           /\ \A n \in Nat : Cardinality(PointsUpTo(b, n)) \in Nat
           /\ Cardinality(PointsUpTo(b, 0)) = 0
           /\ \A n \in Nat : Cardinality(PointsUpTo(b, n + 1)) =
                 Cardinality(PointsUpTo(b, n)) + IF IsSafepoint(stmts[b][n + 1]) THEN 1 ELSE 0
<1>1. Len(stmts[b]) \in Nat /\ DOMAIN stmts[b] = 1..Len(stmts[b])
  BY BlocksFacts, SeqFacts
<1>2. Safepoints(b) = Cardinality(PointsUpTo(b, Len(stmts[b])))
  BY <1>1 DEF Safepoints, PointsUpTo
<1>3. \A n \in Nat : IsFiniteSet(PointsUpTo(b, n))
  <2> SUFFICES ASSUME NEW n \in Nat PROVE IsFiniteSet(PointsUpTo(b, n))
    OBVIOUS
  <2>1. IsFiniteSet(1..n) /\ PointsUpTo(b, n) \subseteq 1..n
    BY FS_Interval DEF PointsUpTo
  <2> QED
    BY <2>1, FS_Subset
<1>4. PointsUpTo(b, 0) = {}
  BY DEF PointsUpTo
<1>5. ASSUME NEW n \in Nat
      PROVE  Cardinality(PointsUpTo(b, n + 1)) =
                Cardinality(PointsUpTo(b, n)) + IF IsSafepoint(stmts[b][n + 1]) THEN 1 ELSE 0
  <2>1. Cardinality(PointsUpTo(b, n)) \in Nat
    BY <1>3, FS_CardinalityType
  <2>2. CASE IsSafepoint(stmts[b][n + 1])
    <3>1. PointsUpTo(b, n + 1) = PointsUpTo(b, n) \cup {n + 1} /\ n + 1 \notin PointsUpTo(b, n)
      BY <2>2 DEF PointsUpTo
    <3> QED
      BY <1>3, <2>2, <3>1, FS_AddElement
  <2>3. CASE ~IsSafepoint(stmts[b][n + 1])
    <3>1. PointsUpTo(b, n + 1) = PointsUpTo(b, n)
      BY <2>3 DEF PointsUpTo
    <3> QED
      BY <2>1, <2>3, <3>1
  <2> QED
    BY <2>2, <2>3
<1> QED
  BY <1>1, <1>2, <1>3, <1>4, <1>5, FS_CardinalityType, FS_EmptySet

\* C grows by the safepoints of a piece, the one before a check apart.
LEMMA PieceRises ==
    ASSUME prog \in Programs, IrShape, NEW seg, Segments(seg), Located,
           NEW C \in Bounds, NEW b \in Blocks \ {leave},
           Rises(C, Checks, seg[b][1], Len(prog.body[seg[b][1]])),
           NEW m \in Nat, m <= Len(stmts[b]), b \in checked => m < Len(stmts[b])
    PROVE  C[seg[b]] + Cardinality(PointsUpTo(b, m)) <= C[<<seg[b][1], seg[b][2] + m>>]
<1> DEFINE src == seg[b][1]
           off == seg[b][2]
           P(n) == C[seg[b]] + Cardinality(PointsUpTo(b, n)) <= C[<<src, off + n>>]
           Bad == {n \in Nat : n <= m /\ ~P(n)}
<1>1. /\ seg[b] \in SourceBlocks \X Nat /\ seg[b] = <<src, off>> /\ src \in SourceBlocks /\ off \in Nat
      /\ \A k \in DOMAIN stmts[b] : stmts[b][k] = <<src, off + k>>
  BY DEF Segments
<1>2. /\ Len(stmts[b]) \in Nat /\ DOMAIN stmts[b] = 1..Len(stmts[b])
      /\ \A n \in Nat : Cardinality(PointsUpTo(b, n)) \in Nat
      /\ Cardinality(PointsUpTo(b, 0)) = 0
      /\ \A n \in Nat : Cardinality(PointsUpTo(b, n + 1)) =
            Cardinality(PointsUpTo(b, n)) + IF IsSafepoint(stmts[b][n + 1]) THEN 1 ELSE 0
  BY PointsCounted
<1>3. N \in Nat \ {0} /\ \A n \in Nat : C[<<src, off + n>>] \in Nat
  <2>1. N \in Nat \ {0}
    BY SourceFacts
  <2>2. \A n \in Nat : <<src, off + n>> \in SourceBlocks \X Nat
    BY <1>1
  <2>3. \A p \in SourceBlocks \X Nat : C[p] \in 0..(N - 1)
    BY DEF Bounds
  <2> QED
    BY <2>1, <2>2, <2>3
<1> HIDE DEF src, off
<1>4. seg[b] = <<src, off + 0>>
  BY <1>1
<1>5. C[seg[b]] \in Nat
  BY <1>3, <1>4
<1>6. P(0)
  <2>1. C[<<src, off + 0>>] = C[seg[b]]
    BY <1>4
  <2>2. C[seg[b]] + 0 <= C[seg[b]]
    BY <1>5
  <2> QED
    BY <1>2, <2>1, <2>2
<1>7. \A n \in Nat : n + 1 <= m => n + 1 \in 1..Len(stmts[b]) /\ (n + 1 = Len(stmts[b]) => b \notin checked)
  <2>1. Len(stmts[b]) \in Nat /\ m <= Len(stmts[b]) /\ (b \in checked => m < Len(stmts[b]))
    BY <1>2
  <2> QED
    BY <2>1
<1>8. \A k \in 1..Len(prog.body[src]) :
         IF <<src, k>> \in Points THEN <<src, k>> \notin Checks => C[<<src, k - 1>>] < C[<<src, k>>]
         ELSE C[<<src, k - 1>>] <= C[<<src, k>>]
  BY DEF Rises, src
<1>9. ASSUME NEW n \in Nat, n + 1 <= m, P(n) PROVE P(n + 1)
  <2>1. n + 1 \in DOMAIN stmts[b]
    BY <1>2, <1>7, <1>9
  <2>2. stmts[b][n + 1] = <<src, off + (n + 1)>> /\ off + (n + 1) \in Nat
    BY <1>1, <2>1
  <2>3. stmts[b][n + 1] \in Statements
    <3>1. stmts[b] \in Seq(Statements)
      BY BlocksFacts
    <3> QED
      BY <2>1, <3>1, SeqFacts
  <2>4. off + (n + 1) \in DOMAIN prog.body[src]
    BY <2>2, <2>3 DEF Statements
  <2>5. DOMAIN prog.body[src] = 1..Len(prog.body[src]) /\ Len(prog.body[src]) \in Nat
    <3>1. prog.body \in Seq(Seq({"safepoint", "other"})) /\ src \in DOMAIN prog.body
      BY <1>1, SourceFacts
    <3>2. prog.body[src] \in Seq({"safepoint", "other"})
      BY <3>1, SeqFacts
    <3> QED
      BY <3>2, SeqFacts
  <2>6. off + (n + 1) \in 1..Len(prog.body[src]) /\ off + (n + 1) - 1 = off + n
    BY <1>1, <2>4, <2>5
  <2>7. IF <<src, off + (n + 1)>> \in Points
        THEN <<src, off + (n + 1)>> \notin Checks => C[<<src, off + n>>] < C[<<src, off + (n + 1)>>]
        ELSE C[<<src, off + n>>] <= C[<<src, off + (n + 1)>>]
    <3>1. PICK k : k = off + (n + 1)
      OBVIOUS
    <3>2. k \in 1..Len(prog.body[src]) /\ off + n = k - 1
      BY <1>1, <2>6, <3>1
    <3>3. IF <<src, k>> \in Points THEN <<src, k>> \notin Checks => C[<<src, k - 1>>] < C[<<src, k>>]
          ELSE C[<<src, k - 1>>] <= C[<<src, k>>]
      BY <1>8, <3>2
    <3> QED
      BY <3>1, <3>2, <3>3, Zenon
  <2>8. <<src, off + (n + 1)>> \in Points <=> IsSafepoint(stmts[b][n + 1])
    BY <2>2, <2>3 DEF Points
  <2>9. <<src, off + (n + 1)>> \notin Checks
    <3> SUFFICES ASSUME <<src, off + (n + 1)>> \in Checks PROVE FALSE
      OBVIOUS
    <3>1. stmts[b][n + 1] \in Points
      BY <2>2 DEF Checks
    <3>2. PICK d \in checked : stmts[d] # <<>> /\ stmts[b][n + 1] = LastOf(stmts[d])
      BY <2>2 DEF Checks
    <3>3. d \in Blocks
      BY DEF IrShape
    <3>4. stmts[d] \in Seq(Statements)
      BY <3>3, BlocksFacts
    <3>5. Len(stmts[d]) \in DOMAIN stmts[d] /\ Len(stmts[d]) \in Nat
      BY <3>2, <3>4, SeqFacts
    <3>6. loc[stmts[b][n + 1]] = <<b, n + 1>> /\ loc[stmts[b][n + 1]] = <<d, Len(stmts[d])>>
      BY <2>1, <3>1, <3>2, <3>3, <3>5 DEF Located, LastOf
    <3>7. b = d /\ n + 1 = Len(stmts[b])
      BY <3>6
    <3> QED
      BY <1>7, <1>9, <3>7
  <2>10. /\ C[<<src, off + n>>] \in Nat /\ C[<<src, off + (n + 1)>>] \in Nat
         /\ Cardinality(PointsUpTo(b, n)) \in Nat
    BY <1>2, <1>3
  <2>11. Cardinality(PointsUpTo(b, n + 1)) =
            Cardinality(PointsUpTo(b, n)) + IF IsSafepoint(stmts[b][n + 1]) THEN 1 ELSE 0
    BY <1>2
  <2> QED
    BY <1>5, <1>9, <2>7, <2>8, <2>9, <2>10, <2>11, SMTT(30)
<1> HIDE DEF P
<1>10. Bad = {}
  <2> SUFFICES ASSUME Bad # {} PROVE FALSE
    OBVIOUS
  <2>1. PICK n \in Bad : \A k \in Bad : n <= k
    BY Least
  <2>2. n \in Nat /\ n <= m /\ ~P(n) /\ n # 0
    BY <1>6
  <2>3. n - 1 \in Nat /\ n - 1 <= m /\ n - 1 + 1 = n /\ ~(n <= n - 1)
    BY <2>2
  <2>4. P(n - 1)
    BY <2>1, <2>3
  <2> QED
    BY <1>9, <2>2, <2>3, <2>4
<1>11. P(m)
  BY <1>10
<1> QED
  BY <1>11 DEF P, src, off

\* What the executions that arrive at a block have passed at most: what C says
\* where the block begins, when it belongs to an opened block of the source.
Ceiling(C, seg, b) ==
    IF b = leave THEN 0 ELSE IF seg[b][1] \in Opened THEN C[seg[b]] ELSE N + 1

Settled(C, seg) ==
    /\ Shape /\ Segments(seg) /\ Located
    /\ Flows(C, Checks, Finished, Opened)
    /\ Inserting \/ Inserted
    /\ ~(pc = "blocks" /\ IsCyclic)

LEMMA PieceBounds ==
    ASSUME NEW C, NEW seg, Settled(C, seg), NEW b \in Blocks \ {leave}, seg[b][1] \in Finished
    PROVE  /\ C[seg[b]] \in 0..(N - 1) /\ Safepoints(b) \in Nat
           /\ b \in checked => C[seg[b]] + Safepoints(b) <= N
           /\ b \notin checked => C[seg[b]] + Safepoints(b) <= AtEnd(C, seg[b][1])
           /\ AtEnd(C, seg[b][1]) \in 0..(N - 1)
<1> DEFINE len == Len(stmts[b])
           src == seg[b][1]
<1>1. /\ prog \in Programs /\ IrShape /\ Segments(seg) /\ Located /\ N \in Nat \ {0}
      /\ C \in Bounds /\ Rises(C, Checks, src, Len(prog.body[src]))
      /\ Len(prog.body[src]) \in Nat
  <2>1. Shape /\ (Inserting \/ Inserted) /\ Flows(C, Checks, Finished, Opened)
    BY DEF Settled
  <2>2. src \in SourceBlocks /\ prog \in Programs /\ IrShape /\ N \in Nat \ {0}
        /\ Len(prog.body[src]) \in Nat
    BY <2>1, SetFacts
  <2> QED
    BY <2>1, <2>2 DEF Settled, Flows, Bounds
<1>2. /\ len \in Nat /\ Safepoints(b) = Cardinality(PointsUpTo(b, len))
      /\ \A n \in Nat : Cardinality(PointsUpTo(b, n)) \in Nat
      /\ Cardinality(PointsUpTo(b, 0)) = 0
      /\ \A n \in Nat : Cardinality(PointsUpTo(b, n + 1)) =
            Cardinality(PointsUpTo(b, n)) + IF IsSafepoint(stmts[b][n + 1]) THEN 1 ELSE 0
  BY <1>1, PointsCounted
<1>3. /\ seg[b] \in SourceBlocks \X Nat /\ src \in SourceBlocks /\ seg[b][2] \in Nat
      /\ \A p \in SourceBlocks \X Nat : C[p] \in 0..(N - 1)
  BY <1>1 DEF Segments, Bounds
<1>4. C[seg[b]] \in 0..(N - 1)
  BY <1>3
<1>5. AtEnd(C, src) \in 0..(N - 1)
  BY <1>1, <1>3 DEF AtEnd
<1>6. \A m \in Nat : m <= len /\ (b \in checked => m < len) =>
         C[seg[b]] + Cardinality(PointsUpTo(b, m)) <= C[<<src, seg[b][2] + m>>]
  BY <1>1, PieceRises
<1> HIDE DEF len, src
<1>7. Safepoints(b) \in Nat
  BY <1>2
<1>8. ASSUME b \notin checked PROVE C[seg[b]] + Safepoints(b) <= AtEnd(C, src)
  <2>1. seg[b][2] + len = Len(prog.body[src])
    BY <1>1, <1>8 DEF Segments, len, src
  <2>2. len <= len
    BY <1>2
  <2>3. C[seg[b]] + Cardinality(PointsUpTo(b, len)) <= C[<<src, seg[b][2] + len>>]
    BY <1>2, <1>6, <1>8, <2>2
  <2> QED
    BY <1>2, <2>1, <2>3 DEF AtEnd
<1>9. ASSUME b \in checked PROVE C[seg[b]] + Safepoints(b) <= N
  <2>1. CASE len = 0
    <3>1. Safepoints(b) = 0
      BY <1>2, <2>1
    <3> QED
      BY <1>1, <1>4, <3>1
  <2>2. CASE len # 0
    <3>1. PICK m \in Nat : len = m + 1
      <4>1. len - 1 \in Nat /\ len = (len - 1) + 1
        BY <1>2, <2>2
      <4> QED
        BY <4>1
    <3>2. m <= len /\ m < len
      BY <3>1
    <3>3. C[seg[b]] + Cardinality(PointsUpTo(b, m)) <= C[<<src, seg[b][2] + m>>]
      BY <1>6, <3>2
    <3>4. C[<<src, seg[b][2] + m>>] \in 0..(N - 1)
      <4>1. <<src, seg[b][2] + m>> \in SourceBlocks \X Nat
        BY <1>3
      <4> QED
        BY <1>3, <4>1
    <3>5. Cardinality(PointsUpTo(b, m)) \in Nat /\ Safepoints(b) <= Cardinality(PointsUpTo(b, m)) + 1
      <4>1. Cardinality(PointsUpTo(b, m)) \in Nat
        BY <1>2
      <4>2. Safepoints(b) =
              Cardinality(PointsUpTo(b, m)) + IF IsSafepoint(stmts[b][m + 1]) THEN 1 ELSE 0
        BY <1>2, <3>1
      <4> QED
        BY <4>1, <4>2
    <3> QED
      BY <1>1, <1>4, <1>7, <3>3, <3>4, <3>5
  <2> QED
    BY <2>1, <2>2
<1> QED
  BY <1>4, <1>5, <1>7, <1>8, <1>9 DEF src

LEMMA ArrivalsBounded ==
    ASSUME NEW C, NEW seg, Settled(C, seg)
    PROVE  \A a \in Arrivals : a[1] \in Blocks /\ a[2] \in 0..(N + 1) /\ a[2] <= Ceiling(C, seg, a[1])
<1>1. /\ Shape /\ Segments(seg) /\ Flows(C, Checks, Finished, Opened)
      /\ prog \in Programs /\ IrShape /\ N \in Nat \ {0} /\ Finished \subseteq Opened
      /\ C \in Bounds
  <2>1. Shape /\ (Inserting \/ Inserted) /\ Flows(C, Checks, Finished, Opened) /\ Segments(seg)
    BY DEF Settled
  <2> QED
    BY <2>1, SetFacts DEF Flows, Bounds
<1>2. /\ Entry \in Blocks /\ IsFiniteSet(Blocks) /\ SourceBlocks \subseteq Blocks
      /\ \A b \in Blocks : AsSet(succ[b]) \subseteq Blocks
  BY <1>1, BlocksFacts
<1> DEFINE V == Blocks \X (0..N + 1)
           Leaving(a) == IF a[1] \in checked THEN 0 ELSE Minimum(a[2] + Safepoints(a[1]), N + 1)
           More(R) == UNION {{<<c, Leaving(a)>> : c \in AsSet(succ[a[1]])} : a \in R}
           Eq(F) == F = [R \in SUBSET V |-> IF More(R) \subseteq R THEN R ELSE F[R \cup More(R)]]
           M == [R \in SUBSET V |-> More(R)]
<1>3. Arrivals = (CHOOSE F : Eq(F))[{<<Entry, 0>>}]
  BY DEF Arrivals
<1>4. \A a \in V : Leaving(a) \in 0..(N + 1)
  <2> SUFFICES ASSUME NEW a \in V PROVE Leaving(a) \in 0..(N + 1)
    OBVIOUS
  <2>1. a[1] \in Blocks /\ a[2] \in 0..(N + 1)
    OBVIOUS
  <2>2. Safepoints(a[1]) \in Nat
    BY <1>1, <2>1, PointsCounted
  <2>3. Minimum(a[2] + Safepoints(a[1]), N + 1) \in 0..(N + 1)
    BY <1>1, <2>1, <2>2 DEF Minimum
  <2>4. 0 \in 0..(N + 1)
    BY <1>1
  <2> QED
    BY <2>3, <2>4
<1> HIDE DEF Leaving
<1>5. /\ M \in [SUBSET V -> SUBSET V]
      /\ \A R, S \in SUBSET V : R \subseteq S => M[R] \subseteq M[S]
  <2>1. \A R \in SUBSET V : More(R) \in SUBSET V
    BY <1>2, <1>4
  <2>2. \A R, S \in SUBSET V : R \subseteq S => More(R) \subseteq More(S)
    OBVIOUS
  <2> HIDE DEF More, V
  <2> QED
    BY <2>1, <2>2
<1>6. \A F : Eq(F) <=> IsClosure(V, M, F)
  BY DEF IsClosure
<1>7. IsFiniteSet(V) /\ {<<Entry, 0>>} \in SUBSET V
  <2>1. IsFiniteSet(0..N + 1)
    BY <1>1, FS_Interval
  <2>2. 0 \in 0..N + 1
    BY <1>1
  <2>3. IsFiniteSet(V)
    BY <1>2, <2>1, FS_Product, Zenon
  <2> QED
    BY <1>2, <2>2, <2>3
<1>8. Arrivals = LeastClosed(V, M, {<<Entry, 0>>})
  <2> DEFINE F == CHOOSE F : Eq(F)
  <2> HIDE DEF M, Eq, V
  <2>1. \E G : Eq(G)
    BY <1>5, <1>6, ClosureExists
  <2>2. Eq(F)
    BY <2>1
  <2>3. IsClosure(V, M, F)
    BY <1>6, <2>2
  <2> HIDE DEF F
  <2>4. F[{<<Entry, 0>>}] = LeastClosed(V, M, {<<Entry, 0>>})
    BY <1>5, <1>7, <2>3, ClosureLeast, Zenon
  <2> QED
    BY <1>3, <2>4 DEF F
<1> DEFINE A == {a \in V : a[2] <= Ceiling(C, seg, a[1])}
<1>9. \A b \in Blocks : Ceiling(C, seg, b) \in Nat
  <2>1. \A b \in Blocks \ {leave} : C[seg[b]] \in 0..(N - 1)
    BY <1>1 DEF Segments, Bounds
  <2> QED
    BY <1>1, <2>1 DEF Ceiling
<1>10. {<<Entry, 0>>} \subseteq A
  BY <1>2, <1>7, <1>9
<1>11. ASSUME NEW a \in A, NEW c \in AsSet(succ[a[1]]) PROVE Leaving(a) <= Ceiling(C, seg, c)
  <2>1. /\ a[1] \in Blocks /\ a[2] \in 0..(N + 1) /\ a[2] <= Ceiling(C, seg, a[1]) /\ c \in Blocks
        /\ Leaving(a) \in 0..(N + 1) /\ Ceiling(C, seg, c) \in Nat
    BY <1>2, <1>4, <1>9
  <2>2. CASE a[1] \in checked
    BY <2>1, <2>2 DEF Leaving
  <2>3. CASE a[1] = leave
    <3>1. leave # 0
      BY <1>1, <2>1, <2>3, BlocksFacts
    <3>2. succ[a[1]] = <<>>
      BY <1>1, <2>3, <3>1 DEF Segments
    <3> QED
      BY <3>2 DEF AsSet
  <2>4. CASE a[1] \notin checked /\ a[1] # leave
    <3> DEFINE b == a[1]
               src == seg[b][1]
    <3>1. /\ b \in Blocks \ {leave} /\ src \in SourceBlocks /\ succ[b] = prog.succ[src]
      BY <1>1, <2>1, <2>4 DEF Segments
    <3>2. c \in AsSet(prog.succ[src])
      BY <3>1
    <3>3. c \in SourceBlocks /\ c # leave /\ seg[c] = <<c, 0>>
      BY <1>1, <3>1, <3>2, SourceFacts DEF Segments
    <3>4. CASE c \notin Opened
      BY <1>1, <2>1, <3>3, <3>4 DEF Ceiling
    <3>5. CASE c \in Opened
      <4>1. src \in Finished
        BY <3>1, <3>2, <3>5, NoWayBack DEF Settled
      <4>2. Ceiling(C, seg, c) = C[<<c, 0>>] /\ Ceiling(C, seg, b) = C[seg[b]]
        BY <1>1, <3>1, <3>3, <3>5, <4>1 DEF Ceiling
      <4>3. AtEnd(C, src) <= C[<<c, 0>>]
        BY <1>1, <3>2, <3>5, <4>1 DEF Flows
      <4>4. /\ C[seg[b]] \in 0..(N - 1) /\ Safepoints(b) \in Nat /\ AtEnd(C, src) \in 0..(N - 1)
            /\ C[seg[b]] + Safepoints(b) <= AtEnd(C, src)
        BY <2>4, <3>1, <4>1, PieceBounds
      <4>5. Leaving(a) = Minimum(a[2] + Safepoints(b), N + 1)
        BY <2>4 DEF Leaving
      <4>6. Leaving(a) <= a[2] + Safepoints(b)
        BY <1>1, <2>1, <4>4, <4>5 DEF Minimum
      <4> HIDE DEF src, b
      <4>7. a[2] <= C[seg[b]] /\ C[<<c, 0>>] \in Nat
        BY <2>1, <4>2 DEF b
      <4> QED
        BY <1>1, <2>1, <4>2, <4>3, <4>4, <4>6, <4>7
    <3> QED
      BY <3>4, <3>5
  <2> QED
    BY <2>2, <2>3, <2>4
<1>12. A \in SUBSET V /\ M[A] \subseteq A
  <2>1. A \in SUBSET V
    OBVIOUS
  <2>2. ASSUME NEW x \in More(A) PROVE x \in A
    <3>1. PICK a \in A : \E c \in AsSet(succ[a[1]]) : x = <<c, Leaving(a)>>
      OBVIOUS
    <3>2. PICK c \in AsSet(succ[a[1]]) : x = <<c, Leaving(a)>>
      BY <3>1
    <3>3. Leaving(a) <= Ceiling(C, seg, c)
      BY <1>11
    <3>4. x \in V
      BY <1>2, <1>4, <3>2
    <3> QED
      BY <3>2, <3>3, <3>4
  <2> QED
    BY <2>1, <2>2
<1>13. \A x \in Arrivals : x \in A
  <2> HIDE DEF A, M, V
  <2> QED
    BY <1>8, <1>10, <1>12 DEF LeastClosed
<1> QED
  BY <1>13

LEMMA SoundAnswers ==
    ASSUME SoundInv
    PROVE  HaltChecksSound
<1>1. ASSUME Inserting \/ Inserted, ~(pc = "blocks" /\ IsCyclic)
      PROVE  PendingCountdownsSound /\ ChecksOften
  <2>1. PICK seg : PassInv(seg)
    BY <1>1 DEF SoundInv
  <2>2. /\ Shape /\ Segments(seg) /\ Located /\ MapsRight(seg) /\ resets \subseteq Checks
    BY <2>1 DEF SoundInv, PassInv
  <2>3. resets \in SUBSET Points /\ Checks \cup resets = Checks
    BY <2>2 DEF Checks
  <2>4. PICK C : Bounded(C, resets, seg)
    BY <2>1, <2>3 DEF PassInv
  <2>5. /\ Flows(C, Checks, Finished, Opened)
        /\ \A e \in DOMAIN outgoing : AtEnd(C, seg[e[1]][1]) <= Room(outgoing[e], resets)
    BY <2>3, <2>4 DEF Bounded, Counted
  <2>6. Settled(C, seg)
    BY <1>1, <2>2, <2>5 DEF Settled
  <2>7. \A a \in Arrivals : a[1] \in Blocks /\ a[2] \in 0..(N + 1) /\ a[2] <= Ceiling(C, seg, a[1])
    BY <2>6, ArrivalsBounded
  <2>8. N \in Nat \ {0} /\ Finished \subseteq Opened /\ prog \in Programs /\ IrShape
    BY <1>1, <2>2, SetFacts
  <2>9. ASSUME NEW a \in Arrivals, a[1] # leave, seg[a[1]][1] \in Finished
        PROVE  /\ a[1] \in checked => a[2] + Safepoints(a[1]) <= N
               /\ a[1] \notin checked => a[2] + Safepoints(a[1]) <= AtEnd(C, seg[a[1]][1])
               /\ AtEnd(C, seg[a[1]][1]) \in 0..(N - 1) /\ a[2] + Safepoints(a[1]) \in Nat
    <3> DEFINE b == a[1]
    <3>1. b \in Blocks \ {leave} /\ a[2] \in 0..(N + 1) /\ a[2] <= C[seg[b]]
      <4>1. b \in Blocks /\ a[2] \in 0..(N + 1) /\ a[2] <= Ceiling(C, seg, b)
        BY <2>7
      <4>2. Ceiling(C, seg, b) = C[seg[b]]
        BY <2>8, <2>9 DEF Ceiling
      <4> QED
        BY <2>9, <4>1, <4>2
    <3>2. /\ C[seg[b]] \in 0..(N - 1) /\ Safepoints(b) \in Nat
          /\ b \in checked => C[seg[b]] + Safepoints(b) <= N
          /\ b \notin checked => C[seg[b]] + Safepoints(b) <= AtEnd(C, seg[b][1])
          /\ AtEnd(C, seg[b][1]) \in 0..(N - 1)
      BY <2>6, <2>9, <3>1, PieceBounds
    <3> HIDE DEF b
    <3>3. a[2] + Safepoints(b) \in Nat /\ a[2] + Safepoints(b) <= C[seg[b]] + Safepoints(b)
      BY <2>8, <3>1, <3>2
    <3>4. b \in checked => a[2] + Safepoints(b) <= N
      BY <2>8, <3>1, <3>2
    <3>5. b \notin checked => a[2] + Safepoints(b) <= AtEnd(C, seg[b][1])
      BY <2>8, <3>1, <3>2
    <3> QED
      BY <3>2, <3>3, <3>4, <3>5 DEF b
  <2>10. PendingCountdownsSound
    <3> SUFFICES ASSUME Inserting, NEW e \in DOMAIN outgoing
                 PROVE  /\ e \in Edges /\ e[1] \notin checked
                        /\ \A a \in Arrivals : a[1] = e[1] =>
                              a[2] + Safepoints(a[1]) <= N - canonicalize(outgoing[e], resets).remaining
      BY DEF PendingCountdownsSound
    <3>1. /\ e \in Blocks \X Blocks /\ e = <<e[1], e[2]>> /\ outgoing[e] \in GoodStates
      BY <2>2 DEF Shape, OutgoingShape
    <3>2. /\ e[1] \in Blocks \ ({leave} \cup checked) /\ seg[e[1]][1] \in Finished
          /\ e[2] \in AsSet(succ[e[1]])
      BY <2>2 DEF MapsRight
    <3>3. e \in Edges
      BY <3>1, <3>2 DEF Edges
    <3>4. Room(outgoing[e], resets) \in 0..(N - 1)
      BY <2>8, <3>1, RoomType
    <3>5. ASSUME NEW a \in Arrivals, a[1] = e[1]
          PROVE  a[2] + Safepoints(a[1]) <= Room(outgoing[e], resets)
      <4>1. /\ a[2] + Safepoints(a[1]) <= AtEnd(C, seg[a[1]][1])
            /\ AtEnd(C, seg[a[1]][1]) \in 0..(N - 1) /\ a[2] + Safepoints(a[1]) \in Nat
        BY <2>9, <3>2, <3>5
      <4>2. AtEnd(C, seg[a[1]][1]) <= Room(outgoing[e], resets)
        BY <2>5, <3>5
      <4> QED
        BY <2>8, <3>4, <4>1, <4>2
    <3> QED
      BY <3>2, <3>3, <3>5 DEF Room
  <2>11. ChecksOften
    <3> SUFFICES ASSUME Inserted, NEW a \in Arrivals
                 PROVE  a[2] + Safepoints(a[1]) <= IF a[1] \in checked THEN N ELSE N - 1
      BY DEF ChecksOften
    <3>1. a[1] \in Blocks /\ a[2] \in 0..(N + 1) /\ a[2] <= Ceiling(C, seg, a[1])
      BY <2>7
    <3>2. CASE a[1] = leave
      <4>1. leave # 0
        BY <2>8, <3>1, <3>2, BlocksFacts
      <4>2. stmts[a[1]] = <<>> /\ a[1] \notin checked
        BY <2>2, <3>2, <4>1 DEF Segments
      <4>3. Safepoints(a[1]) = 0
        BY <4>2, FS_EmptySet DEF Safepoints
      <4>4. a[2] = 0
        BY <3>1, <3>2 DEF Ceiling
      <4> QED
        BY <2>8, <4>2, <4>3, <4>4
    <3>3. CASE a[1] # leave
      <4>1. seg[a[1]][1] \in Finished
        <5>1. seg[a[1]][1] \in SourceBlocks
          BY <2>2, <3>1, <3>3 DEF Segments
        <5> QED
          BY <5>1 DEF Finished, Inserting, Inserted
      <4>2. /\ a[1] \in checked => a[2] + Safepoints(a[1]) <= N
            /\ a[1] \notin checked => a[2] + Safepoints(a[1]) <= AtEnd(C, seg[a[1]][1])
            /\ AtEnd(C, seg[a[1]][1]) \in 0..(N - 1) /\ a[2] + Safepoints(a[1]) \in Nat
        BY <2>9, <3>3, <4>1
      <4> QED
        BY <2>8, <4>2
    <3> QED
      BY <3>2, <3>3
  <2> QED
    BY <2>10, <2>11
<1>2. CASE ~(Inserting \/ Inserted)
  BY <1>2 DEF HaltChecksSound, PendingCountdownsSound, ChecksOften
<1>3. CASE pc = "blocks" /\ IsCyclic
  BY <1>3 DEF HaltChecksSound, PendingCountdownsSound, ChecksOften, Inserted
<1> QED
  BY <1>1, <1>2, <1>3 DEF HaltChecksSound

\* The guarantee of IrBuilderConfig::halt_check_every, for every program and
\* every value of `every`: on every execution of what insert_halt_checks
\* leaves behind, of any `every` consecutive safepoints one is followed by a
\* halt check; and at every moment of the pass a pending edge's countdown,
\* canonicalized against the compensating checks, leaves room for all that an
\* execution reaching the edge can have passed.
THEOREM HaltChecksAlwaysSound == Spec => []HaltChecksSound
<1>1. Init => SoundInv
  BY SoundInit
<1>2. SoundInv /\ [Next]_vars => SoundInv'
  BY SoundNext
<1>3. SoundInv => HaltChecksSound
  BY SoundAnswers
<1> QED
  BY <1>1, <1>2, <1>3, PTL DEF Spec

-----------------------------------------------------------------------------
(* The assertions of the pass *)

\* While the incoming states are being normalized, the ones treated have
\* reached the target and every other one has, or has a safepoint to check.
Normalizing ==
    /\ \A i \in DOMAIN work.states :
          IF i < work.fixed THEN work.states[i].remaining >= work.target
          ELSE work.states[i].remaining >= work.target
               \/ has_insertion_point(work.states[i], work.target)
    /\ work.fixed = 1 => \A i \in DOMAIN work.states : \A k \in DOMAIN work.states[i].suffix :
                            work.states[i].suffix[k] \notin resets

AssertInv ==
    /\ SoundInv
    /\ pc # "assert_failed"
    /\ pc = "compensate" => Normalizing

\* A safepoint can be checked wherever it is found.
LEMMA InsertAssertsHold ==
    ASSUME SoundInv, Inserting, NEW b \in Blocks, NEW i \in DOMAIN stmts[b],
           IsSafepoint(stmts[b][i])
    PROVE  InsertAsserts(b, i)
<1>1. PICK seg : PassInv(seg)
  BY DEF SoundInv
<1>2. Located /\ MapsRight(seg) /\ prog \in Programs /\ IrShape
  BY <1>1, InsertingFacts DEF PassInv, SoundInv
<1>3. stmts[b] \in Seq(Statements)
  BY <1>2, BlocksFacts
<1>4. DOMAIN stmts[b] = 1..Len(stmts[b]) /\ Len(stmts[b]) \in Nat
      /\ \A j \in DOMAIN stmts[b] : stmts[b][j] \in Statements
  BY <1>3, SeqFacts
<1>5. ASSUME NEW j \in i + 1..Len(stmts[b]), IsSafepoint(stmts[b][j])
      PROVE  loc[stmts[b][j]] = <<b, j>>
  <2>1. j \in DOMAIN stmts[b]
    BY <1>4
  <2>2. stmts[b][j] \in Points
    BY <1>4, <1>5, <2>1 DEF Points
  <2> QED
    BY <1>2, <2>1, <2>2 DEF Located
<1>6. ASSUME NEW e \in DOMAIN outgoing, e[1] = b PROVE <<e[2], b>> \in incoming
  BY <1>2, <1>6 DEF MapsRight
<1> QED
  BY <1>5, <1>6 DEF InsertAsserts

LEMMA NewAsserts ==
    ASSUME AssertInv, InserterNew
    PROVE  pc' = "drain"
<1>1. GraphRight /\ graph.ready = <<>>
  BY DEF AssertInv, SoundInv, Shape, AnalysisInv, InserterNew
<1> DEFINE cs == graph.components
           topo == graph.topo_order
<1>2. AsSet(topo) = DOMAIN cs
  BY <1>1, AllOrdered
<1>3. topo \in Seq(DOMAIN cs) /\ Distinct(topo)
  BY <1>1 DEF GraphRight, Sorting
<1>4. cs \in Seq(Seq(SourceBlocks))
  BY <1>1 DEF GraphRight, Partition
<1>5. DOMAIN cs = 1..Len(cs) /\ Len(cs) \in Nat
  BY <1>4, SeqFacts
<1> HIDE DEF cs, topo
<1>6. Cardinality(AsSet(topo)) = Len(topo)
  BY <1>3, DistinctLength
<1>7. Cardinality(1..Len(cs)) = Len(cs)
  <2>1. Cardinality(1..Len(cs)) = IF 1 > Len(cs) THEN 0 ELSE Len(cs) - 1 + 1
    BY <1>5, FS_Interval, SMTT(30)
  <2> QED
    BY <1>5, <2>1
<1>8. Len(topo) = Len(cs)
  BY <1>2, <1>5, <1>6, <1>7
<1> QED
  BY <1>8 DEF InserterNew, cs, topo

LEMMA DrainAsserts ==
    ASSUME AssertInv, DrainIncoming
    PROVE  pc' = "drain"
<1>1. pc = "drain" /\ Inserting
  BY DEF DrainIncoming, Inserting
<1>2. PICK seg : PassInv(seg)
  BY <1>1 DEF AssertInv, SoundInv
<1>3. incoming = {<<e[2], e[1]>> : e \in DOMAIN outgoing} /\ DOMAIN outgoing \in SUBSET (Blocks \X Blocks)
  BY <1>2 DEF PassInv, MapsRight, AssertInv, SoundInv, Shape, OutgoingShape
<1> DEFINE to == Component[work.next]
           from == {e[2] : e \in {e \in incoming : e[1] = to}}
           drained == {<<f, to>> : f \in from}
<1>4. \A e \in drained : e \in DOMAIN outgoing
  BY <1>3
<1> QED
  BY <1>1, <1>4 DEF DrainIncoming

LEMMA FinishAsserts ==
    ASSUME AssertInv, FinishBlock
    PROVE  pc' \in {"blocks", "sort", "drain"}
<1>1. pc = "blocks" /\ Inserting
  BY DEF FinishBlock, Inserting
<1>2. PICK seg : PassInv(seg)
  BY <1>1 DEF AssertInv, SoundInv
<1>3. Current \notin Finished /\ seg[work.block][1] = Current
  BY <1>1, <1>2, InBlocks DEF AssertInv
<1>4. \A e \in DOMAIN outgoing : seg[e[1]][1] \in Finished
  BY <1>2 DEF PassInv, MapsRight
<1>5. \A e \in DOMAIN outgoing : e[1] # work.block
  BY <1>3, <1>4
<1>6. \A T : {<<work.block, c>> : c \in T} \cap DOMAIN outgoing = {}
  BY <1>5
<1> QED
  BY <1>1, <1>6 DEF FinishBlock

LEMMA StatementAsserts ==
    ASSUME AssertInv, ProcessStatement
    PROVE  pc' = "blocks"
<1>1. pc = "blocks" /\ Inserting /\ work.index <= Len(stmts[work.block])
  BY DEF ProcessStatement, Inserting
<1>2. work.block \in Blocks /\ work.index \in Nat \ {0} /\ prog \in Programs /\ IrShape
  BY <1>1, InsertingFacts DEF AssertInv, SoundInv, Shape, WorkShape, Works
<1>3. work.index \in DOMAIN stmts[work.block]
  BY <1>1, <1>2, BlocksFacts, SeqFacts
<1>4. should_halt => InsertAsserts(work.block, work.index)
  BY <1>1, <1>2, <1>3, InsertAssertsHold DEF should_halt, AtSafepoint, AssertInv
<1> QED
  BY <1>1, <1>4 DEF ProcessStatement

\* The decision to normalize is right: the states the merge canonicalizes can all
\* be brought to the target.
LEMMA MergeAsserts ==
    ASSUME AssertInv, MergeHaltStates
    PROVE  pc' \in {"blocks", "compensate"} /\ (pc' = "compensate" => Normalizing')
<1>1. pc = "drain" /\ Inserting /\ prog' = prog /\ inserter' = inserter
  BY DEF MergeHaltStates, Inserting
<1>2. pc' \in {"blocks", "compensate"}
  BY DEF MergeHaltStates
<1> SUFFICES ASSUME pc' = "compensate" PROVE Normalizing'
  BY <1>2
<1>3. work \in Works /\ prog \in Programs
  BY <1>1, InsertingFacts DEF AssertInv, SoundInv
<1> DEFINE states == [i \in DOMAIN work.states |-> canonicalize(work.states[i], resets)]
           all == {states[i].remaining : i \in DOMAIN states}
           hi == CHOOSE r \in all : \A q \in all : q <= r
<1>4. /\ \A i \in DOMAIN states : states[i].remaining >= hi \/ has_insertion_point(states[i], hi)
      /\ work' = [work EXCEPT !.states = states, !.fixed = 1, !.target = hi]
  BY DEF MergeHaltStates
<1>5. work'.states = states /\ work'.fixed = 1 /\ work'.target = hi
  <2> HIDE DEF states, hi
  <2> QED
    BY <1>3, <1>4 DEF Works
<1>6. ASSUME NEW i \in DOMAIN states, NEW k \in DOMAIN states[i].suffix
      PROVE  states[i].suffix[k] \notin resets
  <2> DEFINE s == work.states[i]
             r == canonicalize(s, resets)
  <2>1. work.states \in Seq(GoodStates)
    BY <1>3 DEF Works
  <2>2. s \in GoodStates
    BY <2>1, SeqFacts
  <2>3. PICK l : Keeps(s, resets, l, r)
    BY <1>3, <2>2, CanonicalForm
  <2>4. states[i] = r
    OBVIOUS
  <2>5. r \in GoodStates
    BY <1>3, <2>2, Canonicalized
  <2>6. k \in 1..Len(r.suffix) /\ Len(s.suffix) \in Nat
    BY <1>3, <2>2, <2>4, <2>5, StateFacts
  <2> HIDE DEF s, r
  <2>7. r.suffix[k] \notin resets
    <3>1. l \in 0..Len(s.suffix) /\ \A j \in (l + 1)..Len(s.suffix) : s.suffix[j] \notin resets
      BY <2>3 DEF Keeps
    <3>2. CASE l = 0 /\ r = s
      BY <2>6, <3>1, <3>2
    <3>3. CASE Len(r.suffix) = Len(s.suffix) - l
               /\ \A j \in 1..(Len(s.suffix) - l) : r.suffix[j] = s.suffix[l + j]
      <4>1. r.suffix[k] = s.suffix[l + k] /\ l + k \in (l + 1)..Len(s.suffix)
        BY <2>6, <3>1, <3>3, SMTT(30)
      <4> QED
        BY <3>1, <4>1
    <3> QED
      BY <2>3, <3>2, <3>3 DEF Keeps
  <2> QED
    BY <2>4, <2>7
<1>7. DOMAIN states = DOMAIN work.states /\ DOMAIN work.states \subseteq Nat
  BY <1>3, SeqFacts DEF Works
<1>8. \A i \in DOMAIN states : ~(i < 1)
  <2>1. work.states \in Seq(GoodStates)
    BY <1>3 DEF Works
  <2>2. DOMAIN work.states = 1..Len(work.states) /\ Len(work.states) \in Nat
    BY <2>1, SeqFacts
  <2> QED
    BY <1>7, <2>2
<1>9. resets' = resets /\ N' = N
  BY <1>1, ProgKept DEF inserter
<1> HIDE DEF states, hi
<1> QED
  BY <1>4, <1>5, <1>6, <1>8, <1>9 DEF Normalizing, has_insertion_point, has_complete_suffix

\* A state below the target has a safepoint to check that is not checked yet, and
\* the check brings it to the target.
LEMMA Compensates ==
    ASSUME prog \in Programs, NEW s \in GoodStates, NEW target \in 1..N, NEW X,
           has_insertion_point(s, target), \A k \in DOMAIN s.suffix : s.suffix[k] \notin X
    PROVE  LET at == compensating_insertion_safepoint(s, target)
           IN /\ at \in Points /\ at \notin X
              /\ canonicalize(s, X \cup {at}).remaining >= target
<1> DEFINE at == compensating_insertion_safepoint(s, target)
           n == Len(s.suffix)
           p == n - (N - target)
           r == canonicalize(s, X \cup {at})
<1>1. /\ N \in Nat \ {0} /\ s.remaining \in 1..N /\ n \in Nat /\ DOMAIN s.suffix = 1..n
      /\ n <= N - s.remaining
  BY StateFacts
<1>2. s.remaining < target /\ n > N - target
  BY DEF has_insertion_point
<1>3. p \in 1..n /\ at = s.suffix[p]
  BY <1>1, <1>2 DEF compensating_insertion_safepoint
<1>4. at \in Points
  BY InsertionPoint
<1>5. at \notin X
  BY <1>1, <1>3
<1>6. PICK l : Keeps(s, X \cup {at}, l, r)
  BY CanonicalForm
<1>7. /\ l \in 0..n /\ \A k \in (l + 1)..n : s.suffix[k] \notin X \cup {at}
      /\ (l = 0 \/ r.remaining = N - (n - l))
  BY <1>6 DEF Keeps
<1> HIDE DEF at, r
<1>8. p <= l
  <2> SUFFICES ASSUME l < p PROVE FALSE
    BY <1>1, <1>3, <1>7
  <2>1. p \in (l + 1)..n
    BY <1>1, <1>3, <1>7
  <2> QED
    BY <1>3, <1>7, <2>1
<1>9. l # 0 /\ N - (n - l) >= target
  BY <1>1, <1>3, <1>7, <1>8
<1>10. r.remaining >= target
  BY <1>7, <1>9
<1> QED
  BY <1>4, <1>5, <1>10 DEF at, r

\* Canonicalized again, a state is at the target or still has a safepoint to check.
LEMMA StillNormalizing ==
    ASSUME prog \in Programs, NEW s \in GoodStates, NEW target \in 1..N, NEW X,
           s.remaining >= target \/ has_insertion_point(s, target)
    PROVE  LET r == canonicalize(s, X)
           IN /\ r.remaining >= target \/ has_insertion_point(r, target)
              /\ \A k \in DOMAIN r.suffix : r.suffix[k] \notin X
<1> DEFINE r == canonicalize(s, X)
           n == Len(s.suffix)
<1>1. /\ N \in Nat \ {0} /\ n \in Nat /\ DOMAIN s.suffix = 1..n
  BY StateFacts
<1>2. r \in GoodStates
  BY Canonicalized
<1>3. r.remaining \in 1..N /\ Len(r.suffix) \in Nat /\ DOMAIN r.suffix = 1..Len(r.suffix)
  BY <1>2, StateFacts
<1>4. PICK l : Keeps(s, X, l, r)
  BY CanonicalForm
<1>5. l \in 0..n /\ \A k \in (l + 1)..n : s.suffix[k] \notin X
  BY <1>4 DEF Keeps
<1> HIDE DEF r
<1>6. CASE l = 0 /\ r = s
  <2>1. \A k \in DOMAIN s.suffix : s.suffix[k] \notin X
    BY <1>1, <1>5, <1>6
  <2> QED
    BY <1>6, <2>1 DEF r
<1>7. CASE r.remaining = N - (n - l) /\ Len(r.suffix) = n - l
           /\ \A k \in 1..(n - l) : r.suffix[k] = s.suffix[l + k]
  <2>1. r.remaining >= target \/ has_insertion_point(r, target)
    <3> HIDE DEF n
    <3>1. Len(r.suffix) = N - r.remaining
      BY <1>1, <1>5, <1>7
    <3>2. ~(r.remaining >= target) => r.remaining < target /\ Len(r.suffix) > N - target
      BY <1>1, <1>3, <3>1
    <3> QED
      BY <3>1, <3>2 DEF has_insertion_point, has_complete_suffix
  <2>2. ASSUME NEW k \in DOMAIN r.suffix PROVE r.suffix[k] \notin X
    <3> HIDE DEF n
    <3>1. k \in 1..(n - l)
      BY <1>3, <1>7
    <3>2. l + k \in (l + 1)..n
      BY <1>1, <1>5, <3>1
    <3> QED
      BY <1>5, <1>7, <3>1, <3>2
  <2> QED
    BY <2>1, <2>2 DEF r
<1> QED
  BY <1>4, <1>6, <1>7 DEF Keeps, r

LEMMA CompensateAsserts ==
    ASSUME AssertInv, InsertCompensatingCheck
    PROVE  pc' = "compensate" /\ Normalizing'
<1>1. /\ pc = "compensate" /\ Inserting /\ prog' = prog /\ work.fixed <= Len(work.states)
  BY DEF InsertCompensatingCheck, Inserting
<1>2. /\ SoundInv /\ Normalizing /\ prog \in Programs /\ work \in Works
      /\ work.target \in 1..N /\ work.fixed \in Nat \ {0} /\ IrShape
      /\ work.states \in Seq(GoodStates)
  BY <1>1, InsertingFacts DEF AssertInv, SoundInv, Shape, WorkShape, Works
<1> DEFINE n == work.fixed
           old == work.states[n]
           s == IF n = 1 THEN work.states[1] ELSE canonicalize(old, resets)
           at == compensating_insertion_safepoint(s, work.target)
           here == loc[at]
           c == canonicalize(s, resets \cup {at})
<1>3. n \in DOMAIN work.states /\ old \in GoodStates
  BY <1>1, <1>2, SeqFacts
<1>4. /\ s \in GoodStates /\ (s.remaining >= work.target \/ has_insertion_point(s, work.target))
      /\ \A k \in DOMAIN s.suffix : s.suffix[k] \notin resets
  <2>1. old.remaining >= work.target \/ has_insertion_point(old, work.target)
    BY <1>2, <1>3 DEF Normalizing
  <2>2. CASE n = 1
    BY <1>2, <1>3, <2>1, <2>2 DEF Normalizing
  <2>3. CASE n # 1
    <3> HIDE DEF old
    <3>1. LET r == canonicalize(old, resets)
          IN /\ r.remaining >= work.target \/ has_insertion_point(r, work.target)
             /\ \A k \in DOMAIN r.suffix : r.suffix[k] \notin resets
      BY <1>2, <1>3, <2>1, StillNormalizing
    <3>2. canonicalize(old, resets) \in GoodStates
      BY <1>2, <1>3, Canonicalized
    <3> QED
      BY <2>3, <3>1, <3>2
  <2> QED
    BY <2>2, <2>3
<1> HIDE DEF s
<1>5. ASSUME ~(s.remaining >= work.target)
      PROVE  /\ has_insertion_point(s, work.target) /\ at \notin resets
             /\ InsertAsserts(here[1], here[2]) /\ c.remaining >= work.target
  <2>1. has_insertion_point(s, work.target)
    BY <1>4, <1>5
  <2>2. at \in Points /\ at \notin resets /\ c.remaining >= work.target
    BY <1>2, <1>4, <2>1, Compensates
  <2>3. PICK seg : PassInv(seg)
    BY <1>1, <1>2 DEF SoundInv
  <2> HIDE DEF at
  <2>4. here[2] \in DOMAIN stmts[here[1]] /\ stmts[here[1]][here[2]] = at
    BY <2>2, <2>3 DEF PassInv, Located
  <2>5. here[1] \in Blocks
    <3>1. loc \in [Points -> Blocks \X Nat]
      BY <1>1, <1>2, InsertingFacts DEF SoundInv
    <3> QED
      BY <2>2, <3>1
  <2>6. IsSafepoint(at)
    BY <2>2 DEF Points
  <2> HIDE DEF here
  <2>7. InsertAsserts(here[1], here[2])
    BY <1>1, <1>2, <2>4, <2>5, <2>6, InsertAssertsHold
  <2> QED
    BY <2>1, <2>2, <2>7 DEF at, here
<1> HIDE DEF at, here, c
<1>6. /\ pc' = "compensate"
      /\ \E x : x.remaining >= work.target
                /\ work' = [work EXCEPT !.states[work.fixed] = x, !.fixed = @ + 1]
  <2>1. CASE s.remaining >= work.target
    <3>1. pc' = pc /\ work' = [work EXCEPT !.states[work.fixed] = s, !.fixed = @ + 1]
      BY <2>1 DEF InsertCompensatingCheck, s
    <3> QED
      BY <1>1, <2>1, <3>1
  <2>2. CASE ~(s.remaining >= work.target)
    <3>1. pc' = pc /\ work' = [work EXCEPT !.states[work.fixed] = c, !.fixed = @ + 1]
      BY <1>5, <2>2 DEF InsertCompensatingCheck, s, at, here, c
    <3> QED
      BY <1>1, <1>5, <2>2, <3>1
  <2> QED
    BY <2>1, <2>2
<1>7. PICK x : /\ x.remaining >= work.target
               /\ work' = [work EXCEPT !.states[work.fixed] = x, !.fixed = @ + 1]
  BY <1>6
<1> DEFINE st == [work.states EXCEPT ![n] = x]
           nx == work.fixed + 1
<1>8. /\ DOMAIN st = DOMAIN work.states
      /\ \A k \in DOMAIN work.states : st[k] = IF k = n THEN x ELSE work.states[k]
  OBVIOUS
<1>9. work' = [work EXCEPT !.states = st, !.fixed = nx]
  BY <1>2, <1>7 DEF Works
<1> HIDE DEF st
<1>10. work'.states = st /\ work'.fixed = nx /\ work'.target = work.target
  BY <1>2, <1>9 DEF Works
<1>11. ASSUME NEW i \in DOMAIN st
       PROVE  IF i < nx THEN st[i].remaining >= work.target
              ELSE st[i].remaining >= work.target \/ has_insertion_point(st[i], work.target)
  <2>1. i \in Nat
    BY <1>2, <1>8, SeqFacts
  <2>2. CASE i = n
    BY <1>7, <1>8, <2>2
  <2>3. CASE i # n
    <3>1. st[i] = work.states[i] /\ i \in DOMAIN work.states
      BY <1>8, <2>3
    <3>2. i < nx <=> i < n
      BY <1>2, <2>1, <2>3
    <3> QED
      BY <1>2, <3>1, <3>2 DEF Normalizing
  <2> QED
    BY <2>2, <2>3
<1>12. nx # 1 /\ N' = N
  BY <1>1, <1>2, ProgKept
<1> HIDE DEF nx
<1>13. Normalizing'
  BY <1>10, <1>11, <1>12 DEF Normalizing, has_insertion_point, has_complete_suffix
<1> QED
  BY <1>6, <1>13

LEMMA NormalizedAsserts ==
    ASSUME AssertInv, MergeNormalized
    PROVE  pc' = "blocks"
<1>1. pc = "compensate" /\ Inserting /\ work.fixed > Len(work.states)
  BY DEF MergeNormalized, Inserting
<1>2. Normalizing /\ work.states \in Seq(GoodStates) /\ work.fixed \in Nat
  BY <1>1, InsertingFacts DEF AssertInv, SoundInv, Works
<1>3. \A i \in DOMAIN work.states : i < work.fixed
  BY <1>1, <1>2, SeqFacts
<1>4. \A i \in DOMAIN work.states : work.states[i].remaining >= work.target
  BY <1>2, <1>3 DEF Normalizing
<1> QED
  BY <1>4 DEF MergeNormalized

LEMMA AssertNext ==
    ASSUME AssertInv, [Next]_vars
    PROVE  AssertInv'
<1>1. SoundInv'
  BY SoundNext DEF AssertInv
<1>2. ASSUME pc' \notin {"assert_failed", "compensate"} PROVE AssertInv'
  BY <1>1, <1>2 DEF AssertInv
<1>3. CASE TarjanRun \/ TarjanVisit \/ TarjanReturn \/ AssertCyclesHaveSafepoints
  <2>1. pc' \in {"validate", "scc", "panic"}
    BY <1>3 DEF TarjanRun, TarjanVisit, TarjanReturn, AssertCyclesHaveSafepoints, Analysing
  <2> QED
    BY <1>2, <2>1
<1>4. CASE SccGraphNew \/ TopoStep
  <2>1. pc' = "order"
    BY <1>4 DEF SccGraphNew, TopoStep
  <2> QED
    BY <1>2, <2>1
<1>5. CASE InserterNew
  BY <1>2, <1>5, NewAsserts
<1>6. CASE DrainIncoming
  BY <1>2, <1>6, DrainAsserts
<1>7. CASE MergeHaltStates
  <2>1. pc' \in {"blocks", "compensate"} /\ (pc' = "compensate" => Normalizing')
    BY <1>7, MergeAsserts
  <2> QED
    BY <1>1, <2>1 DEF AssertInv
<1>8. CASE InsertCompensatingCheck
  <2>1. pc' = "compensate" /\ Normalizing'
    BY <1>8, CompensateAsserts
  <2> QED
    BY <1>1, <2>1 DEF AssertInv
<1>9. CASE MergeNormalized
  BY <1>2, <1>9, NormalizedAsserts
<1>10. CASE ProcessStatement
  BY <1>2, <1>10, StatementAsserts
<1>11. CASE FinishBlock
  <2>1. pc' \in {"blocks", "sort", "drain"}
    BY <1>11, FinishAsserts
  <2> QED
    BY <1>2, <2>1
<1>12. CASE TopoSortStep \/ Built
  <2>1. pc' \in {"sort", "done"}
    BY <1>12 DEF TopoSortStep, Built
  <2> QED
    BY <1>2, <2>1
<1>13. CASE Terminated \/ UNCHANGED vars
  <2>1. pc' = pc /\ work' = work /\ resets' = resets /\ N' = N
    BY <1>13 DEF Terminated, vars, N
  <2>2. Normalizing => Normalizing'
    BY <2>1 DEF Normalizing, has_insertion_point, has_complete_suffix
  <2> QED
    BY <1>1, <2>1, <2>2 DEF AssertInv
<1> QED
  BY <1>3, <1>4, <1>5, <1>6, <1>7, <1>8, <1>9, <1>10, <1>11, <1>12, <1>13 DEF Next

\* None of the pass's assertions ever fires: the topological order is complete, the
\* two edge maps agree when incoming edges are drained and when a block is split,
\* loc finds every safepoint where it is, no safepoint gets a second compensating
\* check, every state the merge meant to normalize reaches the target, and no edge
\* is added twice.
THEOREM AssertionsHold == Spec => [](pc # "assert_failed")
<1>1. Init => AssertInv
  <2> SUFFICES ASSUME Init PROVE AssertInv
    OBVIOUS
  <2>1. SoundInv /\ pc = "validate"
    BY SoundInit DEF Init
  <2> QED
    BY <2>1 DEF AssertInv
<1>2. AssertInv /\ [Next]_vars => AssertInv'
  BY AssertNext
<1>3. AssertInv => pc # "assert_failed"
  BY DEF AssertInv
<1> QED
  BY <1>1, <1>2, <1>3, PTL DEF Spec

=============================================================================

------------------------- MODULE HaltAnalysisProofs -------------------------
(***************************************************************************)
(* Machine-checked proofs about the analyses of HaltCheckPass, for every   *)
(* set of programs: Tarjan's components and the order of the components.   *)
(***************************************************************************)
EXTENDS HaltCheckPass, FiniteSetTheorems, SequenceTheorems, WellFoundedInduction, TLAPS

-----------------------------------------------------------------------------
(* Sets of numbers *)

\* Every nonempty set of naturals has a least element.
LEMMA Least ==
    ASSUME NEW T \in SUBSET Nat, T # {}
    PROVE  \E x \in T : \A y \in T : x <= y
<1>1. \E x \in T : \A y \in T : ~ (<<y, x>> \in OpToRel(<, Nat))
  BY NatLessThanWellFounded, WFMin
<1>2. \A x, y \in Nat : <<y, x>> \in OpToRel(<, Nat) <=> y < x
  BY DEF OpToRel
<1>3. \E x \in T : \A y \in T : ~ (y < x)
  BY <1>1, <1>2
<1> QED
  BY <1>3

\* A nonempty set of naturals with an upper bound has a greatest element.
LEMMA Greatest ==
    ASSUME NEW T \in SUBSET Nat, T # {}, NEW n \in Nat, \A x \in T : x <= n
    PROVE  \E x \in T : \A y \in T : y <= x
<1> DEFINE D == {n - x : x \in T}
<1>1. D \in SUBSET Nat /\ D # {}
  <2>1. \A x \in T : n - x \in Nat
    OBVIOUS
  <2> QED
    BY <2>1, Zenon
<1>2. PICK d \in D : \A e \in D : d <= e
  BY <1>1, Least
<1>3. PICK x \in T : d = n - x
  BY <1>2
<1>4. \A y \in T : n - y \in D
  OBVIOUS
<1>5. \A y \in T : y <= x
  BY <1>2, <1>3, <1>4
<1> QED
  BY <1>5

-----------------------------------------------------------------------------
(* Closures: the sets that the closure functions of the model compute *)

\* The least superset of R in V that M adds nothing to.
LeastClosed(V, M, R) ==
    {x \in V : \A C \in SUBSET V : R \subseteq C /\ M[C] \subseteq C => x \in C}

IsClosure(V, M, F) ==
    F = [R \in SUBSET V |-> IF M[R] \subseteq R THEN R ELSE F[R \cup M[R]]]

\* The recursion of a closure has a solution, which is the least closed set.
LEMMA ClosureExists ==
    ASSUME NEW V, NEW M \in [SUBSET V -> SUBSET V],
           \A R, S \in SUBSET V : R \subseteq S => M[R] \subseteq M[S]
    PROVE  \E F : IsClosure(V, M, F)
<1> DEFINE L == [R \in SUBSET V |-> LeastClosed(V, M, R)]
<1> SUFFICES ASSUME NEW R \in SUBSET V
             PROVE  L[R] = IF M[R] \subseteq R THEN R ELSE L[R \cup M[R]]
  <2>1. L = [R \in SUBSET V |-> IF M[R] \subseteq R THEN R ELSE L[R \cup M[R]]]
    OBVIOUS
  <2> QED
    BY <2>1 DEF IsClosure
<1>1. CASE M[R] \subseteq R
  BY <1>1 DEF LeastClosed
<1>2. CASE ~ (M[R] \subseteq R)
  <2>1. R \cup M[R] \in SUBSET V
    OBVIOUS
  <2>2. \A C \in SUBSET V : R \subseteq C /\ M[C] \subseteq C => R \cup M[R] \subseteq C
    OBVIOUS
  <2>3. LeastClosed(V, M, R) = LeastClosed(V, M, R \cup M[R])
    BY <2>2 DEF LeastClosed
  <2> QED
    BY <1>2, <2>1, <2>3
<1> QED
  BY <1>1, <1>2

\* On a finite set it has no other solution.
LEMMA ClosureLeast ==
    ASSUME NEW V, IsFiniteSet(V), NEW M \in [SUBSET V -> SUBSET V],
           \A R, S \in SUBSET V : R \subseteq S => M[R] \subseteq M[S],
           NEW F, IsClosure(V, M, F), NEW from \in SUBSET V
    PROVE  F[from] = LeastClosed(V, M, from)
<1> DEFINE Bad == {R \in SUBSET V : F[R] # LeastClosed(V, M, R)}
           Sizes == {Cardinality(V \ R) : R \in Bad}
<1> SUFFICES ASSUME Bad # {} PROVE FALSE
  OBVIOUS
<1>1. \A R \in SUBSET V : IsFiniteSet(V \ R) /\ Cardinality(V \ R) \in Nat
  BY FS_Subset, FS_CardinalityType
<1>2. Sizes \in SUBSET Nat /\ Sizes # {}
  BY <1>1
<1>3. PICK n \in Sizes : \A m \in Sizes : n <= m
  BY <1>2, Least
<1>4. PICK R \in Bad : n = Cardinality(V \ R)
  BY <1>3
<1>5. F[R] = IF M[R] \subseteq R THEN R ELSE F[R \cup M[R]]
  BY DEF IsClosure
<1>6. CASE M[R] \subseteq R
  BY <1>5, <1>6 DEF LeastClosed
<1>7. CASE ~ (M[R] \subseteq R)
  <2> DEFINE S == R \cup M[R]
  <2>1. S \in SUBSET V
    OBVIOUS
  <2>2. V \ S \in SUBSET (V \ R) /\ V \ S # V \ R
    BY <1>7
  <2>3. Cardinality(V \ S) < Cardinality(V \ R)
    <3>1. /\ Cardinality(V \ S) <= Cardinality(V \ R)
          /\ Cardinality(V \ R) = Cardinality(V \ S) => V \ R = V \ S
      BY <1>1, <2>2, FS_Subset
    <3>2. Cardinality(V \ S) \in Nat /\ Cardinality(V \ R) \in Nat
      BY <1>1, <2>1
    <3> HIDE DEF S
    <3> QED
      BY <2>2, <3>1, <3>2
  <2>4. S \notin Bad
    <3>1. S \in Bad => Cardinality(V \ S) \in Sizes
      OBVIOUS
    <3>2. Cardinality(V \ S) \in Nat /\ Cardinality(V \ R) \in Nat
      BY <1>1, <2>1
    <3> HIDE DEF S, Bad, Sizes
    <3>3. S \in Bad => Cardinality(V \ R) <= Cardinality(V \ S)
      BY <1>3, <1>4, <3>1, Zenon
    <3> QED
      BY <2>3, <3>2, <3>3
  <2>5. F[S] = LeastClosed(V, M, S)
    BY <2>1, <2>4
  <2>6. \A C \in SUBSET V : R \subseteq C /\ M[C] \subseteq C => S \subseteq C
    OBVIOUS
  <2>7. LeastClosed(V, M, R) = LeastClosed(V, M, S)
    BY <2>6 DEF LeastClosed
  <2> QED
    BY <1>5, <1>7, <2>5, <2>7
<1> QED
  BY <1>6, <1>7

-----------------------------------------------------------------------------
(* Reachability *)

Closed(C, E) == \A e \in E : e[1] \in C => e[2] \in C

\* y is in every set that holds x and that no edge leaves.
Connected(V, E, x, y) == \A C \in SUBSET V : x \in C /\ Closed(C, E) => y \in C

LEMMA ConnectedSelf ==
    ASSUME NEW V, NEW E, NEW x
    PROVE  Connected(V, E, x, x)
  BY DEF Connected

LEMMA ConnectedTransitive ==
    ASSUME NEW V, NEW E, NEW x, NEW y, NEW z,
           Connected(V, E, x, y), Connected(V, E, y, z)
    PROVE  Connected(V, E, x, z)
  BY DEF Connected

LEMMA ConnectedEdge ==
    ASSUME NEW V, NEW E, NEW x, NEW y, <<x, y>> \in E
    PROVE  Connected(V, E, x, y)
  BY DEF Connected, Closed

\* A way to another block begins with an edge.
LEMMA ConnectedFirst ==
    ASSUME NEW V, NEW E \in SUBSET (V \X V), NEW x \in V, NEW y, x # y, Connected(V, E, x, y)
    PROVE  \E z \in V : <<x, z>> \in E /\ Connected(V, E, z, y)
<1> DEFINE C == {x} \cup {w \in V : \E z \in V : <<x, z>> \in E /\ Connected(V, E, z, w)}
<1>1. x \in C /\ C \in SUBSET V
  OBVIOUS
<1>2. Closed(C, E)
  <2> SUFFICES ASSUME NEW e \in E, e[1] \in C PROVE e[2] \in C
    BY DEF Closed
  <2>1. e = <<e[1], e[2]>> /\ e[1] \in V /\ e[2] \in V
    OBVIOUS
  <2>2. CASE e[1] = x
    BY <2>1, <2>2, ConnectedSelf
  <2>3. CASE e[1] # x
    <3>1. PICK z \in V : <<x, z>> \in E /\ Connected(V, E, z, e[1])
      BY <2>3
    <3>2. Connected(V, E, z, e[2])
      BY <2>1, <3>1, ConnectedEdge, ConnectedTransitive
    <3> QED
      BY <2>1, <3>1, <3>2
  <2> QED
    BY <2>2, <2>3
<1>3. y \in C
  BY <1>1, <1>2 DEF Connected
<1> QED
  BY <1>3

\* What Reach computes, whatever blocks the graph E does not know there are.
LEMMA ReachConnected ==
    ASSUME IsFiniteSet(Blocks), NEW V \in SUBSET Blocks, NEW E \in SUBSET (V \X V), NEW x \in V
    PROVE  Reach({x}, E) = {y \in V : Connected(V, E, x, y)}
<1> DEFINE More(R) == {e[2] : e \in {f \in E : f[1] \in R}}
           Eq(F) == F = [R \in SUBSET Blocks |->
                           IF More(R) \subseteq R THEN R ELSE F[R \cup More(R)]]
           M == [R \in SUBSET Blocks |-> More(R)]
<1>1. Reach({x}, E) = (CHOOSE F : Eq(F))[{x}]
  BY DEF Reach
<1>2. /\ M \in [SUBSET Blocks -> SUBSET Blocks]
      /\ \A R, S \in SUBSET Blocks : R \subseteq S => M[R] \subseteq M[S]
  OBVIOUS
<1>3. \A F : Eq(F) <=> IsClosure(Blocks, M, F)
  BY DEF IsClosure
<1> HIDE DEF M, Eq
<1>4. \E F : Eq(F)
  BY <1>2, <1>3, ClosureExists
<1>5. Reach({x}, E) = LeastClosed(Blocks, M, {x})
  <2> DEFINE F == CHOOSE F : Eq(F)
  <2>1. Eq(F)
    BY <1>4
  <2>2. IsClosure(Blocks, M, F)
    BY <1>3, <2>1
  <2> HIDE DEF F
  <2>3. {x} \in SUBSET Blocks
    OBVIOUS
  <2>4. F[{x}] = LeastClosed(Blocks, M, {x})
    BY <1>2, <2>2, <2>3, ClosureLeast, Zenon
  <2> QED
    BY <1>1, <2>4 DEF F
<1>6. \A C \in SUBSET Blocks : M[C] \subseteq C <=> Closed(C, E)
  BY DEF M, Closed
<1>7. Closed(V, E)
  BY DEF Closed
<1>8. \A C \in SUBSET Blocks : Closed(C, E) => Closed(C \cap V, E)
  BY DEF Closed
<1>9. ASSUME NEW y \in LeastClosed(Blocks, M, {x})
      PROVE  y \in V /\ Connected(V, E, x, y)
  BY <1>6, <1>7 DEF LeastClosed, Connected
<1>10. ASSUME NEW y \in V, Connected(V, E, x, y)
       PROVE  y \in LeastClosed(Blocks, M, {x})
  <2> SUFFICES ASSUME NEW C \in SUBSET Blocks, {x} \subseteq C, M[C] \subseteq C
               PROVE  y \in C
    BY DEF LeastClosed
  <2>1. x \in C \cap V /\ C \cap V \in SUBSET V /\ Closed(C \cap V, E)
    BY <1>6, <1>8
  <2> QED
    BY <1>10, <2>1 DEF Connected
<1> QED
  BY <1>5, <1>9, <1>10

-----------------------------------------------------------------------------
(* Tarjan's algorithm: the invariant.  t is the state of the algorithm, W   *)
(* the blocks and E the edges between allowed blocks.                        *)

InComponent(t, b) == \E i \in DOMAIN t.components : b \in AsSet(t.components[i])

TarjanTyped(t, W) ==
    /\ t.allowed \in SUBSET W /\ t.next_index \in Nat
    /\ t.index \in [W -> Int] /\ t.low_link \in [W -> Int]
    /\ t.stack \in Seq(W) /\ t.components \in Seq(Seq(W))
    /\ t.calls \in Seq([block : W, todo : Seq(Nat)])

\* A block has an index once it has been entered; then it is on the stack until
\* it is in a component.
IndexesRight(t, W) ==
    \A b \in W :
        /\ t.index[b] >= -1 /\ t.index[b] < t.next_index
        /\ t.index[b] # -1 <=> (b \in AsSet(t.stack) \/ InComponent(t, b))
        /\ ~ (b \in AsSet(t.stack) /\ InComponent(t, b))
        /\ t.index[b] # -1 => b \in t.allowed

StackSorted(t) ==
    \A i, j \in DOMAIN t.stack : i < j => t.index[t.stack[i]] < t.index[t.stack[j]]

\* The activations are on the stack in the order of their indexes, and the
\* successors that an activation has not visited are the ends of edges.
CallsOnStack(t, E) ==
    /\ \A k \in DOMAIN t.calls :
          /\ t.calls[k].block \in AsSet(t.stack)
          /\ \A c \in AsSet(t.calls[k].todo) : c \in t.allowed => <<t.calls[k].block, c>> \in E
    /\ \A k, l \in DOMAIN t.calls :
          k < l => t.index[t.calls[k].block] < t.index[t.calls[l].block]

\* A block of the stack leads to every one above it, and to the block of an
\* activation at or below it.
StackConnected(t, E) ==
    /\ \A i, j \in DOMAIN t.stack :
          i < j => Connected(t.allowed, E, t.stack[i], t.stack[j])
    /\ \A x \in AsSet(t.stack) : \E k \in DOMAIN t.calls :
          /\ t.index[t.calls[k].block] <= t.index[x]
          /\ Connected(t.allowed, E, x, t.calls[k].block)

\* low_link is the index of a block of the stack that can be reached.
LowLinksReached(t, E) ==
    \A x \in AsSet(t.stack) :
        /\ t.low_link[x] <= t.index[x]
        /\ \E y \in AsSet(t.stack) :
              t.low_link[x] = t.index[y] /\ Connected(t.allowed, E, x, y)

\* Edges that have been followed.
Followed(t, E, b, c) ==
    /\ <<b, c>> \in E
    /\ \A k \in DOMAIN t.calls : t.calls[k].block = b => c \notin AsSet(t.calls[k].todo)

\* An edge that has been followed ends in a block that has been entered; if that
\* is on the stack, the low_link of the activation the edge belongs to is as low.
FollowedEntered(t, E) ==
    \A b \in AsSet(t.stack), c \in t.allowed : Followed(t, E, b, c) => t.index[c] # -1

FollowedCounted(t, E) ==
    \A k \in DOMAIN t.calls, b, c \in AsSet(t.stack) :
        (/\ Followed(t, E, b, c)
         /\ t.index[t.calls[k].block] <= t.index[b]
         /\ \A l \in DOMAIN t.calls : k < l => t.index[b] < t.index[t.calls[l].block])
        => t.low_link[t.calls[k].block] <= t.index[c]

\* The components that have been found: no edge leaves them for a later one, and
\* the members of each reach each other.
ComponentsFound(cs, A, E) ==
    /\ \A i \in DOMAIN cs :
          /\ cs[i] # <<>>
          /\ \A p, q \in DOMAIN cs[i] :
                /\ p # q => cs[i][p] # cs[i][q]
                /\ Connected(A, E, cs[i][p], cs[i][q])
          /\ \A b \in AsSet(cs[i]), c \in A :
                <<b, c>> \in E => \E j \in DOMAIN cs : j <= i /\ c \in AsSet(cs[j])
    /\ \A i, j \in DOMAIN cs : i # j => AsSet(cs[i]) \cap AsSet(cs[j]) = {}

TarjanInv(t, W, E) ==
    /\ TarjanTyped(t, W) /\ E \in SUBSET (t.allowed \X t.allowed)
    /\ IndexesRight(t, W) /\ StackSorted(t) /\ CallsOnStack(t, E)
    /\ StackConnected(t, E) /\ LowLinksReached(t, E)
    /\ FollowedEntered(t, E) /\ FollowedCounted(t, E)
    /\ ComponentsFound(t.components, t.allowed, E)

-----------------------------------------------------------------------------
(* Tarjan's algorithm: its steps *)

LEMMA SeqFacts ==
    ASSUME NEW S, NEW s \in Seq(S)
    PROVE  /\ Len(s) \in Nat /\ DOMAIN s = 1..Len(s)
           /\ \A i \in DOMAIN s : s[i] \in S
           /\ AsSet(s) \subseteq S
           /\ s # <<>> => Len(s) \in DOMAIN s /\ Len(s) >= 1
  BY DEF AsSet

LEMMA Appended ==
    ASSUME NEW S, NEW s \in Seq(S), NEW x
    PROVE  /\ Len(s) \in Nat /\ DOMAIN s = 1..Len(s)
           /\ Len(Append(s, x)) = Len(s) + 1 /\ DOMAIN Append(s, x) = 1..(Len(s) + 1)
           /\ \A i \in DOMAIN s : Append(s, x)[i] = s[i] /\ s[i] \in S
           /\ Append(s, x)[Len(s) + 1] = x
  OBVIOUS

LEMMA AsSetAppend ==
    ASSUME NEW S, NEW s \in Seq(S), NEW x
    PROVE  AsSet(Append(s, x)) = AsSet(s) \cup {x}
<1>1. \A i : i \in 1..(Len(s) + 1) <=> i \in 1..Len(s) \/ i = Len(s) + 1
  BY Appended
<1>2. ASSUME NEW y \in AsSet(Append(s, x)) PROVE y \in AsSet(s) \cup {x}
  BY <1>1, <1>2, Appended DEF AsSet
<1>3. ASSUME NEW y \in AsSet(s) \cup {x} PROVE y \in AsSet(Append(s, x))
  BY <1>1, <1>3, Appended DEF AsSet
<1> QED
  BY <1>2, <1>3

\* An edge that is followed after a step had been before it, or is the new one.
Refines(calls, t, c) ==
    /\ Len(calls) = Len(t.calls)
    /\ \A k \in DOMAIN t.calls :
          /\ calls[k].block = t.calls[k].block
          /\ AsSet(calls[k].todo) \subseteq AsSet(t.calls[k].todo)
          /\ AsSet(t.calls[k].todo) \subseteq AsSet(calls[k].todo) \cup {c}

\* strong_connect_inner is entered for a block without an index.
Entering(t, calls, c, todo, u) ==
    /\ u.allowed = t.allowed /\ u.next_index = t.next_index + 1
    /\ u.index = [t.index EXCEPT ![c] = t.next_index]
    /\ u.low_link = [t.low_link EXCEPT ![c] = t.next_index]
    /\ u.stack = Append(t.stack, c) /\ u.components = t.components
    /\ u.calls = Append(calls, [block |-> c, todo |-> todo])

LEMMA TarjanEnter ==
    ASSUME NEW t, NEW W, NEW E, TarjanInv(t, W, E),
           NEW c \in t.allowed, t.index[c] = -1,
           \A x \in AsSet(t.stack) : Connected(t.allowed, E, x, c),
           NEW calls \in Seq([block : W, todo : Seq(Nat)]), Refines(calls, t, c),
           NEW todo \in Seq(Nat), \A d \in t.allowed : d \in AsSet(todo) <=> <<c, d>> \in E,
           NEW u, Entering(t, calls, c, todo, u)
    PROVE  TarjanInv(u, W, E)
<1> SUFFICES ASSUME u.allowed = t.allowed, u.next_index = t.next_index + 1,
                    u.index = [t.index EXCEPT ![c] = t.next_index],
                    u.low_link = [t.low_link EXCEPT ![c] = t.next_index],
                    u.stack = Append(t.stack, c), u.components = t.components,
                    u.calls = Append(calls, [block |-> c, todo |-> todo])
             PROVE  TarjanInv(u, W, E)
  BY DEF Entering
<1> USE DEF TarjanInv
<1>1. c \in W /\ TarjanTyped(u, W)
  <2>1. [block |-> c, todo |-> todo] \in [block : W, todo : Seq(Nat)]
    BY DEF TarjanTyped
  <2>2. u.calls \in Seq([block : W, todo : Seq(Nat)])
    BY <2>1
  <2> QED
    BY <2>2, SMTT(30) DEF TarjanTyped
<1>2. AsSet(u.stack) = AsSet(t.stack) \cup {c} /\ AsSet(t.stack) \subseteq W /\ c \notin AsSet(t.stack)
  <2>1. AsSet(t.stack) \subseteq W
    BY DEF TarjanTyped, AsSet
  <2> QED
    BY <1>1, <2>1, AsSetAppend DEF TarjanTyped, IndexesRight
<1>3. \A b : InComponent(u, b) <=> InComponent(t, b)
  BY DEF InComponent
<1>4. /\ \A b \in W : b # c => u.index[b] = t.index[b] /\ u.low_link[b] = t.low_link[b]
      /\ u.index[c] = t.next_index /\ u.low_link[c] = t.next_index
  BY <1>1 DEF TarjanTyped
<1> DEFINE Ints(v) == \A b \in W : v.index[b] \in Int /\ v.low_link[b] \in Int
<1>0. Ints(t) /\ Ints(u) /\ t.next_index \in Nat
  BY <1>1 DEF TarjanTyped
<1>5. /\ Len(u.calls) = Len(t.calls) + 1 /\ Len(t.calls) \in Nat
      /\ DOMAIN u.calls = 1..(Len(t.calls) + 1) /\ DOMAIN t.calls = 1..Len(t.calls)
      /\ \A k \in DOMAIN t.calls : u.calls[k].block = t.calls[k].block
      /\ \A k \in DOMAIN t.calls : u.calls[k].todo = calls[k].todo
      /\ u.calls[Len(t.calls) + 1].block = c
      /\ u.calls[Len(t.calls) + 1].todo = todo
  <2>1. Len(calls) = Len(t.calls) /\ Len(t.calls) \in Nat /\ DOMAIN t.calls = 1..Len(t.calls)
    BY DEF Refines, TarjanTyped
  <2>2. DOMAIN calls = DOMAIN t.calls
    BY <2>1
  <2>3. \A k \in DOMAIN t.calls : u.calls[k] = calls[k]
    BY <2>2, Appended
  <2>4. u.calls[Len(t.calls) + 1] = [block |-> c, todo |-> todo]
    BY <2>1, Appended
  <2>5. Len(u.calls) = Len(t.calls) + 1 /\ DOMAIN u.calls = 1..(Len(t.calls) + 1)
    BY <2>1, Appended
  <2> QED
    BY <2>1, <2>3, <2>4, <2>5 DEF Refines
<1>6. /\ Len(t.stack) \in Nat /\ DOMAIN t.stack = 1..Len(t.stack)
      /\ DOMAIN u.stack = 1..(Len(t.stack) + 1)
      /\ \A i \in DOMAIN t.stack : u.stack[i] = t.stack[i] /\ t.stack[i] \in AsSet(t.stack)
      /\ u.stack[Len(t.stack) + 1] = c
  <2>1. t.stack \in Seq(W)
    BY DEF TarjanTyped
  <2> QED
    BY <2>1, Appended DEF AsSet
<1>9. \A k \in DOMAIN t.calls : t.calls[k].block \in AsSet(t.stack)
  BY DEF CallsOnStack
<1> DEFINE last == Len(t.calls) + 1
<1>17. /\ \A k : k \in DOMAIN u.calls <=> k \in DOMAIN t.calls \/ k = last
       /\ \A k \in DOMAIN t.calls : k < last
       /\ \A k \in DOMAIN t.calls :
             /\ u.index[u.calls[k].block] = t.index[t.calls[k].block]
             /\ u.low_link[u.calls[k].block] = t.low_link[t.calls[k].block]
       /\ u.calls[last].block = c /\ u.calls[last].todo = todo
  <2>1. /\ \A k : k \in DOMAIN u.calls <=> k \in DOMAIN t.calls \/ k = last
        /\ \A k \in DOMAIN t.calls : k < last
    BY <1>5
  <2>2. ASSUME NEW k \in DOMAIN t.calls
        PROVE  /\ u.index[u.calls[k].block] = t.index[t.calls[k].block]
               /\ u.low_link[u.calls[k].block] = t.low_link[t.calls[k].block]
    BY <1>2, <1>4, <1>5, <1>9, ZenonT(40)
  <2> QED
    BY <1>5, <2>1, <2>2
<1>18. \A x \in AsSet(t.stack) :
          /\ u.index[x] = t.index[x] /\ u.low_link[x] = t.low_link[x]
          /\ t.index[x] < t.next_index /\ t.low_link[x] <= t.index[x]
          /\ t.index[x] \in Int /\ t.low_link[x] \in Int
  BY <1>0, <1>2, <1>4 DEF IndexesRight, LowLinksReached
<1> HIDE DEF last, Ints
<1>7. IndexesRight(u, W)
  BY <1>1, <1>2, <1>3, <1>4, SMTT(30) DEF IndexesRight, TarjanTyped
<1>8. StackSorted(u)
  <2> SUFFICES ASSUME NEW i \in DOMAIN u.stack, NEW j \in DOMAIN u.stack, i < j
               PROVE  u.index[u.stack[i]] < u.index[u.stack[j]]
    BY DEF StackSorted
  <2>1. i \in DOMAIN t.stack /\ (j \in DOMAIN t.stack \/ u.stack[j] = c)
    BY <1>6
  <2>2. u.stack[i] = t.stack[i] /\ t.stack[i] \in AsSet(t.stack)
    BY <1>6, <2>1
  <2>3. CASE j \in DOMAIN t.stack
    <3>1. u.stack[j] = t.stack[j] /\ t.stack[j] \in AsSet(t.stack)
      BY <1>6, <2>3
    <3>2. t.index[t.stack[i]] < t.index[t.stack[j]]
      BY <2>1, <2>3 DEF StackSorted
    <3> QED
      BY <1>18, <2>2, <3>1, <3>2
  <2>4. CASE u.stack[j] = c
    BY <1>4, <1>18, <2>2, <2>4
  <2> QED
    BY <2>1, <2>3, <2>4
<1>10. CallsOnStack(u, E)
  <2>1. ASSUME NEW k \in DOMAIN u.calls
        PROVE  /\ u.calls[k].block \in AsSet(u.stack)
               /\ \A d \in AsSet(u.calls[k].todo) : d \in u.allowed => <<u.calls[k].block, d>> \in E
    <3>1. CASE k \in DOMAIN t.calls
      BY <1>2, <1>5, <3>1 DEF CallsOnStack, Refines
    <3>2. CASE k = Len(t.calls) + 1
      BY <1>2, <1>5, <3>2
    <3> QED
      BY <1>5, <3>1, <3>2
  <2>2. ASSUME NEW k \in DOMAIN u.calls, NEW l \in DOMAIN u.calls, k < l
        PROVE  u.index[u.calls[k].block] < u.index[u.calls[l].block]
    <3>1. k \in DOMAIN t.calls
      BY <1>5, <2>2
    <3>2. CASE l \in DOMAIN t.calls
      BY <1>17, <2>2, <3>1, <3>2 DEF CallsOnStack
    <3>3. CASE l = last
      BY <1>4, <1>9, <1>17, <1>18, <3>1, <3>3
    <3> QED
      BY <1>17, <3>2, <3>3
  <2> QED
    BY <2>1, <2>2 DEF CallsOnStack
<1>11. StackConnected(u, E)
  <2>1. ASSUME NEW i \in DOMAIN u.stack, NEW j \in DOMAIN u.stack, i < j
        PROVE  Connected(u.allowed, E, u.stack[i], u.stack[j])
    BY <1>6, <2>1, SMTT(30) DEF StackConnected
  <2>2. ASSUME NEW x \in AsSet(t.stack)
        PROVE  \E k \in DOMAIN u.calls :
                  /\ u.index[u.calls[k].block] <= u.index[x]
                  /\ Connected(u.allowed, E, x, u.calls[k].block)
    <3>1. PICK k \in DOMAIN t.calls :
              /\ t.index[t.calls[k].block] <= t.index[x]
              /\ Connected(t.allowed, E, x, t.calls[k].block)
      BY DEF StackConnected
    <3> QED
      BY <1>5, <1>17, <1>18, <3>1
  <2>3. /\ last \in DOMAIN u.calls /\ u.index[u.calls[last].block] <= u.index[c]
        /\ Connected(u.allowed, E, c, u.calls[last].block)
    <3>1. last \in DOMAIN u.calls /\ u.calls[last].block = c
      BY <1>17
    <3>2. u.index[c] <= u.index[c]
      BY <1>0, <1>4
    <3> QED
      BY <3>1, <3>2, ConnectedSelf
  <2> QED
    BY <1>2, <2>1, <2>2, <2>3 DEF StackConnected
<1>12. LowLinksReached(u, E)
  <2>1. ASSUME NEW x \in AsSet(t.stack)
        PROVE  /\ u.low_link[x] <= u.index[x]
               /\ \E y \in AsSet(u.stack) :
                     u.low_link[x] = u.index[y] /\ Connected(u.allowed, E, x, y)
    <3>1. PICK y \in AsSet(t.stack) :
              t.low_link[x] = t.index[y] /\ Connected(t.allowed, E, x, y)
      BY DEF LowLinksReached
    <3> QED
      BY <1>2, <1>4, <3>1 DEF LowLinksReached
  <2>2. u.low_link[c] <= u.index[c] /\ u.low_link[c] = u.index[c]
    BY <1>4 DEF TarjanTyped
  <2> QED
    BY <1>2, <2>1, <2>2, ConnectedSelf DEF LowLinksReached
<1>13. ASSUME NEW b \in AsSet(u.stack), NEW d \in t.allowed, Followed(u, E, b, d)
       PROVE  b \in AsSet(t.stack) /\ (Followed(t, E, b, d) \/ d = c)
  <2>1. b # c
    BY <1>13, <1>17 DEF Followed
  <2>2. \A k \in DOMAIN t.calls : t.calls[k].block = b => d \notin AsSet(calls[k].todo)
    BY <1>5, <1>13, <1>17 DEF Followed
  <2> QED
    BY <1>2, <1>13, <2>1, <2>2 DEF Followed, Refines
<1>14. FollowedEntered(u, E)
  <2> SUFFICES ASSUME NEW b \in AsSet(u.stack), NEW d \in t.allowed, Followed(u, E, b, d)
               PROVE  u.index[d] # -1
    BY DEF FollowedEntered
  <2>1. CASE d = c
    BY <1>0, <1>4, <2>1
  <2>2. CASE d # c
    <3>1. t.index[d] # -1
      BY <1>13, <2>2 DEF FollowedEntered
    <3>2. d \in W
      BY DEF TarjanTyped
    <3> QED
      BY <1>4, <2>2, <3>1, <3>2
  <2> QED
    BY <2>1, <2>2
<1>15. FollowedCounted(u, E)
  <2> SUFFICES ASSUME NEW k \in DOMAIN u.calls, NEW b \in AsSet(u.stack), NEW d \in AsSet(u.stack),
                      Followed(u, E, b, d), u.index[u.calls[k].block] <= u.index[b],
                      \A l \in DOMAIN u.calls : k < l => u.index[b] < u.index[u.calls[l].block]
               PROVE  u.low_link[u.calls[k].block] <= u.index[d]
    BY DEF FollowedCounted
  <2>1. d \in t.allowed
    BY DEF Followed
  <2>2. b \in AsSet(t.stack) /\ (Followed(t, E, b, d) \/ d = c)
    BY <1>13, <2>1
  <2>3. k \in DOMAIN t.calls
    <3>1. u.index[b] < u.index[c] /\ u.index[b] \in Int /\ u.index[c] \in Int
      BY <1>0, <1>4, <1>18, <2>2
    <3>2. u.calls[k].block # c
      BY <3>1, SMTT(30)
    <3> QED
      BY <1>17, <3>2
  <2>4. t.calls[k].block \in AsSet(t.stack) /\ t.calls[k].block # c
    BY <1>2, <1>9, <2>3
  <2>5. u.calls[k].block = t.calls[k].block
    BY <1>5, <2>3
  <2>6. u.low_link[u.calls[k].block] = t.low_link[t.calls[k].block]
    BY <1>2, <1>4, <2>4, <2>5
  <2>7. CASE d = c
    <3> DEFINE p == t.calls[k].block
    <3>1. t.low_link[p] <= t.index[p] /\ t.index[p] < t.next_index
          /\ t.low_link[p] \in Int /\ t.index[p] \in Int
      BY <1>18, <2>4
    <3>2. t.low_link[p] <= t.next_index
      BY <1>0, <3>1, SMTT(30)
    <3> QED
      BY <1>4, <2>6, <2>7, <3>2
  <2>8. CASE d # c
    <3>1. d \in AsSet(t.stack)
      BY <1>2, <2>8
    <3>2. \A l \in DOMAIN t.calls : k < l => t.index[b] < t.index[t.calls[l].block]
      BY <1>17, <1>18, <2>2
    <3>3. t.index[t.calls[k].block] <= t.index[b]
      BY <1>17, <1>18, <2>2, <2>3
    <3>4. t.low_link[t.calls[k].block] <= t.index[d]
      BY <2>2, <2>3, <2>8, <3>1, <3>2, <3>3 DEF FollowedCounted
    <3> QED
      BY <1>2, <1>4, <2>6, <2>8, <3>1, <3>4
  <2> QED
    BY <2>7, <2>8
<1>16. ComponentsFound(u.components, u.allowed, E)
  OBVIOUS
<1> QED
  BY <1>1, <1>7, <1>8, <1>10, <1>11, <1>12, <1>14, <1>15, <1>16

\* A successor that is not allowed, or already has an index, is passed over; if it
\* is on the stack, low_link is lowered to its index.
Lowering(t, W, calls, b, c, u) ==
    /\ u.allowed = t.allowed /\ u.next_index = t.next_index /\ u.index = t.index
    /\ u.stack = t.stack /\ u.components = t.components /\ u.calls = calls
    /\ u.low_link \in [W -> Int]
    /\ \A x \in W : x # b => u.low_link[x] = t.low_link[x]
    /\ u.low_link[b] <= t.low_link[b]
    /\ u.low_link[b] = t.low_link[b] \/ (c \in AsSet(t.stack) /\ u.low_link[b] = t.index[c])
    /\ c \in AsSet(t.stack) => u.low_link[b] <= t.index[c]

LEMMA TarjanFollow ==
    ASSUME NEW t, NEW W, NEW E, TarjanInv(t, W, E), t.calls # <<>>,
           NEW b, b = LastOf(t.calls).block, NEW c, c \in t.allowed => t.index[c] # -1,
           c \in AsSet(LastOf(t.calls).todo),
           NEW calls \in Seq([block : W, todo : Seq(Nat)]), Refines(calls, t, c),
           \A k \in DOMAIN t.calls : k # Len(t.calls) => calls[k] = t.calls[k],
           NEW u, Lowering(t, W, calls, b, c, u)
    PROVE  TarjanInv(u, W, E)
<1> USE DEF TarjanInv, Lowering
<1>1. TarjanTyped(u, W)
  BY DEF TarjanTyped
<1>2. AsSet(t.stack) \subseteq W
  BY DEF TarjanTyped, AsSet
<1>3. \A x \in W : t.index[x] \in Int /\ t.low_link[x] \in Int /\ u.low_link[x] \in Int
  BY DEF TarjanTyped
<1>4. /\ Len(t.calls) \in Nat /\ DOMAIN t.calls = 1..Len(t.calls) /\ DOMAIN calls = DOMAIN t.calls
      /\ Len(t.calls) \in DOMAIN t.calls
  <2>1. t.calls \in Seq([block : W, todo : Seq(Nat)]) /\ Len(calls) = Len(t.calls)
    BY DEF TarjanTyped, Refines
  <2> QED
    BY <2>1, SeqFacts
<1>5. \A k \in DOMAIN t.calls :
         /\ t.calls[k].block \in AsSet(t.stack) /\ calls[k].block = t.calls[k].block
         /\ k # Len(t.calls) => t.index[t.calls[k].block] < t.index[b]
  <2> TAKE k \in DOMAIN t.calls
  <2>1. k # Len(t.calls) => k < Len(t.calls)
    BY <1>4
  <2> QED
    BY <1>4, <2>1 DEF CallsOnStack, Refines, LastOf
<1>6. b \in AsSet(t.stack) /\ b = t.calls[Len(t.calls)].block
  BY <1>4, <1>5 DEF LastOf
<1>7. IndexesRight(u, W) /\ StackSorted(u) /\ StackConnected(u, E)
      /\ ComponentsFound(u.components, u.allowed, E)
  <2>1. \A x : InComponent(u, x) <=> InComponent(t, x)
    BY DEF InComponent
  <2>2. \A x \in AsSet(t.stack) : \E k \in DOMAIN u.calls :
           /\ u.index[u.calls[k].block] <= u.index[x]
           /\ Connected(u.allowed, E, x, u.calls[k].block)
    BY <1>4, <1>5 DEF StackConnected
  <2> QED
    BY <2>1, <2>2 DEF IndexesRight, StackSorted, StackConnected
<1>8. CallsOnStack(u, E)
  BY <1>4, <1>5 DEF CallsOnStack, Refines
<1>9. LowLinksReached(u, E)
  <2> SUFFICES ASSUME NEW x \in AsSet(t.stack)
               PROVE  /\ u.low_link[x] <= u.index[x]
                      /\ \E y \in AsSet(t.stack) :
                            u.low_link[x] = u.index[y] /\ Connected(u.allowed, E, x, y)
    BY DEF LowLinksReached
  <2>1. CASE u.low_link[x] = t.low_link[x]
    BY <2>1 DEF LowLinksReached
  <2>2. CASE u.low_link[x] # t.low_link[x]
    <3>1. x = b /\ c \in AsSet(t.stack) /\ u.low_link[b] = t.index[c]
      BY <1>2, <2>2
    <3>2. c \in t.allowed
      BY <1>2, <3>1 DEF IndexesRight
    <3>3. <<b, c>> \in E
      BY <1>4, <1>6, <3>2 DEF CallsOnStack, LastOf
    <3>4. Connected(t.allowed, E, b, c)
      BY <3>3, ConnectedEdge
    <3>5. t.low_link[b] <= t.index[b]
      BY <1>6 DEF LowLinksReached
    <3>6. u.low_link[b] <= t.index[b]
      BY <1>2, <1>3, <1>6, <3>5
    <3> QED
      BY <3>1, <3>4, <3>6
  <2> QED
    BY <2>1, <2>2
<1>10. ASSUME NEW x, NEW d, Followed(u, E, x, d)
       PROVE  Followed(t, E, x, d) \/ (x = b /\ d = c)
  <2> SUFFICES ASSUME NEW k \in DOMAIN t.calls, t.calls[k].block = x,
                      d \in AsSet(t.calls[k].todo)
               PROVE  x = b /\ d = c
    BY <1>10 DEF Followed
  <2>1. d \notin AsSet(calls[k].todo)
    BY <1>4, <1>5, <1>10 DEF Followed
  <2>2. k = Len(t.calls)
    BY <2>1
  <2> QED
    BY <1>6, <2>1, <2>2 DEF Refines
<1>11. FollowedEntered(u, E)
  BY <1>10 DEF FollowedEntered
<1>12. FollowedCounted(u, E)
  <2> SUFFICES ASSUME NEW k \in DOMAIN u.calls, NEW x \in AsSet(t.stack), NEW d \in AsSet(t.stack),
                      Followed(u, E, x, d), u.index[u.calls[k].block] <= u.index[x],
                      \A l \in DOMAIN u.calls : k < l => u.index[x] < u.index[u.calls[l].block]
               PROVE  u.low_link[u.calls[k].block] <= u.index[d]
    BY DEF FollowedCounted
  <2>1. k \in DOMAIN t.calls /\ u.calls[k].block = t.calls[k].block
    BY <1>4, <1>5
  <2>2. \A l \in DOMAIN t.calls : k < l => t.index[x] < t.index[t.calls[l].block]
    BY <1>4, <1>5
  <2>3. t.index[t.calls[k].block] <= t.index[x]
    BY <2>1
  <2> DEFINE p == t.calls[k].block
  <2>4. p \in W /\ x \in W /\ d \in W /\ b \in W
    BY <1>2, <1>5, <1>6, <2>1
  <2>5. CASE Followed(t, E, x, d)
    <3>1. t.low_link[p] <= t.index[d]
      BY <2>1, <2>2, <2>3, <2>5 DEF FollowedCounted
    <3>2. t.low_link[p] \in Int /\ u.low_link[p] \in Int /\ t.index[d] \in Int
      BY <1>3, <2>4
    <3>3. u.low_link[p] <= t.low_link[p]
      <4>1. CASE p = b
        BY <4>1
      <4>2. CASE p # b
        <5>1. u.low_link[p] = t.low_link[p]
          BY <2>4, <4>2
        <5> QED
          BY <3>2, <5>1
      <4> QED
        BY <4>1, <4>2
    <3>4. u.low_link[p] <= t.index[d]
      BY <3>1, <3>2, <3>3, SMTT(30)
    <3> QED
      BY <2>1, <3>4
  <2>6. CASE x = b /\ d = c
    <3>1. k = Len(t.calls)
      <4>1. k < Len(t.calls) => t.index[b] < t.index[b]
        BY <1>4, <1>6, <2>2, <2>6
      <4> QED
        BY <1>3, <1>4, <2>1, <2>4, <4>1
    <3> QED
      BY <1>6, <2>1, <2>6, <3>1
  <2> QED
    BY <1>10, <2>5, <2>6
<1> QED
  BY <1>1, <1>7, <1>8, <1>9, <1>11, <1>12

\* The activations below the last one.
Caller(t, u) ==
    /\ Len(u.calls) = Len(t.calls) - 1
    /\ \A k \in DOMAIN u.calls : u.calls[k] = t.calls[k]

LEMMA CallerCalls ==
    ASSUME NEW t, NEW W, NEW E, TarjanInv(t, W, E), t.calls # <<>>, LastOf(t.calls).todo = <<>>,
           NEW u, u.calls \in Seq([block : W, todo : Seq(Nat)]), Caller(t, u),
           u.allowed = t.allowed
    PROVE  /\ Len(t.calls) \in DOMAIN t.calls /\ Len(t.calls) \in Nat
           /\ \A k : k \in DOMAIN u.calls <=> k \in DOMAIN t.calls /\ k # Len(t.calls)
           /\ \A k \in DOMAIN t.calls : k # Len(t.calls) => k < Len(t.calls)
           /\ DOMAIN t.calls \subseteq Nat
           /\ LastOf(t.calls).block \in AsSet(t.stack)
           /\ \A k \in DOMAIN u.calls :
                 /\ t.index[t.calls[k].block] < t.index[LastOf(t.calls).block]
                 /\ t.calls[k].block \in AsSet(t.stack)
           /\ \A x, d : Followed(u, E, x, d) => Followed(t, E, x, d)
<1> USE DEF TarjanInv
<1>1. /\ Len(t.calls) \in DOMAIN t.calls /\ Len(t.calls) \in Nat /\ DOMAIN t.calls = 1..Len(t.calls)
  BY SeqFacts DEF TarjanTyped
<1>2. DOMAIN u.calls = 1..(Len(t.calls) - 1)
  BY SeqFacts DEF Caller
<1>3. \A k \in DOMAIN u.calls : k \in DOMAIN t.calls /\ k < Len(t.calls)
  BY <1>1, <1>2
<1>4. \A k : k \in DOMAIN u.calls <=> k \in DOMAIN t.calls /\ k # Len(t.calls)
  BY <1>1, <1>2
<1>5. \A x, d : Followed(u, E, x, d) => Followed(t, E, x, d)
  <2> SUFFICES ASSUME NEW x, NEW d, Followed(u, E, x, d), NEW k \in DOMAIN t.calls,
                      t.calls[k].block = x
               PROVE  d \notin AsSet(t.calls[k].todo)
    BY DEF Followed
  <2>1. CASE k = Len(t.calls)
    BY <2>1 DEF LastOf, AsSet
  <2>2. CASE k \in DOMAIN u.calls
    BY <2>2 DEF Followed, Caller
  <2> QED
    BY <1>4, <2>1, <2>2
<1> QED
  BY <1>1, <1>3, <1>4, <1>5 DEF CallsOnStack, LastOf

\* An activation ends whose block is not the first of its component: the caller's
\* low_link is lowered.
\* The caller has taken the low_link of the block b it called for.
Returning(t, W, b, u) ==
    /\ u.allowed = t.allowed /\ u.next_index = t.next_index /\ u.index = t.index
    /\ u.calls \in Seq([block : W, todo : Seq(Nat)]) /\ Caller(t, u)
    /\ u.calls = <<>> => u.low_link = t.low_link
    /\ u.calls # <<>> =>
          u.low_link = [t.low_link EXCEPT ![LastOf(u.calls).block] = Minimum(@, t.low_link[b])]

LEMMA TarjanKeep ==
    ASSUME NEW t, NEW W, NEW E, TarjanInv(t, W, E), t.calls # <<>>, LastOf(t.calls).todo = <<>>,
           NEW b, b = LastOf(t.calls).block, t.low_link[b] # t.index[b],
           NEW u, Returning(t, W, b, u), u.stack = t.stack, u.components = t.components
    PROVE  u.calls # <<>> /\ TarjanInv(u, W, E)
<1> SUFFICES ASSUME u.allowed = t.allowed, u.next_index = t.next_index, u.index = t.index,
                    u.calls \in Seq([block : W, todo : Seq(Nat)]), Caller(t, u),
                    u.calls # <<>> =>
                       u.low_link = [t.low_link EXCEPT
                                       ![LastOf(u.calls).block] = Minimum(@, t.low_link[b])]
             PROVE  u.calls # <<>> /\ TarjanInv(u, W, E)
  BY DEF Returning
<1>4. /\ b \in AsSet(t.stack)
      /\ Len(t.calls) \in DOMAIN t.calls /\ Len(t.calls) \in Nat /\ DOMAIN t.calls \subseteq Nat
      /\ \A k : k \in DOMAIN u.calls <=> k \in DOMAIN t.calls /\ k # Len(t.calls)
      /\ \A k \in DOMAIN t.calls : k # Len(t.calls) => k < Len(t.calls)
      /\ \A k \in DOMAIN u.calls :
            t.index[t.calls[k].block] < t.index[b] /\ t.calls[k].block \in AsSet(t.stack)
      /\ \A x, d : Followed(u, E, x, d) => Followed(t, E, x, d)
  <2>1. /\ LastOf(t.calls).block \in AsSet(t.stack)
        /\ Len(t.calls) \in DOMAIN t.calls /\ Len(t.calls) \in Nat /\ DOMAIN t.calls \subseteq Nat
        /\ \A k : k \in DOMAIN u.calls <=> k \in DOMAIN t.calls /\ k # Len(t.calls)
        /\ \A k \in DOMAIN t.calls : k # Len(t.calls) => k < Len(t.calls)
    BY CallerCalls
  <2>2. /\ \A k \in DOMAIN u.calls :
             /\ t.index[t.calls[k].block] < t.index[LastOf(t.calls).block]
             /\ t.calls[k].block \in AsSet(t.stack)
        /\ \A x, d : Followed(u, E, x, d) => Followed(t, E, x, d)
    BY CallerCalls
  <2> QED
    BY <2>1, <2>2
<1> USE DEF TarjanInv
<1>2. AsSet(t.stack) \subseteq W
  BY SeqFacts DEF TarjanTyped
<1>3. \A x \in W : t.index[x] \in Int /\ t.low_link[x] \in Int
  BY DEF TarjanTyped
<1>5. \A k \in DOMAIN u.calls : u.calls[k] = t.calls[k]
  BY DEF Caller
<1>6. PICK y \in AsSet(t.stack) : t.low_link[b] = t.index[y] /\ Connected(t.allowed, E, b, y)
  BY <1>4 DEF LowLinksReached
<1>7. t.index[y] < t.index[b]
  <2>1. t.low_link[b] <= t.index[b]
    BY <1>4 DEF LowLinksReached
  <2> QED
    BY <1>2, <1>3, <1>4, <1>6, <2>1
<1>8. PICK g \in DOMAIN u.calls :
         /\ t.index[t.calls[g].block] <= t.index[y]
         /\ Connected(t.allowed, E, y, t.calls[g].block)
  <2>1. PICK k \in DOMAIN t.calls :
           /\ t.index[t.calls[k].block] <= t.index[y]
           /\ Connected(t.allowed, E, y, t.calls[k].block)
    BY DEF StackConnected
  <2>2. k # Len(t.calls)
    <3>1. t.index[b] \in Int /\ t.index[y] \in Int
      BY <1>2, <1>3, <1>4
    <3> QED
      BY <1>7, <2>1, <3>1 DEF LastOf
  <2> QED
    BY <1>4, <2>1, <2>2
<1>9. u.calls # <<>>
  BY <1>8
<1> DEFINE p == LastOf(u.calls).block
<1>10. /\ Len(u.calls) \in DOMAIN u.calls /\ Len(u.calls) = Len(t.calls) - 1
       /\ p = t.calls[Len(u.calls)].block
       /\ p \in AsSet(t.stack) /\ t.index[p] < t.index[b] /\ p \in W /\ b \in W
  <2>1. Len(u.calls) \in DOMAIN u.calls
    BY <1>9, SeqFacts
  <2> QED
    BY <1>2, <1>4, <1>5, <2>1 DEF Caller, LastOf
<1> HIDE DEF p
<1>11. /\ \A x \in W : x # p => u.low_link[x] = t.low_link[x]
       /\ u.low_link[p] = Minimum(t.low_link[p], t.low_link[b])
       /\ u.low_link[p] <= t.low_link[p] /\ u.low_link[p] <= t.low_link[b]
       /\ u.low_link[p] \in {t.low_link[p], t.low_link[b]}
       /\ u.low_link \in [W -> Int]
  <2>1. u.low_link = [t.low_link EXCEPT ![p] = Minimum(t.low_link[p], t.low_link[b])]
    BY <1>9, <1>10 DEF p, TarjanTyped
  <2>2. t.low_link \in [W -> Int] /\ t.low_link[p] \in Int /\ t.low_link[b] \in Int
    BY <1>10 DEF TarjanTyped
  <2> DEFINE m == Minimum(t.low_link[p], t.low_link[b])
  <2>3. m <= t.low_link[p] /\ m <= t.low_link[b] /\ m \in {t.low_link[p], t.low_link[b]} /\ m \in Int
    BY <2>2 DEF Minimum
  <2>5. u.low_link = [t.low_link EXCEPT ![p] = m]
    BY <2>1
  <2> HIDE DEF m
  <2>6. p \in W
    BY <1>10
  <2>4. /\ \A x \in W : x # p => u.low_link[x] = t.low_link[x]
        /\ u.low_link[p] = m /\ u.low_link \in [W -> Int]
    BY <2>2, <2>3, <2>5, <2>6
  <2> QED
    BY <2>3, <2>4 DEF m
<1>12. TarjanTyped(u, W)
  BY <1>11 DEF TarjanTyped
<1>13. IndexesRight(u, W) /\ StackSorted(u) /\ ComponentsFound(u.components, u.allowed, E)
  <2>1. \A x : InComponent(u, x) <=> InComponent(t, x)
    BY DEF InComponent
  <2> QED
    BY <2>1 DEF IndexesRight, StackSorted
<1>14. CallsOnStack(u, E)
  BY <1>4, <1>5 DEF CallsOnStack
<1>15. StackConnected(u, E)
  <2>1. ASSUME NEW x \in AsSet(t.stack)
        PROVE  \E k \in DOMAIN u.calls :
                  /\ t.index[t.calls[k].block] <= t.index[x]
                  /\ Connected(t.allowed, E, x, t.calls[k].block)
    <3>1. PICK k \in DOMAIN t.calls :
             /\ t.index[t.calls[k].block] <= t.index[x]
             /\ Connected(t.allowed, E, x, t.calls[k].block)
      BY DEF StackConnected
    <3>2. CASE k # Len(t.calls)
      BY <1>4, <3>1, <3>2
    <3>3. CASE k = Len(t.calls)
      <4>1. Connected(t.allowed, E, x, b) /\ t.index[b] <= t.index[x]
        BY <3>1, <3>3 DEF LastOf
      <4>2. Connected(t.allowed, E, x, t.calls[g].block)
        BY <1>6, <1>8, <4>1, ConnectedTransitive
      <4>3. t.index[t.calls[g].block] <= t.index[x]
        <5>1. t.calls[g].block \in W /\ x \in W /\ b \in W
          BY <1>2, <1>4
        <5>2. t.index[t.calls[g].block] < t.index[b]
          BY <1>4
        <5> QED
          BY <1>3, <4>1, <5>1, <5>2
      <4> QED
        BY <4>2, <4>3
    <3> QED
      BY <3>2, <3>3
  <2>2. \A i, j \in DOMAIN u.stack : i < j => Connected(u.allowed, E, u.stack[i], u.stack[j])
    BY DEF StackConnected
  <2>3. \A x \in AsSet(u.stack) : \E k \in DOMAIN u.calls :
           /\ u.index[u.calls[k].block] <= u.index[x]
           /\ Connected(u.allowed, E, x, u.calls[k].block)
    BY <1>5, <2>1
  <2> QED
    BY <2>2, <2>3 DEF StackConnected
<1>16. Connected(t.allowed, E, p, b)
  <2>1. PICK i \in DOMAIN t.stack : t.stack[i] = p
    BY <1>10 DEF AsSet
  <2>2. PICK j \in DOMAIN t.stack : t.stack[j] = b
    BY <1>4 DEF AsSet
  <2>3. i < j
    <3>1. DOMAIN t.stack \subseteq Nat
      <4>1. t.stack \in Seq(W)
        BY DEF TarjanTyped
      <4>2. DOMAIN t.stack = 1..Len(t.stack) /\ Len(t.stack) \in Nat
        BY <4>1, SeqFacts
      <4> QED
        BY <4>2
    <3>2. j < i => t.index[b] < t.index[p]
      BY <2>1, <2>2 DEF StackSorted
    <3>3. t.index[b] \in Int /\ t.index[p] \in Int /\ i \in Nat /\ j \in Nat
      BY <1>3, <1>10, <3>1
    <3> QED
      BY <1>10, <2>1, <2>2, <3>2, <3>3, SMTT(30)
  <2> QED
    BY <2>1, <2>2, <2>3 DEF StackConnected
<1>17. LowLinksReached(u, E)
  <2> SUFFICES ASSUME NEW x \in AsSet(t.stack)
               PROVE  /\ u.low_link[x] <= t.index[x]
                      /\ \E z \in AsSet(t.stack) :
                            u.low_link[x] = t.index[z] /\ Connected(t.allowed, E, x, z)
    BY DEF LowLinksReached
  <2>1. CASE u.low_link[x] = t.low_link[x]
    BY <2>1 DEF LowLinksReached
  <2>2. CASE u.low_link[x] # t.low_link[x]
    <3>1. x = p /\ u.low_link[x] = t.index[y]
      BY <1>2, <1>6, <1>11, <2>2
    <3>2. Connected(t.allowed, E, x, y)
      BY <1>6, <1>16, <3>1, ConnectedTransitive
    <3>3. t.low_link[p] <= t.index[p]
      BY <1>10 DEF LowLinksReached
    <3>4. u.low_link[p] <= t.index[p]
      <4>1. u.low_link[p] \in Int /\ t.low_link[p] \in Int /\ t.index[p] \in Int
        BY <1>3, <1>10, <1>11
      <4> QED
        BY <1>11, <3>3, <4>1
    <3> QED
      BY <3>1, <3>2, <3>4
  <2> QED
    BY <2>1, <2>2
<1>18. FollowedEntered(u, E)
  BY <1>4 DEF FollowedEntered
<1>19. FollowedCounted(u, E)
  <2> SUFFICES ASSUME NEW k \in DOMAIN u.calls, NEW x \in AsSet(t.stack), NEW d \in AsSet(t.stack),
                      Followed(u, E, x, d), u.index[u.calls[k].block] <= u.index[x],
                      \A l \in DOMAIN u.calls : k < l => u.index[x] < u.index[u.calls[l].block]
               PROVE  u.low_link[u.calls[k].block] <= u.index[d]
    BY DEF FollowedCounted
  <2>1. Followed(t, E, x, d)
    BY <1>4
  <2> DEFINE q == t.calls[k].block
  <2>2. q = u.calls[k].block /\ q \in W /\ x \in W /\ d \in W
    BY <1>2, <1>4, <1>5
  <2>3. t.index[q] <= t.index[x]
    BY <2>2
  <2>4. \A l \in DOMAIN t.calls : k < l => l = Len(t.calls) \/ t.index[x] < t.index[t.calls[l].block]
    BY <1>4, <1>5
  <2>5. /\ t.low_link[q] \in Int /\ u.low_link[q] \in Int /\ t.index[d] \in Int
        /\ t.low_link[b] \in Int /\ t.index[x] \in Int /\ t.index[b] \in Int
    BY <1>3, <1>10, <1>11, <2>2
  <2>9. t.index[p] \in Int /\ t.index[p] < t.index[b] /\ u.low_link[p] <= t.low_link[b]
    BY <1>3, <1>10, <1>11
  <2> HIDE DEF q
  <2>6. u.low_link[q] <= t.low_link[q]
    <3>1. CASE q = p
      BY <1>11, <3>1
    <3>2. CASE q # p
      <4>1. u.low_link[q] = t.low_link[q]
        BY <1>11, <2>2, <3>2
      <4> QED
        BY <2>5, <4>1
    <3> QED
      BY <3>1, <3>2
  <2>7. CASE t.index[x] < t.index[b]
    <3>1. \A l \in DOMAIN t.calls : k < l => t.index[x] < t.index[t.calls[l].block]
      BY <2>4, <2>7 DEF LastOf
    <3>2. t.low_link[q] <= t.index[d]
      BY <1>4, <2>1, <2>3, <3>1 DEF FollowedCounted, q
    <3>3. u.low_link[q] <= t.index[d]
      BY <2>5, <2>6, <3>2, SMTT(30)
    <3> QED
      BY <2>2, <3>3
  <2>8. CASE t.index[b] <= t.index[x]
    <3>1. t.low_link[b] <= t.index[d]
      <4>1. \A l \in DOMAIN t.calls : ~ (Len(t.calls) < l)
        BY SeqFacts DEF TarjanTyped
      <4> QED
        BY <1>4, <2>1, <2>8, <4>1 DEF FollowedCounted, LastOf
    <3>2. k = Len(u.calls)
      <4>1. k < Len(u.calls) => t.index[x] < t.index[p]
        BY <1>5, <1>10
      <4>2. k \in 1..Len(u.calls) /\ Len(u.calls) \in Nat
        BY SeqFacts
      <4>3. ~ (k < Len(u.calls))
        BY <2>5, <2>8, <2>9, <4>1, SMTT(30)
      <4> QED
        BY <4>2, <4>3
    <3>3. q = p
      BY <1>10, <3>2 DEF q
    <3>4. u.low_link[q] <= t.index[d]
      BY <2>5, <2>9, <3>1, <3>3, SMTT(30)
    <3> QED
      BY <2>2, <3>4
  <2> QED
    BY <2>5, <2>7, <2>8, SMTT(30)
<1> QED
  BY <1>9, <1>12, <1>13, <1>14, <1>15, <1>17, <1>18, <1>19

\* A sequence cut at a position: what is before it, and the rest reversed.
IsCut(s, at, pre, new) ==
    /\ \A i : i \in DOMAIN pre <=> i \in DOMAIN s /\ i < at
    /\ \A i \in DOMAIN pre : pre[i] = s[i]
    /\ \A p \in DOMAIN new : \E i \in DOMAIN s : at <= i /\ new[p] = s[i]
    /\ \A i \in DOMAIN s : at <= i => \E p \in DOMAIN new : new[p] = s[i]
    /\ \A p, q \in DOMAIN new : p # q =>
          \E i, j \in DOMAIN s : i # j /\ new[p] = s[i] /\ new[q] = s[j]

Below(s, at) == SubSeq(s, 1, at - 1)
Above(s, at) == [i \in 1..(Len(s) - at + 1) |-> s[Len(s) + 1 - i]]

LEMMA Cut ==
    ASSUME NEW S, NEW s \in Seq(S), NEW at \in DOMAIN s,
           NEW pre, pre = Below(s, at), NEW new, new = Above(s, at)
    PROVE  pre \in Seq(S) /\ new \in Seq(S) /\ new # <<>> /\ IsCut(s, at, pre, new)
<1> DEFINE n == Len(s)
<1>1. n \in Nat /\ DOMAIN s = 1..n /\ at \in 1..n /\ \A i \in 1..n : s[i] \in S
  BY SeqFacts
<1> HIDE DEF n
<1>2. \A i \in 1..(at - 1) : i \in 1..n /\ s[i] \in S
  BY <1>1
<1>3. /\ pre \in Seq(S)
      /\ Len(pre) = IF 1 <= at - 1 THEN at - 1 - 1 + 1 ELSE 0
      /\ \A i \in 1..(at - 1 - 1 + 1) : pre[i] = s[1 + i - 1]
  BY <1>1, <1>2, SubSeqProperties DEF Below
<1>4. Len(pre) = at - 1 /\ DOMAIN pre = 1..(at - 1)
  BY <1>1, <1>3
<1>5. \A i : i \in 1..(at - 1) <=> i \in 1..n /\ i < at
  BY <1>1
<1>6. \A i \in 1..(at - 1) : i \in 1..(at - 1 - 1 + 1) /\ 1 + i - 1 = i
  BY <1>1
<1>7. new = [i \in 1..(n - at + 1) |-> s[n + 1 - i]]
  BY DEF n, Above
<1>8. \A p \in 1..(n - at + 1) : n + 1 - p \in 1..n /\ at <= n + 1 - p
  BY <1>1
<1>9. n - at + 1 \in Nat /\ 1 \in 1..(n - at + 1)
  BY <1>1
<1>10. new \in [1..(n - at + 1) -> S]
  BY <1>1, <1>7, <1>8
<1>11. new \in Seq(S) /\ DOMAIN new = 1..(n - at + 1)
  <2> DEFINE k == n - at + 1
  <2>1. k \in Nat /\ new \in [1..k -> S]
    BY <1>9, <1>10
  <2> HIDE DEF k
  <2>2. new \in Seq(S)
    BY <2>1, SeqDef
  <2> QED
    BY <1>10, <2>2
<1>12. new # <<>>
  BY <1>9, <1>11
<1>13. \A i \in 1..n : at <= i => n + 1 - i \in 1..(n - at + 1) /\ n + 1 - (n + 1 - i) = i
  BY <1>1
<1>14. \A p, q \in 1..(n - at + 1) : p # q => n + 1 - p # n + 1 - q
  BY <1>1
<1>15. \A i \in 1..n : at <= i => \E p \in DOMAIN new : new[p] = s[i]
  BY <1>7, <1>11, <1>13
<1>16. \A p, q \in DOMAIN new : p # q =>
          \E i, j \in DOMAIN s : i # j /\ new[p] = s[i] /\ new[q] = s[j]
  <2> SUFFICES ASSUME NEW p \in DOMAIN new, NEW q \in DOMAIN new, p # q
               PROVE  \E i, j \in DOMAIN s : i # j /\ new[p] = s[i] /\ new[q] = s[j]
    OBVIOUS
  <2>1. new[p] = s[n + 1 - p] /\ new[q] = s[n + 1 - q]
    BY <1>7, <1>11
  <2>2. n + 1 - p \in DOMAIN s /\ n + 1 - q \in DOMAIN s /\ n + 1 - p # n + 1 - q
    BY <1>1, <1>8, <1>11, <1>14
  <2> QED
    BY <2>1, <2>2, Zenon
<1>17. \A p \in DOMAIN new : \E i \in DOMAIN s : at <= i /\ new[p] = s[i]
  BY <1>1, <1>7, <1>8, <1>11
<1>18. \A i \in DOMAIN pre : pre[i] = s[i]
  BY <1>3, <1>4, <1>6
<1>19. \A i : i \in DOMAIN pre <=> i \in DOMAIN s /\ i < at
  BY <1>1, <1>4, <1>5
<1>20. \A i \in DOMAIN s : at <= i => \E p \in DOMAIN new : new[p] = s[i]
  BY <1>1, <1>15
<1> QED
  BY <1>3, <1>11, <1>12, <1>16, <1>17, <1>18, <1>19, <1>20 DEF IsCut

\* An activation ends whose block is the first of its component: the component
\* comes off the stack.
LEMMA TarjanPop ==
    ASSUME NEW t, NEW W, NEW E, TarjanInv(t, W, E), t.calls # <<>>, LastOf(t.calls).todo = <<>>,
           NEW b, b = LastOf(t.calls).block, t.low_link[b] = t.index[b],
           NEW at \in DOMAIN t.stack, t.stack[at] = b,
           NEW u, Returning(t, W, b, u), u.stack = Below(t.stack, at),
           u.components = Append(t.components, Above(t.stack, at))
    PROVE  TarjanInv(u, W, E)
<1> SUFFICES ASSUME u.allowed = t.allowed, u.next_index = t.next_index, u.index = t.index,
                    u.calls \in Seq([block : W, todo : Seq(Nat)]), Caller(t, u),
                    u.calls = <<>> => u.low_link = t.low_link,
                    u.calls # <<>> =>
                       u.low_link = [t.low_link EXCEPT
                                       ![LastOf(u.calls).block] = Minimum(@, t.low_link[b])]
             PROVE  TarjanInv(u, W, E)
  BY DEF Returning
<1>4. /\ b \in AsSet(t.stack)
      /\ Len(t.calls) \in DOMAIN t.calls /\ Len(t.calls) \in Nat /\ DOMAIN t.calls \subseteq Nat
      /\ \A k : k \in DOMAIN u.calls <=> k \in DOMAIN t.calls /\ k # Len(t.calls)
      /\ \A k \in DOMAIN t.calls : k # Len(t.calls) => k < Len(t.calls)
      /\ \A k \in DOMAIN u.calls :
            t.index[t.calls[k].block] < t.index[b] /\ t.calls[k].block \in AsSet(t.stack)
      /\ \A x, d : Followed(u, E, x, d) => Followed(t, E, x, d)
  <2>1. /\ LastOf(t.calls).block \in AsSet(t.stack)
        /\ Len(t.calls) \in DOMAIN t.calls /\ Len(t.calls) \in Nat /\ DOMAIN t.calls \subseteq Nat
        /\ \A k : k \in DOMAIN u.calls <=> k \in DOMAIN t.calls /\ k # Len(t.calls)
        /\ \A k \in DOMAIN t.calls : k # Len(t.calls) => k < Len(t.calls)
    BY CallerCalls
  <2>2. /\ \A k \in DOMAIN u.calls :
             /\ t.index[t.calls[k].block] < t.index[LastOf(t.calls).block]
             /\ t.calls[k].block \in AsSet(t.stack)
        /\ \A x, d : Followed(u, E, x, d) => Followed(t, E, x, d)
    BY CallerCalls
  <2> QED
    BY <2>1, <2>2
<1> USE DEF TarjanInv
<1>1. t.stack \in Seq(W) /\ t.components \in Seq(Seq(W)) /\ t.low_link \in [W -> Int]
  BY DEF TarjanTyped
<1>2. AsSet(t.stack) \subseteq W /\ b \in W
  BY <1>1, <1>4, SeqFacts
<1>3. \A x \in W : t.index[x] \in Int /\ t.low_link[x] \in Int
  BY DEF TarjanTyped
<1>5. \A k \in DOMAIN u.calls : u.calls[k] = t.calls[k]
  BY DEF Caller
<1>6. u.low_link = t.low_link
  <2> SUFFICES ASSUME u.calls # <<>> PROVE u.low_link = t.low_link
    OBVIOUS
  <2> DEFINE p == LastOf(u.calls).block
  <2>1. p \in AsSet(t.stack) /\ t.index[p] < t.index[b]
    <3>1. Len(u.calls) \in DOMAIN u.calls
      BY SeqFacts
    <3> QED
      BY <1>4, <1>5, <3>1 DEF LastOf
  <2>2. t.low_link[p] <= t.index[p]
    BY <2>1 DEF LowLinksReached
  <2>3. Minimum(t.low_link[p], t.low_link[b]) = t.low_link[p]
    <3>1. t.low_link[p] \in Int /\ t.index[p] \in Int /\ t.index[b] \in Int
      BY <1>2, <1>3, <2>1
    <3> QED
      BY <2>1, <2>2, <3>1 DEF Minimum
  <2> QED
    BY <1>1, <2>3
<1> DEFINE new == Above(t.stack, at)
           m == Len(t.components) + 1
<1>7. DOMAIN t.stack \subseteq Nat /\ \A i \in DOMAIN t.stack : t.stack[i] \in W
  <2>1. DOMAIN t.stack = 1..Len(t.stack) /\ \A i \in DOMAIN t.stack : t.stack[i] \in W
    BY <1>1, SeqFacts
  <2> QED
    BY <2>1
<1>8. /\ u.stack \in Seq(W)
      /\ \A i : i \in DOMAIN u.stack <=> i \in DOMAIN t.stack /\ i < at
      /\ \A i \in DOMAIN u.stack : u.stack[i] = t.stack[i]
      /\ new \in Seq(W) /\ new # <<>>
      /\ \A p \in DOMAIN new : \E i \in DOMAIN t.stack : at <= i /\ new[p] = t.stack[i]
      /\ \A i \in DOMAIN t.stack : at <= i => \E p \in DOMAIN new : new[p] = t.stack[i]
      /\ \A p, q \in DOMAIN new : p # q =>
            \E i, j \in DOMAIN t.stack : i # j /\ new[p] = t.stack[i] /\ new[q] = t.stack[j]
  <2> DEFINE s == t.stack
             pre == u.stack
  <2>1. s \in Seq(W) /\ at \in DOMAIN s /\ pre = Below(s, at)
    BY <1>1
  <2>2. new = Above(s, at)
    OBVIOUS
  <2> HIDE DEF s, pre, new
  <2>3. pre \in Seq(W) /\ new \in Seq(W) /\ new # <<>> /\ IsCut(s, at, pre, new)
    BY <2>1, <2>2, Cut
  <2> QED
    BY <2>3 DEF s, pre, IsCut
<1> HIDE DEF new
<1>9. new # <<>> /\ new \in Seq(W)
  BY <1>8
<1>10. /\ u.components \in Seq(Seq(W))
       /\ \A i : i \in DOMAIN u.components <=> i \in DOMAIN t.components \/ i = m
       /\ \A i \in DOMAIN t.components : i < m /\ i # m /\ u.components[i] = t.components[i]
       /\ u.components[m] = new /\ m \in Nat
  <2>1. u.components = Append(t.components, new)
    BY DEF new
  <2> DEFINE cs == t.components
             ds == u.components
  <2>0. cs \in Seq(Seq(W)) /\ new \in Seq(W) /\ ds = Append(cs, new)
    BY <1>1, <1>9, <2>1
  <2>a. Len(cs) \in Nat /\ DOMAIN cs = 1..Len(cs)
    BY <2>0, SeqFacts
  <2> HIDE DEF cs, ds
  <2>b. /\ ds \in Seq(Seq(W)) /\ DOMAIN ds = 1..(Len(cs) + 1)
        /\ \A i \in DOMAIN cs : ds[i] = cs[i]
        /\ ds[Len(cs) + 1] = new
    BY <2>0, <2>a
  <2>2. /\ DOMAIN t.components = 1..Len(t.components) /\ Len(t.components) \in Nat
        /\ DOMAIN u.components = 1..(Len(t.components) + 1)
        /\ \A i \in DOMAIN t.components : u.components[i] = t.components[i]
        /\ u.components[Len(t.components) + 1] = new
    BY <2>a, <2>b DEF cs, ds
  <2>3. u.components \in Seq(Seq(W))
    BY <2>b DEF ds
  <2>4. \A i : i \in 1..(Len(t.components) + 1) <=> i \in 1..Len(t.components) \/ i = m
    BY <2>2
  <2>5. \A i \in 1..Len(t.components) : i < m /\ i # m
    BY <2>2
  <2> QED
    BY <2>2, <2>3, <2>4, <2>5
<1> HIDE DEF m
\* above b are the blocks with a larger index
<1>11. \A x \in AsSet(t.stack) : x \in AsSet(u.stack) <=> t.index[x] < t.index[b]
  <2> SUFFICES ASSUME NEW i \in DOMAIN t.stack
               PROVE  t.stack[i] \in AsSet(u.stack) <=> t.index[t.stack[i]] < t.index[b]
    BY DEF AsSet
  <2>0. t.index[t.stack[i]] \in Int /\ t.index[b] \in Int
    BY <1>2, <1>3, <1>7
  <2>1. CASE i < at
    BY <1>8, <2>1 DEF AsSet, StackSorted
  <2>2. CASE at <= i
    <3>1. ~ (t.index[t.stack[i]] < t.index[b])
      <4>1. at = i \/ at < i
        BY <1>7, <2>2
      <4> QED
        BY <2>0, <4>1 DEF StackSorted
    <3>2. ASSUME NEW j \in DOMAIN u.stack PROVE u.stack[j] # t.stack[i]
      <4>1. j \in DOMAIN t.stack /\ u.stack[j] = t.stack[j] /\ j < at
        BY <1>8
      <4>2. j < i
        BY <1>7, <2>2, <4>1
      <4>3. t.index[t.stack[j]] < t.index[t.stack[i]]
        BY <4>1, <4>2 DEF StackSorted
      <4> QED
        BY <2>0, <4>1, <4>3
    <3> QED
      BY <3>1, <3>2 DEF AsSet
  <2> QED
    BY <1>7, <2>1, <2>2
<1>12. AsSet(u.stack) \subseteq AsSet(t.stack)
  BY <1>8 DEF AsSet
<1>13. \A x : x \in AsSet(new) <=> x \in AsSet(t.stack) /\ x \notin AsSet(u.stack)
  <2>1. ASSUME NEW x \in AsSet(new) PROVE x \in AsSet(t.stack) /\ x \notin AsSet(u.stack)
    <3>1. PICK i \in DOMAIN t.stack : at <= i /\ x = t.stack[i]
      BY <1>8, <2>1 DEF AsSet
    <3>2. at = i \/ at < i
      BY <1>7, <3>1
    <3>3. t.index[x] = t.index[b] \/ t.index[b] < t.index[x]
      BY <3>1, <3>2 DEF StackSorted
    <3>4. x \in AsSet(t.stack) /\ t.index[x] \in Int /\ t.index[b] \in Int
      BY <1>2, <1>3, <3>1 DEF AsSet
    <3>5. ~ (t.index[x] < t.index[b])
      BY <3>3, <3>4
    <3> QED
      BY <1>11, <3>4, <3>5
  <2>2. ASSUME NEW x \in AsSet(t.stack), x \notin AsSet(u.stack) PROVE x \in AsSet(new)
    <3>1. PICK i \in DOMAIN t.stack : x = t.stack[i]
      BY DEF AsSet
    <3>2. ~ (i < at)
      BY <1>8, <2>2, <3>1 DEF AsSet
    <3>3. at <= i
      BY <1>7, <3>2
    <3> QED
      BY <1>8, <3>1, <3>3 DEF AsSet
  <2> QED
    BY <1>12, <2>1, <2>2
<1>14. \A x : InComponent(u, x) <=> InComponent(t, x) \/ x \in AsSet(new)
  BY <1>10 DEF InComponent
<1>15. TarjanTyped(u, W)
  BY <1>6, <1>8, <1>10 DEF TarjanTyped
<1>16. IndexesRight(u, W)
  BY <1>12, <1>13, <1>14 DEF IndexesRight
<1>17. StackSorted(u)
  BY <1>8 DEF StackSorted
<1>18. \A k \in DOMAIN u.calls : t.calls[k].block \in AsSet(u.stack)
  BY <1>4, <1>11
<1>19. CallsOnStack(u, E)
  BY <1>4, <1>5, <1>18 DEF CallsOnStack
<1>20. ASSUME NEW x \in AsSet(t.stack)
       PROVE  /\ Connected(t.allowed, E, x, b)
              /\ x \in AsSet(u.stack) \/ Connected(t.allowed, E, b, x)
              /\ x \in AsSet(u.stack) => \E k \in DOMAIN u.calls :
                    /\ t.index[t.calls[k].block] <= t.index[x]
                    /\ Connected(t.allowed, E, x, t.calls[k].block)
  <2>1. PICK k \in DOMAIN t.calls :
           t.index[t.calls[k].block] <= t.index[x] /\ Connected(t.allowed, E, x, t.calls[k].block)
    BY DEF StackConnected
  <2> DEFINE g == t.calls[k].block
  <2>2. Connected(t.allowed, E, g, b)
    <3>1. CASE k = Len(t.calls)
      BY <3>1, ConnectedSelf DEF LastOf
    <3>2. CASE k # Len(t.calls)
      <4>1. k \in DOMAIN u.calls
        BY <1>4, <3>2
      <4>2. g \in AsSet(u.stack)
        BY <1>4, <1>11, <4>1
      <4>3. PICK j \in DOMAIN u.stack : u.stack[j] = g
        BY <4>2 DEF AsSet
      <4>4. j \in DOMAIN t.stack /\ t.stack[j] = g /\ j < at
        BY <1>8, <4>3
      <4> QED
        BY <4>4 DEF StackConnected
    <3> QED
      BY <3>1, <3>2
  <2>3. x \in AsSet(u.stack) \/ Connected(t.allowed, E, b, x)
    <3>1. PICK i \in DOMAIN t.stack : t.stack[i] = x
      BY DEF AsSet
    <3>2. CASE i < at
      BY <1>8, <3>1, <3>2 DEF AsSet
    <3>3. CASE i = at
      BY <3>1, <3>3, ConnectedSelf
    <3>4. CASE at < i
      BY <3>1, <3>4 DEF StackConnected
    <3> QED
      BY <1>7, <3>2, <3>3, <3>4
  <2>4. ASSUME x \in AsSet(u.stack) PROVE k \in DOMAIN u.calls
    <3>1. t.index[x] < t.index[b] /\ t.index[x] \in Int /\ t.index[b] \in Int
      BY <1>2, <1>3, <1>11, <2>4
    <3>2. k # Len(t.calls)
      BY <2>1, <3>1 DEF LastOf
    <3> QED
      BY <1>4, <3>2
  <2> QED
    BY <2>1, <2>2, <2>3, <2>4, ConnectedTransitive
<1>21. StackConnected(u, E)
  <2>1. \A i, j \in DOMAIN u.stack : i < j => Connected(u.allowed, E, u.stack[i], u.stack[j])
    BY <1>8 DEF StackConnected
  <2>2. \A x \in AsSet(u.stack) : \E k \in DOMAIN u.calls :
           /\ u.index[u.calls[k].block] <= u.index[x]
           /\ Connected(u.allowed, E, x, u.calls[k].block)
    BY <1>5, <1>12, <1>20
  <2> QED
    BY <2>1, <2>2 DEF StackConnected
<1>22. LowLinksReached(u, E)
  <2> SUFFICES ASSUME NEW x \in AsSet(u.stack)
               PROVE  /\ t.low_link[x] <= t.index[x]
                      /\ \E y \in AsSet(u.stack) :
                            t.low_link[x] = t.index[y] /\ Connected(t.allowed, E, x, y)
    BY <1>6 DEF LowLinksReached
  <2>1. t.low_link[x] <= t.index[x]
    BY <1>12 DEF LowLinksReached
  <2>2. PICK y \in AsSet(t.stack) : t.low_link[x] = t.index[y] /\ Connected(t.allowed, E, x, y)
    BY <1>12 DEF LowLinksReached
  <2>3. t.index[y] < t.index[b]
    <3>1. t.index[x] < t.index[b]
      BY <1>11, <1>12
    <3>2. t.index[x] \in Int /\ t.index[y] \in Int /\ t.index[b] \in Int
      BY <1>2, <1>3, <1>12
    <3> QED
      BY <2>1, <2>2, <3>1, <3>2
  <2> QED
    BY <1>11, <2>1, <2>2, <2>3
<1>23. FollowedEntered(u, E)
  BY <1>4, <1>12 DEF FollowedEntered
<1>24. FollowedCounted(u, E)
  <2> SUFFICES ASSUME NEW k \in DOMAIN u.calls, NEW x \in AsSet(u.stack), NEW d \in AsSet(u.stack),
                      Followed(u, E, x, d), u.index[u.calls[k].block] <= u.index[x],
                      \A l \in DOMAIN u.calls : k < l => u.index[x] < u.index[u.calls[l].block]
               PROVE  u.low_link[u.calls[k].block] <= u.index[d]
    BY DEF FollowedCounted
  <2>1. Followed(t, E, x, d) /\ k \in DOMAIN t.calls /\ u.calls[k] = t.calls[k]
    BY <1>4, <1>5
  <2>2. \A l \in DOMAIN t.calls : k < l => t.index[x] < t.index[t.calls[l].block]
    <3> SUFFICES ASSUME NEW l \in DOMAIN t.calls, k < l
                 PROVE  t.index[x] < t.index[t.calls[l].block]
      OBVIOUS
    <3>1. CASE l = Len(t.calls)
      BY <1>11, <1>12, <3>1 DEF LastOf
    <3>2. CASE l # Len(t.calls)
      BY <1>4, <1>5, <3>2
    <3> QED
      BY <3>1, <3>2
  <2> QED
    BY <1>6, <1>12, <2>1, <2>2 DEF FollowedCounted
<1>25. ComponentsFound(u.components, t.allowed, E)
  <2> DEFINE cs == t.components
  <2>1. \A x \in AsSet(new), y \in AsSet(new) : Connected(t.allowed, E, x, y)
    BY <1>13, <1>20, ConnectedTransitive
  <2>2. \A p, q \in DOMAIN new :
           (p # q => new[p] # new[q]) /\ Connected(t.allowed, E, new[p], new[q])
    <3> SUFFICES ASSUME NEW p \in DOMAIN new, NEW q \in DOMAIN new
                 PROVE  (p # q => new[p] # new[q]) /\ Connected(t.allowed, E, new[p], new[q])
      OBVIOUS
    <3>1. new[p] \in AsSet(new) /\ new[q] \in AsSet(new)
      BY DEF AsSet
    <3>2. ASSUME p # q PROVE new[p] # new[q]
      <4>1. PICK i \in DOMAIN t.stack, j \in DOMAIN t.stack :
               i # j /\ new[p] = t.stack[i] /\ new[q] = t.stack[j]
        BY <1>8, <3>2
      <4>2. i < j \/ j < i
        BY <1>7, <4>1
      <4>3. t.index[new[p]] < t.index[new[q]] \/ t.index[new[q]] < t.index[new[p]]
        BY <4>1, <4>2 DEF StackSorted
      <4>4. t.index[new[p]] \in Int /\ t.index[new[q]] \in Int
        BY <1>3, <1>7, <4>1
      <4> QED
        BY <4>3, <4>4
    <3> QED
      BY <2>1, <3>1, <3>2
  <2>3. ASSUME NEW x \in AsSet(new), NEW c \in t.allowed, <<x, c>> \in E
        PROVE  InComponent(t, c) \/ c \in AsSet(new)
    <3>1. x \in AsSet(t.stack) /\ t.index[b] <= t.index[x]
      <4>1. x \in AsSet(t.stack) /\ ~ (t.index[x] < t.index[b])
        BY <1>11, <1>13
      <4> QED
        BY <1>2, <1>3, <4>1
    <3>2. Followed(t, E, x, c)
      <4> SUFFICES ASSUME NEW k \in DOMAIN t.calls, t.calls[k].block = x
                   PROVE  c \notin AsSet(t.calls[k].todo)
        BY <2>3 DEF Followed
      <4>1. k = Len(t.calls)
        <5>1. k # Len(t.calls) => t.index[x] < t.index[b]
          BY <1>4
        <5> QED
          BY <1>2, <1>3, <3>1, <5>1
      <4> QED
        BY <4>1 DEF LastOf, AsSet
    <3>3. t.index[c] # -1 /\ c \in W
      BY <3>1, <3>2 DEF FollowedEntered, TarjanTyped
    <3>4. ASSUME c \in AsSet(t.stack) PROVE c \in AsSet(new)
      <4>1. \A l \in DOMAIN t.calls : ~ (Len(t.calls) < l)
        BY SeqFacts DEF TarjanTyped
      <4>2. t.low_link[b] <= t.index[c]
        BY <1>4, <3>1, <3>2, <3>4, <4>1 DEF FollowedCounted, LastOf
      <4>3. ~ (t.index[c] < t.index[b])
        BY <1>2, <1>3, <3>3, <4>2
      <4> QED
        BY <1>11, <1>13, <3>4, <4>3
    <3> QED
      BY <3>3, <3>4 DEF IndexesRight
  <2>4. ASSUME NEW i \in DOMAIN cs PROVE AsSet(cs[i]) \cap AsSet(new) = {}
    <3> SUFFICES ASSUME NEW x \in AsSet(cs[i]), x \in AsSet(new) PROVE FALSE
      OBVIOUS
    <3>1. InComponent(t, x) /\ x \in AsSet(t.stack) /\ x \in W
      BY <1>2, <1>13 DEF InComponent
    <3> QED
      BY <3>1 DEF IndexesRight
  <2>5. ASSUME NEW i \in DOMAIN cs
        PROVE  /\ cs[i] # <<>>
               /\ \A p, q \in DOMAIN cs[i] :
                     (p # q => cs[i][p] # cs[i][q]) /\ Connected(t.allowed, E, cs[i][p], cs[i][q])
               /\ \A x \in AsSet(cs[i]), c \in t.allowed :
                     <<x, c>> \in E => \E j \in DOMAIN cs : j <= i /\ c \in AsSet(cs[j])
    BY DEF ComponentsFound
  <2>6. \A i, j \in DOMAIN cs : i # j => AsSet(cs[i]) \cap AsSet(cs[j]) = {}
    BY DEF ComponentsFound
  <2> DEFINE ds == u.components
  <2>7. ASSUME NEW i \in DOMAIN ds
        PROVE  /\ ds[i] # <<>>
               /\ \A p, q \in DOMAIN ds[i] :
                     (p # q => ds[i][p] # ds[i][q]) /\ Connected(t.allowed, E, ds[i][p], ds[i][q])
               /\ \A x \in AsSet(ds[i]), c \in t.allowed :
                     <<x, c>> \in E => \E j \in DOMAIN ds : j <= i /\ c \in AsSet(ds[j])
    <3>1. CASE i \in DOMAIN cs
      <4>1. ds[i] = cs[i]
        BY <1>10, <3>1
      <4>2. \A j \in DOMAIN cs : j \in DOMAIN ds /\ ds[j] = cs[j]
        BY <1>10
      <4> HIDE DEF cs, ds
      <4> QED
        BY <2>5, <3>1, <4>1, <4>2
    <3>2. CASE i = m
      <4>0. m <= m
        <5>1. m \in Nat
          BY <1>10
        <5> QED
          BY <5>1
      <4>1. ds[m] = new /\ m \in DOMAIN ds
        BY <1>10
      <4>2. \A j \in DOMAIN cs : j \in DOMAIN ds /\ ds[j] = cs[j] /\ j <= m
        <5>1. \A j \in DOMAIN cs : j < m /\ j \in Nat
          BY <1>1, <1>10, SeqFacts
        <5> QED
          BY <1>10, <5>1
      <4>3. ASSUME NEW x \in AsSet(new), NEW c \in t.allowed, <<x, c>> \in E
            PROVE  \E j \in DOMAIN ds : j <= m /\ c \in AsSet(ds[j])
        <5>1. CASE c \in AsSet(new)
          BY <4>0, <4>1, <5>1
        <5>2. CASE InComponent(t, c)
          BY <4>2, <5>2 DEF InComponent
        <5> QED
          BY <2>3, <4>3, <5>1, <5>2
      <4> HIDE DEF cs, ds
      <4> QED
        BY <1>9, <2>2, <3>2, <4>1, <4>3
    <3> QED
      BY <1>10, <3>1, <3>2
  <2>8. \A i, j \in DOMAIN ds : i # j => AsSet(ds[i]) \cap AsSet(ds[j]) = {}
    <3> SUFFICES ASSUME NEW i \in DOMAIN ds, NEW j \in DOMAIN ds, i # j
                 PROVE  AsSet(ds[i]) \cap AsSet(ds[j]) = {}
      OBVIOUS
    <3>1. CASE i \in DOMAIN cs /\ j \in DOMAIN cs
      BY <1>10, <2>6, <3>1
    <3>2. CASE i \in DOMAIN cs /\ j = m
      BY <1>10, <2>4, <3>2
    <3>3. CASE i = m /\ j \in DOMAIN cs
      BY <1>10, <2>4, <3>3
    <3> QED
      BY <1>10, <3>1, <3>2, <3>3
  <2> QED
    BY <2>7, <2>8 DEF ComponentsFound
<1> QED
  BY <1>15, <1>16, <1>17, <1>19, <1>21, <1>22, <1>23, <1>24, <1>25

-----------------------------------------------------------------------------
(* Tarjan's algorithm: the actions of the model *)

\* The edges between the blocks of A.
EdgesIn(A) == {e \in A \X A : e[2] \in AsSet(prog.succ[e[1]])}

\* t has the fields of Tarjan's state.
IsTarjan(t) ==
    t = [allowed |-> t.allowed, next_index |-> t.next_index, index |-> t.index,
         low_link |-> t.low_link, stack |-> t.stack, components |-> t.components,
         calls |-> t.calls]

TarjanRight == IsTarjan(tarjan) /\ TarjanInv(tarjan, Blocks, EdgesIn(tarjan.allowed))

LEMMA TarjanStarts ==
    ASSUME succ \in Seq(Seq(Nat)), NEW A \in SUBSET Blocks,
           NEW t, t = strongly_connected_components(A)
    PROVE  IsTarjan(t) /\ t.allowed = A /\ TarjanInv(t, Blocks, EdgesIn(A))
<1>1. /\ t.allowed = A /\ t.next_index = 0 /\ t.index = [b \in Blocks |-> -1]
      /\ t.low_link = [b \in Blocks |-> -1] /\ t.stack = <<>> /\ t.components = <<>>
      /\ t.calls = <<>>
  BY DEF strongly_connected_components
<1>2. DOMAIN t.stack = {} /\ DOMAIN t.components = {} /\ DOMAIN t.calls = {}
  BY <1>1
<1>3. AsSet(t.stack) = {} /\ \A b : ~ InComponent(t, b)
  BY <1>2 DEF AsSet, InComponent
<1>4. TarjanTyped(t, Blocks)
  BY <1>1 DEF TarjanTyped
<1>5. EdgesIn(A) \in SUBSET (t.allowed \X t.allowed)
  BY <1>1 DEF EdgesIn
<1>6. IndexesRight(t, Blocks)
  BY <1>1, <1>3 DEF IndexesRight
<1>7. ComponentsFound(t.components, t.allowed, EdgesIn(A))
  BY <1>2 DEF ComponentsFound
<1> HIDE DEF Blocks
<1>8. /\ StackSorted(t) /\ CallsOnStack(t, EdgesIn(A)) /\ StackConnected(t, EdgesIn(A))
      /\ LowLinksReached(t, EdgesIn(A)) /\ FollowedEntered(t, EdgesIn(A))
      /\ FollowedCounted(t, EdgesIn(A))
  BY <1>2, <1>3 DEF StackSorted, CallsOnStack, StackConnected, LowLinksReached,
                    FollowedEntered, FollowedCounted
<1>9. IsTarjan(t)
  BY DEF strongly_connected_components, IsTarjan
<1> QED
  BY <1>1, <1>4, <1>5, <1>6, <1>7, <1>8, <1>9 DEF TarjanInv

\* What EnterBlock assigns.
LEMMA Entered ==
    ASSUME NEW t, NEW W, TarjanTyped(t, W), NEW c \in W,
           IsTarjan(t), NEW u, u = EnterBlock(t, c)
    PROVE  IsTarjan(u) /\ Entering(t, t.calls, c, succ[c], u)
  BY DEF EnterBlock, IsTarjan, Entering

LEMMA ReplacedAt ==
    ASSUME NEW S, NEW s \in Seq(S), NEW n \in DOMAIN s, NEW x \in S,
           NEW r, r = [s EXCEPT ![n] = x]
    PROVE  r \in Seq(S) /\ Len(r) = Len(s) /\ \A k \in DOMAIN s : r[k] = IF k = n THEN x ELSE s[k]
  OBVIOUS

\* Of two blocks of the stack the one with the smaller index leads to the other.
LEMMA StackOrder ==
    ASSUME NEW t, NEW W, NEW E, TarjanInv(t, W, E), NEW x \in AsSet(t.stack), NEW y \in AsSet(t.stack),
           x = y \/ t.index[x] < t.index[y]
    PROVE  Connected(t.allowed, E, x, y)
<1>1. PICK i \in DOMAIN t.stack, j \in DOMAIN t.stack : x = t.stack[i] /\ y = t.stack[j]
  BY DEF AsSet
<1>2. t.index[x] \in Int /\ t.index[y] \in Int /\ DOMAIN t.stack \subseteq Nat
  <2>1. t.stack \in Seq(W) /\ t.index \in [W -> Int]
    BY DEF TarjanInv, TarjanTyped
  <2>2. AsSet(t.stack) \subseteq W /\ DOMAIN t.stack = 1..Len(t.stack)
    BY <2>1, SeqFacts
  <2> QED
    BY <2>1, <2>2
<1>3. CASE x = y
  BY <1>3, ConnectedSelf
<1>4. CASE t.index[x] < t.index[y]
  <2>1. i < j \/ i = j \/ j < i
    BY <1>2
  <2>2. i < j
    BY <1>1, <1>2, <1>4, <2>1 DEF TarjanInv, StackSorted
  <2> QED
    BY <1>1, <2>2 DEF TarjanInv, StackConnected
<1> QED
  BY <1>3, <1>4

LEMMA TarjanRunStep ==
    ASSUME succ = prog.succ, prog \in Programs, TarjanRight, TarjanRun
    PROVE  IsTarjan(tarjan') /\ tarjan'.allowed = tarjan.allowed
           /\ TarjanInv(tarjan', Blocks, EdgesIn(tarjan.allowed))
<1> DEFINE t == tarjan
           u == tarjan'
           E == EdgesIn(t.allowed)
           c == CHOOSE b \in Unvisited(t) : \A d \in Unvisited(t) : b <= d
<1>1. succ \in Seq(Seq(Nat)) /\ \A b \in Blocks : succ[b] \in Seq(Nat)
  BY ProgramsAssumption, SeqFacts DEF Blocks
<1>2. t.allowed \in SUBSET Blocks /\ TarjanTyped(t, Blocks)
  BY DEF TarjanRight, TarjanInv, TarjanTyped
<1>3. c \in t.allowed /\ t.index[c] = -1
  <2>1. Unvisited(t) \in SUBSET Nat /\ Unvisited(t) # {}
    <3>1. Blocks \subseteq Nat
      BY <1>1, SeqFacts DEF Blocks
    <3> QED
      BY <1>2, <3>1 DEF Unvisited, TarjanRun
  <2>2. \E b \in Unvisited(t) : \A d \in Unvisited(t) : b <= d
    BY <2>1, Least
  <2>3. c \in Unvisited(t)
    BY <2>2
  <2> QED
    BY <2>3 DEF Unvisited
<1>4. u = EnterBlock(t, c)
  BY DEF TarjanRun
<1> HIDE DEF c
<1>5. IsTarjan(u) /\ Entering(t, t.calls, c, succ[c], u)
  BY <1>2, <1>3, <1>4, Entered DEF TarjanRight
<1>6. TarjanInv(t, Blocks, E) /\ t.calls = <<>> /\ IsTarjan(t)
  BY DEF TarjanRight, TarjanRun
<1>7. t.calls \in Seq([block : Blocks, todo : Seq(Nat)]) /\ Refines(t.calls, t, c)
  BY <1>2 DEF TarjanTyped, Refines
<1>8. AsSet(t.stack) = {}
  BY <1>6 DEF TarjanInv, StackConnected
<1>9. succ[c] \in Seq(Nat)
  BY <1>1, <1>2, <1>3
<1>10. \A d \in t.allowed : d \in AsSet(succ[c]) <=> <<c, d>> \in E
  BY <1>3 DEF EdgesIn
<1>11. \A x \in AsSet(t.stack) : Connected(t.allowed, E, x, c)
  BY <1>8
<1> HIDE DEF t, u, E
<1>12. TarjanInv(u, Blocks, E)
  BY <1>3, <1>5, <1>6, <1>7, <1>9, <1>10, <1>11, TarjanEnter
<1> QED
  BY <1>5, <1>12 DEF t, u, E, Entering

LEMMA TarjanVisitStep ==
    ASSUME succ = prog.succ, prog \in Programs, TarjanRight, TarjanVisit
    PROVE  IsTarjan(tarjan') /\ tarjan'.allowed = tarjan.allowed
           /\ TarjanInv(tarjan', Blocks, EdgesIn(tarjan.allowed))
<1> DEFINE t == tarjan
           u == tarjan'
           v == Advance(t)
           n == Len(t.calls)
           E == EdgesIn(t.allowed)
           b == LastOf(t.calls).block
           c == Head(LastOf(t.calls).todo)
<1>1. succ \in Seq(Seq(Nat)) /\ \A x \in Blocks : succ[x] \in Seq(Nat)
  BY ProgramsAssumption, SeqFacts DEF Blocks
<1>2. /\ t.allowed \in SUBSET Blocks /\ TarjanTyped(t, Blocks) /\ TarjanInv(t, Blocks, E)
      /\ IsTarjan(t) /\ t.calls # <<>> /\ LastOf(t.calls).todo # <<>>
  BY DEF TarjanRight, TarjanInv, TarjanTyped, TarjanVisit, Activation
<1>3. /\ n \in Nat /\ DOMAIN t.calls = 1..n /\ n \in DOMAIN t.calls
      /\ t.calls[n] \in [block : Blocks, todo : Seq(Nat)] /\ LastOf(t.calls) = t.calls[n]
  BY <1>2, SeqFacts, ZenonT(40) DEF TarjanTyped, LastOf
<1>4. u = IF c \notin v.allowed THEN v
          ELSE IF v.index[c] = -1 THEN EnterBlock(v, c)
          ELSE LowerToIndex(v, b, c)
  BY DEF TarjanVisit, Activation
<1> DEFINE calls == [t.calls EXCEPT ![n].todo = Tail(@)]
<1>5. /\ IsTarjan(v) /\ v.allowed = t.allowed /\ v.next_index = t.next_index
      /\ v.index = t.index /\ v.low_link = t.low_link /\ v.stack = t.stack
      /\ v.components = t.components /\ v.calls = calls
  <2> HIDE DEF t
  <2>1. IsTarjan(t)
    BY <1>2
  <2>2. v = [t EXCEPT !.calls = [t.calls EXCEPT ![Len(t.calls)].todo = Tail(@)]]
    BY DEF Advance
  <2> HIDE DEF v
  <2> QED
    BY <2>1, <2>2 DEF IsTarjan
<1>6. /\ LastOf(t.calls).todo \in Seq(Nat) /\ c \in AsSet(LastOf(t.calls).todo) /\ c \in Nat
      /\ Tail(LastOf(t.calls).todo) \in Seq(Nat)
      /\ AsSet(Tail(LastOf(t.calls).todo)) \subseteq AsSet(LastOf(t.calls).todo)
      /\ AsSet(LastOf(t.calls).todo) \subseteq AsSet(Tail(LastOf(t.calls).todo)) \cup {c}
  <2> DEFINE s == LastOf(t.calls).todo
  <2>1. s \in Seq(Nat) /\ s # <<>>
    BY <1>2, <1>3
  <2> HIDE DEF s
  <2>2. /\ Tail(s) \in Seq(Nat) /\ Head(s) \in Nat /\ Head(s) = s[1] /\ 1 \in DOMAIN s
        /\ Len(s) \in Nat /\ Len(s) >= 1 /\ DOMAIN s = 1..Len(s)
        /\ DOMAIN Tail(s) = 1..(Len(s) - 1)
        /\ \A i \in 1..(Len(s) - 1) : Tail(s)[i] = s[i + 1]
    BY <2>1
  <2>3. \A i \in 1..(Len(s) - 1) : i + 1 \in 1..Len(s)
    BY <2>2
  <2>4. \A i \in 1..Len(s) : i # 1 => i - 1 \in 1..(Len(s) - 1) /\ i - 1 + 1 = i
    BY <2>2
  <2>5. AsSet(Tail(s)) \subseteq AsSet(s)
    BY <2>2, <2>3 DEF AsSet
  <2>6. AsSet(s) \subseteq AsSet(Tail(s)) \cup {Head(s)}
    <3> SUFFICES ASSUME NEW i \in DOMAIN s PROVE s[i] \in AsSet(Tail(s)) \cup {Head(s)}
      BY DEF AsSet
    <3>1. CASE i = 1
      BY <2>2, <3>1
    <3>2. CASE i # 1
      <4>1. i - 1 \in DOMAIN Tail(s) /\ Tail(s)[i - 1] = s[i]
        BY <2>2, <2>4, <3>2
      <4> QED
        BY <4>1 DEF AsSet
    <3> QED
      BY <3>1, <3>2
  <2>7. Head(s) \in AsSet(s)
    BY <2>2 DEF AsSet
  <2> QED
    BY <2>1, <2>2, <2>5, <2>6, <2>7 DEF s
<1>7. /\ calls \in Seq([block : Blocks, todo : Seq(Nat)]) /\ Len(calls) = n
      /\ \A k \in DOMAIN t.calls : calls[k] = IF k = n THEN [t.calls[n] EXCEPT !.todo = Tail(@)]
                                              ELSE t.calls[k]
  <2>1. [t.calls[n] EXCEPT !.todo = Tail(@)] \in [block : Blocks, todo : Seq(Nat)]
    BY <1>3, <1>6
  <2>2. t.calls \in Seq([block : Blocks, todo : Seq(Nat)])
    BY <1>2 DEF TarjanTyped
  <2>3. calls = [t.calls EXCEPT ![n] = [t.calls[n] EXCEPT !.todo = Tail(@)]]
    OBVIOUS
  <2> DEFINE s == t.calls
             x == [t.calls[n] EXCEPT !.todo = Tail(@)]
  <2> HIDE DEF s, x, n, calls
  <2>4. calls \in Seq([block : Blocks, todo : Seq(Nat)]) /\ Len(calls) = Len(s)
        /\ \A k \in DOMAIN s : calls[k] = IF k = n THEN x ELSE s[k]
    BY <1>3, <2>1, <2>2, <2>3, ReplacedAt DEF s, x
  <2> QED
    BY <2>4 DEF s, x, n
<1>8. Refines(calls, t, c)
  <2>1. ASSUME NEW k \in DOMAIN t.calls
        PROVE  /\ calls[k].block = t.calls[k].block
               /\ AsSet(calls[k].todo) \subseteq AsSet(t.calls[k].todo)
               /\ AsSet(t.calls[k].todo) \subseteq AsSet(calls[k].todo) \cup {c}
    <3>1. CASE k = n
      <4>1. calls[k].block = t.calls[k].block /\ calls[k].todo = Tail(LastOf(t.calls).todo)
            /\ t.calls[k].todo = LastOf(t.calls).todo
        BY <1>3, <1>7, <3>1
      <4> QED
        BY <1>6, <4>1
    <3>2. CASE k # n
      BY <1>7, <3>2
    <3> QED
      BY <3>1, <3>2
  <2> QED
    BY <1>7, <2>1 DEF Refines
<1>9. <<b, c>> \in E \/ c \notin t.allowed
  BY <1>2, <1>3, <1>6 DEF TarjanInv, CallsOnStack
<1>10. b \in Blocks /\ b \in AsSet(t.stack) /\ AsSet(t.stack) \subseteq Blocks
       /\ \A x \in Blocks : t.low_link[x] \in Int /\ t.index[x] \in Int
  BY <1>2, <1>3, SeqFacts DEF TarjanInv, CallsOnStack, TarjanTyped
<1>11. CASE c \in t.allowed /\ t.index[c] = -1
  <2>1. u = EnterBlock(v, c) /\ c \in Blocks
    BY <1>2, <1>4, <1>5, <1>11
  <2>2. TarjanTyped(v, Blocks)
    BY <1>2, <1>5, <1>7 DEF TarjanTyped
  <2>3. IsTarjan(u) /\ Entering(t, calls, c, succ[c], u)
    <3> HIDE DEF u, v, c, calls
    <3>1. IsTarjan(u) /\ Entering(v, v.calls, c, succ[c], u)
      BY <1>5, <2>1, <2>2, Entered
    <3> QED
      BY <1>5, <3>1 DEF Entering
  <2>4. ASSUME NEW x \in AsSet(t.stack) PROVE Connected(t.allowed, E, x, c)
    <3>1. Connected(t.allowed, E, b, c)
      BY <1>9, <1>11, ConnectedEdge
    <3>2. PICK k \in DOMAIN t.calls : /\ t.index[t.calls[k].block] <= t.index[x]
                                      /\ Connected(t.allowed, E, x, t.calls[k].block)
      BY <1>2 DEF TarjanInv, StackConnected
    <3>3. t.calls[k].block = b \/ t.index[t.calls[k].block] < t.index[b]
      <4>1. k = n \/ k < n
        BY <1>3
      <4> QED
        BY <1>2, <1>3, <4>1 DEF TarjanInv, CallsOnStack
    <3>4. Connected(t.allowed, E, t.calls[k].block, b)
      <4>1. t.calls[k].block \in AsSet(t.stack)
        BY <1>2 DEF TarjanInv, CallsOnStack
      <4> QED
        BY <1>2, <1>10, <3>3, <4>1, StackOrder
    <3> QED
      BY <3>1, <3>2, <3>4, ConnectedTransitive
  <2>5. succ[c] \in Seq(Nat)
    BY <1>1, <2>1
  <2>6. \A d \in t.allowed : d \in AsSet(succ[c]) <=> <<c, d>> \in E
    BY <1>11 DEF EdgesIn
  <2> HIDE DEF t, u, E, c, calls
  <2>7. TarjanInv(u, Blocks, E)
    BY <1>2, <1>7, <1>8, <1>11, <2>3, <2>4, <2>5, <2>6, TarjanEnter
  <2> QED
    BY <2>3, <2>7 DEF t, u, E, Entering
<1>12. CASE ~ (c \in t.allowed /\ t.index[c] = -1)
  <2>1. u = IF c \in t.allowed THEN LowerToIndex(v, b, c) ELSE v
    BY <1>4, <1>5, <1>12
  <2>2. /\ IsTarjan(u) /\ u.allowed = t.allowed /\ u.next_index = t.next_index
        /\ u.index = t.index /\ u.stack = t.stack /\ u.components = t.components
        /\ u.calls = calls
    <3> HIDE DEF u, v, b, c, calls
    <3> QED
      BY <1>5, <2>1 DEF LowerToIndex, IsTarjan
  <2>3. u.low_link = IF c \in t.allowed /\ c \in AsSet(t.stack)
                     THEN [t.low_link EXCEPT ![b] = Minimum(@, t.index[c])] ELSE t.low_link
    <3> HIDE DEF u, v, b, c, calls
    <3> QED
      BY <1>5, <2>1 DEF LowerToIndex, IsTarjan
  <2>4. c \in AsSet(t.stack) => c \in t.allowed /\ c \in Blocks
    BY <1>2, <1>10 DEF TarjanInv, IndexesRight
  <2>5. t.low_link \in [Blocks -> Int]
    BY <1>2 DEF TarjanTyped
  <2>6. c \in AsSet(t.stack) => Minimum(t.low_link[b], t.index[c]) \in Int
                                /\ Minimum(t.low_link[b], t.index[c]) <= t.low_link[b]
                                /\ Minimum(t.low_link[b], t.index[c]) <= t.index[c]
                                /\ Minimum(t.low_link[b], t.index[c]) \in {t.low_link[b], t.index[c]}
    BY <1>10 DEF Minimum
  <2>7. t.low_link[b] <= t.low_link[b]
    BY <1>10
  <2> HIDE DEF t, u, E, c, b, calls
  <2>8. /\ u.low_link \in [Blocks -> Int]
        /\ \A x \in Blocks : x # b => u.low_link[x] = t.low_link[x]
        /\ u.low_link[b] <= t.low_link[b]
        /\ u.low_link[b] = t.low_link[b] \/ (c \in AsSet(t.stack) /\ u.low_link[b] = t.index[c])
        /\ c \in AsSet(t.stack) => u.low_link[b] <= t.index[c]
    BY <1>10, <2>3, <2>4, <2>5, <2>6, <2>7
  <2>9. /\ b = LastOf(t.calls).block /\ (c \in t.allowed => t.index[c] # -1)
        /\ \A k \in DOMAIN t.calls : k # Len(t.calls) => calls[k] = t.calls[k]
    BY <1>7, <1>12 DEF b, t, c, n
  <2>10. TarjanInv(u, Blocks, E)
    <3>1. Lowering(t, Blocks, calls, b, c, u)
      BY <2>2, <2>8 DEF Lowering
    <3> QED
      BY <1>2, <1>6, <1>7, <1>8, <2>9, <3>1, TarjanFollow
  <2> QED
    BY <2>2, <2>10 DEF t, u, E
<1> QED
  BY <1>11, <1>12

LEMMA FrontFacts ==
    ASSUME NEW S, NEW s \in Seq(S), s # <<>>
    PROVE  /\ FrontOf(s) \in Seq(S) /\ Len(FrontOf(s)) = Len(s) - 1
           /\ DOMAIN FrontOf(s) = 1..(Len(s) - 1)
           /\ \A k \in 1..(Len(s) - 1) : FrontOf(s)[k] = s[k]
<1>1. Len(s) \in Nat /\ Len(s) >= 1 /\ DOMAIN s = 1..Len(s) /\ \A i \in 1..Len(s) : s[i] \in S
  BY SeqFacts
<1> DEFINE n == Len(s) - 1
<1>2. n \in Nat /\ n + 1 = Len(s)
  BY <1>1
<1> HIDE DEF n
<1>3. \A i \in 1..n : s[i] \in S
  BY <1>1, <1>2
<1>4. /\ SubSeq(s, 1, n) \in Seq(S) /\ Len(SubSeq(s, 1, n)) = IF 1 <= n THEN n - 1 + 1 ELSE 0
      /\ \A k \in 1..(n - 1 + 1) : SubSeq(s, 1, n)[k] = s[1 + k - 1]
  BY <1>2, <1>3, SubSeqProperties
<1>5. Len(SubSeq(s, 1, n)) = n /\ DOMAIN SubSeq(s, 1, n) = 1..n
  BY <1>2, <1>4
<1>6. \A k \in 1..n : k \in 1..(n - 1 + 1) /\ 1 + k - 1 = k
  BY <1>2
<1>7. \A k \in 1..n : SubSeq(s, 1, n)[k] = s[k]
  BY <1>4, <1>6
<1> QED
  BY <1>4, <1>5, <1>7 DEF FrontOf, n

LEMMA TarjanReturnStep ==
    ASSUME succ = prog.succ, prog \in Programs, TarjanRight, TarjanReturn
    PROVE  IsTarjan(tarjan') /\ tarjan'.allowed = tarjan.allowed
           /\ TarjanInv(tarjan', Blocks, EdgesIn(tarjan.allowed))
<1> DEFINE t == tarjan
           u == tarjan'
           E == EdgesIn(t.allowed)
           b == LastOf(t.calls).block
           at == CHOOSE i \in DOMAIN t.stack : t.stack[i] = b
           calls == FrontOf(t.calls)
           popped == IF t.low_link[b] = t.index[b]
                     THEN [t EXCEPT !.stack = Below(@, at),
                                    !.components = Append(@, Above(t.stack, at)),
                                    !.calls = calls]
                     ELSE [t EXCEPT !.calls = calls]
<1>1. /\ TarjanTyped(t, Blocks) /\ TarjanInv(t, Blocks, E)
      /\ IsTarjan(t) /\ t.calls # <<>> /\ LastOf(t.calls).todo = <<>>
  BY DEF TarjanRight, TarjanInv, TarjanReturn, Activation
<1>2. u = IF calls = <<>> THEN popped
          ELSE [popped EXCEPT !.low_link[LastOf(calls).block] = Minimum(@, t.low_link[b])]
  BY DEF TarjanReturn, Activation, Below, Above
<1>3. /\ calls \in Seq([block : Blocks, todo : Seq(Nat)])
      /\ Len(calls) = Len(t.calls) - 1
      /\ \A k \in DOMAIN calls : calls[k] = t.calls[k]
  <2> DEFINE s == t.calls
  <2>1. s \in Seq([block : Blocks, todo : Seq(Nat)]) /\ s # <<>>
    BY <1>1 DEF TarjanTyped
  <2> HIDE DEF s
  <2>2. Len(s) \in Nat /\ Len(s) >= 1 /\ DOMAIN s = 1..Len(s)
    BY <2>1, SeqFacts
  <2> DEFINE S == [block : Blocks, todo : Seq(Nat)]
  <2> HIDE DEF S
  <2>4. /\ FrontOf(s) \in Seq(S) /\ Len(FrontOf(s)) = Len(s) - 1
        /\ DOMAIN FrontOf(s) = 1..(Len(s) - 1)
        /\ \A k \in 1..(Len(s) - 1) : FrontOf(s)[k] = s[k]
    BY <2>1, <2>2, FrontFacts DEF S
  <2> QED
    BY <2>2, <2>4 DEF s, S
<1>4. b \in AsSet(t.stack) /\ b \in Blocks
  <2>1. Len(t.calls) \in DOMAIN t.calls /\ AsSet(t.stack) \subseteq Blocks
    BY <1>1, SeqFacts DEF TarjanTyped
  <2> QED
    BY <1>1, <2>1 DEF TarjanInv, CallsOnStack, LastOf
<1>5. at \in DOMAIN t.stack /\ t.stack[at] = b
  BY <1>4 DEF AsSet
<1>6. /\ IsTarjan(u) /\ u.allowed = t.allowed /\ u.next_index = t.next_index
      /\ u.index = t.index /\ u.calls = calls
      /\ u.calls = <<>> => u.low_link = t.low_link
      /\ u.calls # <<>> =>
            u.low_link = [t.low_link EXCEPT ![LastOf(u.calls).block] = Minimum(@, t.low_link[b])]
      /\ t.low_link[b] # t.index[b] => u.stack = t.stack /\ u.components = t.components
      /\ t.low_link[b] = t.index[b] =>
            u.stack = Below(t.stack, at) /\ u.components = Append(t.components, Above(t.stack, at))
  <2> HIDE DEF t, u, b, at, calls
  <2>1. /\ IsTarjan(popped) /\ popped.allowed = t.allowed /\ popped.next_index = t.next_index
        /\ popped.index = t.index /\ popped.calls = calls /\ popped.low_link = t.low_link
        /\ t.low_link[b] # t.index[b] =>
              popped.stack = t.stack /\ popped.components = t.components
        /\ t.low_link[b] = t.index[b] => /\ popped.stack = Below(t.stack, at)
                                         /\ popped.components = Append(t.components, Above(t.stack, at))
    BY <1>1 DEF IsTarjan
  <2> HIDE DEF popped
  <2> QED
    BY <1>2, <2>1 DEF IsTarjan
<1>7. Returning(t, Blocks, b, u)
  BY <1>3, <1>6 DEF Returning, Caller
<1> HIDE DEF t, u, E, at
<1>8. b = LastOf(t.calls).block
  OBVIOUS
<1> HIDE DEF b
<1>9. TarjanInv(u, Blocks, E)
  <2>1. CASE t.low_link[b] = t.index[b]
    BY <1>1, <1>5, <1>6, <1>7, <1>8, <2>1, TarjanPop
  <2>2. CASE t.low_link[b] # t.index[b]
    BY <1>1, <1>6, <1>7, <1>8, <2>2, TarjanKeep
  <2> QED
    BY <2>1, <2>2
<1> QED
  BY <1>6, <1>9 DEF t, u, E

LEMMA SeqNarrow ==
    ASSUME NEW S, NEW s \in Seq(S), NEW T, \A i \in DOMAIN s : s[i] \in T
    PROVE  s \in Seq(T)
  OBVIOUS

-----------------------------------------------------------------------------
(* The components *)

\* cs partitions A into the classes of blocks that reach each other, and no
\* edge leaves a class for a later one.
Partition(cs, A, E) ==
    /\ cs \in Seq(Seq(A)) /\ E \in SUBSET (A \X A) /\ ComponentsFound(cs, A, E)
    /\ \A b \in A : \E i \in DOMAIN cs : b \in AsSet(cs[i])

LEMMA TarjanEnds ==
    ASSUME TarjanRight, TarjanDone
    PROVE  Partition(tarjan.components, tarjan.allowed, EdgesIn(tarjan.allowed))
<1> DEFINE t == tarjan
           E == EdgesIn(t.allowed)
<1>1. TarjanInv(t, Blocks, E) /\ t.calls = <<>> /\ \A b \in t.allowed : t.index[b] # -1
  BY DEF TarjanRight, TarjanDone, Unvisited
<1> HIDE DEF t, E
<1>2. AsSet(t.stack) = {}
  BY <1>1 DEF TarjanInv, StackConnected
<1>3. \A b \in t.allowed : \E i \in DOMAIN t.components : b \in AsSet(t.components[i])
  BY <1>1, <1>2 DEF TarjanInv, IndexesRight, InComponent, TarjanTyped
<1>4. t.components \in Seq(Seq(t.allowed))
  <2>1. t.components \in Seq(Seq(Blocks)) /\ t.allowed \in SUBSET Blocks
    BY <1>1 DEF TarjanInv, TarjanTyped
  <2>2. ASSUME NEW i \in DOMAIN t.components PROVE t.components[i] \in Seq(t.allowed)
    <3>1. t.components[i] \in Seq(Blocks)
      BY <2>1, <2>2, SeqFacts
    <3>2. ASSUME NEW p \in DOMAIN t.components[i] PROVE t.components[i][p] \in t.allowed
      <4>1. t.components[i][p] \in Blocks /\ InComponent(t, t.components[i][p])
        BY <3>1, SeqFacts DEF InComponent, AsSet
      <4> QED
        BY <1>1, <4>1 DEF TarjanInv, IndexesRight
    <3> QED
      BY <3>1, <3>2, SeqNarrow
  <2> QED
    BY <2>1, <2>2, SeqNarrow
<1>5. E \in SUBSET (t.allowed \X t.allowed) /\ ComponentsFound(t.components, t.allowed, E)
  BY <1>1 DEF TarjanInv
<1> QED
  BY <1>3, <1>4, <1>5 DEF Partition, t, E

LEMMA ComponentDown ==
    ASSUME NEW cs, NEW A, NEW E, Partition(cs, A, E), NEW i \in DOMAIN cs, NEW j \in DOMAIN cs,
           NEW b \in AsSet(cs[i]), NEW c \in AsSet(cs[j]), Connected(A, E, b, c)
    PROVE  j <= i
<1> DEFINE C == {x \in A : \E k \in DOMAIN cs : k <= i /\ x \in AsSet(cs[k])}
<1>1. cs \in Seq(Seq(A)) /\ E \in SUBSET (A \X A) /\ ComponentsFound(cs, A, E)
  BY DEF Partition
<1>2. DOMAIN cs \subseteq Nat /\ b \in A
  <2>1. DOMAIN cs = 1..Len(cs) /\ cs[i] \in Seq(A)
    BY <1>1, SeqFacts
  <2> QED
    BY <2>1, SeqFacts
<1>3. b \in C
  BY <1>2
<1>4. Closed(C, E)
  <2> SUFFICES ASSUME NEW e \in E, e[1] \in C PROVE e[2] \in C
    BY DEF Closed
  <2>1. PICK k \in DOMAIN cs : k <= i /\ e[1] \in AsSet(cs[k])
    OBVIOUS
  <2>2. e[2] \in A /\ e = <<e[1], e[2]>>
    BY <1>1
  <2>3. PICK l \in DOMAIN cs : l <= k /\ e[2] \in AsSet(cs[l])
    BY <1>1, <2>1, <2>2 DEF ComponentsFound
  <2>4. l <= i
    BY <1>2, <2>1, <2>3
  <2> QED
    BY <2>2, <2>3, <2>4
<1>5. C \in SUBSET A
  OBVIOUS
<1>6. c \in C
  <2> HIDE DEF C
  <2> QED
    BY <1>3, <1>4, <1>5 DEF Connected
<1>7. PICK k \in DOMAIN cs : k <= i /\ c \in AsSet(cs[k])
  BY <1>6
<1>8. k = j
  BY <1>1, <1>7 DEF ComponentsFound
<1> QED
  BY <1>7, <1>8

\* Two blocks are in the same component if and only if they reach each other.
LEMMA SameComponent ==
    ASSUME NEW cs, NEW A, NEW E, Partition(cs, A, E), NEW i \in DOMAIN cs, NEW j \in DOMAIN cs,
           NEW b \in AsSet(cs[i]), NEW c \in AsSet(cs[j])
    PROVE  i = j <=> Connected(A, E, b, c) /\ Connected(A, E, c, b)
<1>1. DOMAIN cs \subseteq Nat
  <2>1. DOMAIN cs = 1..Len(cs)
    BY SeqFacts DEF Partition
  <2> QED
    BY <2>1
<1>2. ASSUME Connected(A, E, b, c), Connected(A, E, c, b) PROVE i = j
  <2>1. j <= i /\ i <= j
    BY <1>2, ComponentDown
  <2> QED
    BY <1>1, <2>1
<1>3. ASSUME i = j PROVE Connected(A, E, b, c) /\ Connected(A, E, c, b)
  BY <1>3 DEF Partition, ComponentsFound, AsSet
<1> QED
  BY <1>2, <1>3

Cyclic(component, E) ==
    IF Len(component) = 1 THEN <<component[1], component[1]>> \in E ELSE Len(component) >= 2

\* A component is cyclic if and only if a cycle passes through each of its blocks.
LEMMA CyclicComponent ==
    ASSUME NEW cs, NEW A, NEW E, Partition(cs, A, E), NEW i \in DOMAIN cs, NEW b \in AsSet(cs[i])
    PROVE  Cyclic(cs[i], E) <=> \E e \in E : e[1] = b /\ Connected(A, E, e[2], b)
<1>1. cs \in Seq(Seq(A)) /\ E \in SUBSET (A \X A) /\ ComponentsFound(cs, A, E)
  BY DEF Partition
<1>2. cs[i] \in Seq(A) /\ b \in A /\ Len(cs[i]) \in Nat /\ DOMAIN cs[i] = 1..Len(cs[i])
  <2>1. cs[i] \in Seq(A)
    BY <1>1, SeqFacts
  <2> QED
    BY <2>1, SeqFacts
<1>3. PICK p \in DOMAIN cs[i] : cs[i][p] = b
  BY DEF AsSet
<1>4. CASE Len(cs[i]) = 1
  <2>1. AsSet(cs[i]) = {b} /\ cs[i][1] = b
    BY <1>2, <1>3, <1>4 DEF AsSet
  <2>2. ASSUME NEW e \in E, e[1] = b, Connected(A, E, e[2], b) PROVE <<b, b>> \in E
    <3>1. e[2] \in A /\ e = <<b, e[2]>>
      BY <1>1, <2>2
    <3>2. PICK j \in DOMAIN cs : e[2] \in AsSet(cs[j])
      BY <3>1 DEF Partition
    <3>3. Connected(A, E, b, e[2])
      BY <3>1, ConnectedEdge
    <3>4. i = j
      BY <2>2, <3>2, <3>3, SameComponent
    <3> QED
      BY <2>1, <3>1, <3>2, <3>4
  <2>3. ASSUME <<b, b>> \in E PROVE \E e \in E : e[1] = b /\ Connected(A, E, e[2], b)
    BY <2>3, ConnectedSelf
  <2> QED
    BY <1>4, <2>1, <2>2, <2>3 DEF Cyclic
<1>5. CASE Len(cs[i]) # 1
  <2>1. Len(cs[i]) >= 2 /\ Cyclic(cs[i], E)
    BY <1>2, <1>3, <1>5 DEF Cyclic
  <2>2. PICK q \in DOMAIN cs[i] : q # p
    <3>1. 1 \in DOMAIN cs[i] /\ 2 \in DOMAIN cs[i]
      BY <1>2, <2>1
    <3> QED
      BY <3>1
  <2> DEFINE c == cs[i][q]
  <2>3. c # b /\ Connected(A, E, b, c) /\ Connected(A, E, c, b)
    BY <1>1, <1>3, <2>2 DEF ComponentsFound
  <2> HIDE DEF c
  <2>4. PICK z \in A : <<b, z>> \in E /\ Connected(A, E, z, c)
    BY <1>1, <1>2, <2>3, ConnectedFirst
  <2>5. Connected(A, E, z, b)
    BY <2>3, <2>4, ConnectedTransitive
  <2> QED
    BY <2>1, <2>4, <2>5
<1> QED
  BY <1>4, <1>5

-----------------------------------------------------------------------------
(* The order of the components *)

Distinct(s) == \A i, j \in DOMAIN s : i # j => s[i] # s[j]

LEMMA Concatenated ==
    ASSUME NEW S, NEW s \in Seq(S), NEW r \in Seq(S)
    PROVE  /\ s \o r \in Seq(S) /\ Len(s) \in Nat /\ Len(r) \in Nat
           /\ Len(s \o r) = Len(s) + Len(r)
           /\ \A i \in DOMAIN s : i \in DOMAIN (s \o r) /\ (s \o r)[i] = s[i]
           /\ \A i \in DOMAIN r : Len(s) + i \in DOMAIN (s \o r) /\ (s \o r)[Len(s) + i] = r[i]
           /\ \A k \in DOMAIN (s \o r) :
                 k \in DOMAIN s \/ \E i \in DOMAIN r : k = Len(s) + i
<1>1. /\ s \o r \in Seq(S) /\ Len(s) \in Nat /\ Len(r) \in Nat
      /\ Len(s \o r) = Len(s) + Len(r) /\ DOMAIN s = 1..Len(s) /\ DOMAIN r = 1..Len(r)
      /\ DOMAIN (s \o r) = 1..(Len(s) + Len(r))
      /\ \A k \in 1..(Len(s) + Len(r)) :
            (s \o r)[k] = IF k <= Len(s) THEN s[k] ELSE r[k - Len(s)]
  OBVIOUS
<1> DEFINE m == Len(s)
           n == Len(r)
<1>2. m \in Nat /\ n \in Nat
  BY <1>1
<1> HIDE DEF m, n
<1>3. /\ \A i \in 1..m : i \in 1..(m + n) /\ i <= m
      /\ \A i \in 1..n : m + i \in 1..(m + n) /\ ~ (m + i <= m) /\ m + i - m = i
      /\ \A k \in 1..(m + n) : k \notin 1..m => k - m \in 1..n /\ k = m + (k - m)
  BY <1>2
<1>4. \A k \in 1..(m + n) : k \in 1..m \/ \E i \in 1..n : k = m + i
  BY <1>3
<1>5. \A i \in DOMAIN s : i \in DOMAIN (s \o r) /\ (s \o r)[i] = s[i]
  BY <1>1, <1>3 DEF m, n
<1>6. \A i \in DOMAIN r : Len(s) + i \in DOMAIN (s \o r) /\ (s \o r)[Len(s) + i] = r[i]
  <2> TAKE i \in DOMAIN r
  <2>1. m + i \in 1..(m + n) /\ ~ (m + i <= m) /\ m + i - m = i
    BY <1>1, <1>3 DEF n
  <2>2. (s \o r)[m + i] = IF m + i <= m THEN s[m + i] ELSE r[m + i - m]
    BY <1>1, <2>1 DEF m, n
  <2> QED
    BY <1>1, <2>1, <2>2 DEF m, n
<1>7. \A k \in DOMAIN (s \o r) : k \in DOMAIN s \/ \E i \in DOMAIN r : k = Len(s) + i
  BY <1>1, <1>4 DEF m, n
<1> QED
  BY <1>1, <1>5, <1>6, <1>7

LEMMA ConcatenatedSets ==
    ASSUME NEW S, NEW s \in Seq(S), NEW r \in Seq(S)
    PROVE  /\ AsSet(s \o r) = AsSet(s) \cup AsSet(r)
           /\ Distinct(s) /\ Distinct(r) /\ AsSet(s) \cap AsSet(r) = {} => Distinct(s \o r)
<1> DEFINE t == s \o r
           n == Len(s)
<1>1. /\ n \in Nat
      /\ \A i \in DOMAIN s : i \in DOMAIN t /\ t[i] = s[i]
      /\ \A i \in DOMAIN r : n + i \in DOMAIN t /\ t[n + i] = r[i]
      /\ \A k \in DOMAIN t : k \in DOMAIN s \/ \E i \in DOMAIN r : k = n + i
  BY Concatenated
<1> HIDE DEF t, n
<1>2. AsSet(t) = AsSet(s) \cup AsSet(r)
  BY <1>1 DEF AsSet
<1>3. ASSUME Distinct(s), Distinct(r), AsSet(s) \cap AsSet(r) = {} PROVE Distinct(t)
  <2> SUFFICES ASSUME NEW k \in DOMAIN t, NEW l \in DOMAIN t, k # l PROVE t[k] # t[l]
    BY DEF Distinct
  <2>1. CASE k \in DOMAIN s /\ l \in DOMAIN s
    BY <1>1, <1>3, <2>1 DEF Distinct
  <2>2. ASSUME NEW i \in DOMAIN r, k = n + i, NEW j \in DOMAIN r, l = n + j PROVE t[k] # t[l]
    BY <1>1, <1>3, <2>2 DEF Distinct
  <2>3. ASSUME NEW i \in DOMAIN s, NEW j \in DOMAIN r PROVE s[i] # r[j]
    BY <1>3 DEF AsSet
  <2> QED
    BY <1>1, <2>1, <2>2, <2>3
<1> QED
  BY <1>2, <1>3 DEF t

\* InOrder lists the elements of a set, each once.
LEMMA Sorted ==
    ASSUME NEW S \in SUBSET Nat, IsFiniteSet(S)
    PROVE  InOrder(S) \in Seq(S) /\ AsSet(InOrder(S)) = S /\ Distinct(InOrder(S))
<1> DEFINE n == Cardinality(S)
           B(x) == {y \in S : y < x}
           f == [x \in S |-> Cardinality(B(x)) + 1]
           s == InOrder(S)
<1>1. n \in Nat /\ \A x \in S : IsFiniteSet(B(x)) /\ Cardinality(B(x)) \in Nat
  BY FS_Subset, FS_CardinalityType
<1>2. ASSUME NEW x \in S PROVE f[x] \in 1..n
  <2>1. B(x) \in SUBSET S /\ B(x) # S
    OBVIOUS
  <2>2. Cardinality(B(x)) <= n /\ (n = Cardinality(B(x)) => S = B(x))
    BY <2>1, FS_Subset
  <2>3. Cardinality(B(x)) \in Nat /\ f[x] = Cardinality(B(x)) + 1
    BY <1>1
  <2> HIDE DEF n, B, f
  <2> QED
    BY <1>1, <2>1, <2>2, <2>3
<1>3. ASSUME NEW x \in S, NEW y \in S, x < y PROVE f[x] # f[y]
  <2>1. B(x) \in SUBSET B(y) /\ B(x) # B(y)
    <3>1. x \in B(y) /\ x \notin B(x)
      BY <1>3
    <3>2. \A z \in S : z < x => z < y
      BY <1>3
    <3> QED
      BY <3>1, <3>2
  <2>2. Cardinality(B(x)) # Cardinality(B(y))
    BY <1>1, <2>1, FS_Subset
  <2>3. Cardinality(B(x)) \in Nat /\ Cardinality(B(y)) \in Nat
        /\ f[x] = Cardinality(B(x)) + 1 /\ f[y] = Cardinality(B(y)) + 1
    BY <1>1
  <2> HIDE DEF B, f
  <2> QED
    BY <2>2, <2>3
<1>4. f \in Injection(S, 1..n)
  <2>1. f \in [S -> 1..n]
    BY <1>2
  <2>2. \A x, y \in S : f[x] = f[y] => x = y
    <3> HIDE DEF f
    <3>1. \A x, y \in S : x < y \/ x = y \/ y < x
      OBVIOUS
    <3> QED
      BY <1>3, <3>1
  <2> HIDE DEF f
  <2> QED
    BY <2>1, <2>2 DEF Injection, IsInjective
<1>5. f \in Surjection(S, 1..n)
  <2>1. IsFiniteSet(1..n) /\ Cardinality(1..n) = n
    <3> HIDE DEF n
    <3> QED
      BY <1>1, FS_Interval
  <2> HIDE DEF f
  <2> QED
    BY <1>4, <2>1, FS_Injection
<1>6. \A i \in 1..n : \E x \in S : f[x] = i
  BY <1>5 DEF Surjection
<1>7. \A i \in 1..n : \E x \in S : Cardinality(B(x)) = i - 1
  <2> TAKE i \in 1..n
  <2>1. PICK x \in S : f[x] = i
    BY <1>6
  <2>2. Cardinality(B(x)) + 1 = i /\ Cardinality(B(x)) \in Nat
    BY <1>1, <2>1
  <2> HIDE DEF B
  <2>3. Cardinality(B(x)) = i - 1
    BY <2>2
  <2> QED
    BY <2>3
<1>8. /\ s = [i \in 1..n |-> CHOOSE x \in S : Cardinality(B(x)) = i - 1]
      /\ DOMAIN s = 1..n
  BY DEF InOrder
<1>9. \A i \in 1..n : s[i] \in S /\ Cardinality(B(s[i])) = i - 1
  BY <1>7, <1>8
<1>10. s \in Seq(S)
  <2>1. s \in [1..n -> S]
    BY <1>8, <1>9
  <2> HIDE DEF s, n
  <2> QED
    BY <1>1, <2>1, SeqDef
<1>11. Distinct(s)
  <2> HIDE DEF s, B, n
  <2>1. \A i, j \in 1..n : i # j => i - 1 # j - 1
    BY <1>1
  <2> QED
    BY <1>8, <1>9, <2>1 DEF Distinct
<1>12. AsSet(s) = S
  <2>1. AsSet(s) \subseteq S
    BY <1>10, SeqFacts
  <2>2. ASSUME NEW x \in S PROVE x \in AsSet(s)
    <3>1. f[x] \in 1..n /\ Cardinality(B(x)) \in Nat /\ f[x] = Cardinality(B(x)) + 1
      BY <1>1, <1>2
    <3>2. s[f[x]] \in S /\ Cardinality(B(s[f[x]])) = f[x] - 1
      BY <1>9, <3>1
    <3>3. f[s[f[x]]] = Cardinality(B(s[f[x]])) + 1
      BY <3>2
    <3> HIDE DEF f, B, s, n
    <3>4. f[s[f[x]]] = f[x]
      BY <3>1, <3>2, <3>3
    <3>5. s[f[x]] = x
      BY <1>4, <3>2, <3>4 DEF Injection, IsInjective
    <3> QED
      BY <1>8, <3>1, <3>5 DEF AsSet
  <2> QED
    BY <2>1, <2>2
<1> QED
  BY <1>10, <1>11, <1>12

\* The graph of the components and the state of the topological sort.
GraphBuilt(g, E) ==
    /\ g.edges \in [DOMAIN g.components -> SUBSET DOMAIN g.components]
    /\ \A i, j \in DOMAIN g.components :
          j \in g.edges[i] <=>
             /\ i # j
             /\ \E b \in AsSet(g.components[i]), c \in AsSet(g.components[j]) : <<b, c>> \in E
    /\ g.is_cyclic = {i \in DOMAIN g.components : Cyclic(g.components[i], E)}

\* The components with an edge to i that are not yet in the order.
Before(g, i) ==
    {j \in DOMAIN g.components : j \notin AsSet(g.topo_order) /\ i \in g.edges[j]}

Sorting(g) ==
    /\ g.topo_order \in Seq(DOMAIN g.components) /\ g.ready \in Seq(DOMAIN g.components)
    /\ Distinct(g.topo_order) /\ Distinct(g.ready)
    /\ AsSet(g.topo_order) \cap AsSet(g.ready) = {}
    /\ g.indegree = [i \in DOMAIN g.components |-> Cardinality(Before(g, i))]
    /\ \A i \in DOMAIN g.components :
          i \in AsSet(g.topo_order) \/ i \in AsSet(g.ready) <=> Before(g, i) = {}
    /\ \A q \in DOMAIN g.topo_order, j \in DOMAIN g.components :
          g.topo_order[q] \in g.edges[j] =>
             \E p \in DOMAIN g.topo_order : p < q /\ g.topo_order[p] = j

IsGraph(g) ==
    g = [components |-> g.components, edges |-> g.edges, indegree |-> g.indegree,
         ready |-> g.ready, topo_order |-> g.topo_order, is_cyclic |-> g.is_cyclic]

LEMMA BeforeFinite ==
    ASSUME NEW g, NEW S, g.components \in Seq(S), NEW i
    PROVE  /\ IsFiniteSet(Before(g, i)) /\ Cardinality(Before(g, i)) \in Nat
           /\ Cardinality(Before(g, i)) = 0 <=> Before(g, i) = {}
<1>1. DOMAIN g.components = 1..Len(g.components) /\ Len(g.components) \in Nat
  BY SeqFacts
<1>2. IsFiniteSet(DOMAIN g.components)
  BY <1>1, FS_Interval
<1>3. Before(g, i) \in SUBSET DOMAIN g.components
  BY DEF Before
<1>4. IsFiniteSet(Before(g, i))
  BY <1>2, <1>3, FS_Subset
<1> QED
  BY <1>4, FS_CardinalityType, FS_EmptySet

\* The loop takes c off the ready queue, of which rest is left.
Taking(g, c, rest, h) ==
    /\ h.components = g.components /\ h.edges = g.edges
    /\ h.topo_order = Append(g.topo_order, c)
    /\ h.indegree = [i \in DOMAIN g.indegree |->
                       IF i \in g.edges[c] THEN g.indegree[i] - 1 ELSE g.indegree[i]]
    /\ h.ready = rest \o InOrder({i \in g.edges[c] : h.indegree[i] = 0})

LEMMA SortingStep ==
    ASSUME NEW g, NEW S, g.components \in Seq(S), IsGraph(g),
           g.edges \in [DOMAIN g.components -> SUBSET DOMAIN g.components], Sorting(g),
           NEW c \in AsSet(g.ready), c \notin g.edges[c],
           NEW rest \in Seq(DOMAIN g.components), Distinct(rest),
           AsSet(rest) = AsSet(g.ready) \ {c},
           NEW h, Taking(g, c, rest, h)
    PROVE  Sorting(h)
<1> SUFFICES ASSUME h.components = g.components, h.edges = g.edges,
                    h.topo_order = Append(g.topo_order, c),
                    h.indegree = [i \in DOMAIN g.indegree |->
                                    IF i \in g.edges[c] THEN g.indegree[i] - 1 ELSE g.indegree[i]],
                    h.ready = rest \o InOrder({i \in g.edges[c] : h.indegree[i] = 0})
             PROVE  Sorting(h)
  BY DEF Taking
<1> DEFINE D == DOMAIN g.components
           T == AsSet(g.topo_order)
           R == AsSet(g.ready)
           New == {i \in g.edges[c] : h.indegree[i] = 0}
<1>1. /\ D = 1..Len(g.components) /\ Len(g.components) \in Nat /\ D \subseteq Nat /\ IsFiniteSet(D)
  <2>1. D = 1..Len(g.components) /\ Len(g.components) \in Nat
    BY SeqFacts
  <2>2. IsFiniteSet(D)
    BY <2>1, FS_Interval
  <2>3. D \subseteq Nat
    BY <2>1
  <2> QED
    BY <2>1, <2>2, <2>3
<1>2. g.topo_order \in Seq(D) /\ g.ready \in Seq(D) /\ c \in D /\ T \subseteq D /\ R \subseteq D
  BY SeqFacts DEF Sorting
<1>3. Before(g, c) = {} /\ c \notin T
  BY <1>2 DEF Sorting
<1>4. AsSet(h.topo_order) = T \cup {c}
  BY <1>2, AsSetAppend
<1>5. \A i \in D : Before(h, i) = Before(g, i) \ {c}
  BY <1>4 DEF Before
<1>6. \A i \in D : c \in Before(g, i) <=> i \in g.edges[c]
  BY <1>2, <1>3 DEF Before
<1>7. g.indegree = [i \in D |-> Cardinality(Before(g, i))]
  BY DEF Sorting
<1>8. h.indegree = [i \in D |-> Cardinality(Before(h, i))]
  <2>1. ASSUME NEW i \in D
        PROVE  Cardinality(Before(h, i)) =
                  IF i \in g.edges[c] THEN g.indegree[i] - 1 ELSE g.indegree[i]
    <3>1. IsFiniteSet(Before(g, i)) /\ g.indegree[i] = Cardinality(Before(g, i))
      BY <1>7, BeforeFinite
    <3>2. Cardinality(Before(g, i) \ {c}) =
             IF c \in Before(g, i) THEN Cardinality(Before(g, i)) - 1 ELSE Cardinality(Before(g, i))
      BY <3>1, FS_RemoveElement
    <3> QED
      BY <1>5, <1>6, <3>1, <3>2
  <2>2. h.indegree = [i \in D |-> IF i \in g.edges[c] THEN g.indegree[i] - 1 ELSE g.indegree[i]]
    BY <1>7
  <2> HIDE DEF D
  <2> QED
    BY <2>1, <2>2
<1>9. \A i \in D : Cardinality(Before(h, i)) = 0 <=> Before(h, i) = {}
  BY BeforeFinite
<1>10. New = {i \in g.edges[c] : Before(h, i) = {}} /\ New \in SUBSET D
  <2>1. g.edges[c] \subseteq D
    BY <1>2
  <2> HIDE DEF D
  <2> QED
    BY <1>8, <1>9, <2>1, ZenonT(40)
<1>11. InOrder(New) \in Seq(New) /\ AsSet(InOrder(New)) = New /\ Distinct(InOrder(New))
  <2>1. IsFiniteSet(New) /\ New \in SUBSET Nat
    BY <1>1, <1>10, FS_Subset
  <2> HIDE DEF New
  <2> QED
    BY <2>1, Sorted
<1>12. InOrder(New) \in Seq(D)
  <2> HIDE DEF New, D
  <2> QED
    BY <1>10, <1>11, SeqFacts, SeqNarrow
<1> HIDE DEF New
<1>13. New \cap (T \cup R) = {}
  BY <1>2, <1>6, <1>10 DEF Sorting
<1>14. /\ h.ready \in Seq(D) /\ AsSet(h.ready) = (R \ {c}) \cup New /\ Distinct(h.ready)
  <2>1. h.ready = rest \o InOrder(New)
    BY DEF New
  <2>2. AsSet(rest) \cap AsSet(InOrder(New)) = {}
    BY <1>11, <1>13
  <2> HIDE DEF D, T, R
  <2>3. rest \in Seq(D) /\ AsSet(rest) = R \ {c}
    BY DEF D, R
  <2>4. rest \o InOrder(New) \in Seq(D)
    BY <1>12, <2>3, Concatenated
  <2>5. AsSet(rest \o InOrder(New)) = AsSet(rest) \cup AsSet(InOrder(New))
        /\ Distinct(rest \o InOrder(New))
    BY <1>11, <1>12, <2>2, <2>3, ConcatenatedSets
  <2> QED
    BY <1>11, <2>1, <2>3, <2>4, <2>5
<1>15. /\ Len(g.topo_order) \in Nat
       /\ \A k : k \in DOMAIN h.topo_order <=> k \in DOMAIN g.topo_order \/ k = Len(g.topo_order) + 1
       /\ \A k \in DOMAIN g.topo_order : k < Len(g.topo_order) + 1 /\ h.topo_order[k] = g.topo_order[k]
       /\ h.topo_order[Len(g.topo_order) + 1] = c /\ h.topo_order \in Seq(D)
  <2> DEFINE s == g.topo_order
  <2>1. s \in Seq(D) /\ c \in D /\ h.topo_order = Append(s, c)
    BY <1>2
  <2> HIDE DEF s, D
  <2>2. /\ Len(s) \in Nat /\ DOMAIN s = 1..Len(s)
        /\ Len(Append(s, c)) = Len(s) + 1 /\ DOMAIN Append(s, c) = 1..(Len(s) + 1)
        /\ \A i \in DOMAIN s : Append(s, c)[i] = s[i]
        /\ Append(s, c)[Len(s) + 1] = c
    BY <2>1, Appended
  <2>3. Append(s, c) \in Seq(D)
    BY <2>1
  <2>4. /\ \A k : k \in 1..(Len(s) + 1) <=> k \in 1..Len(s) \/ k = Len(s) + 1
        /\ \A k \in 1..Len(s) : k < Len(s) + 1
    BY <2>2
  <2> QED
    BY <2>1, <2>2, <2>3, <2>4 DEF s
<1> DEFINE n == Len(g.topo_order) + 1
<1> HIDE DEF n
<1>16. /\ \A k : k \in DOMAIN h.topo_order <=> k \in DOMAIN g.topo_order \/ k = n
       /\ \A k \in DOMAIN g.topo_order : k < n /\ h.topo_order[k] = g.topo_order[k]
       /\ h.topo_order[n] = c /\ n \in DOMAIN h.topo_order
  BY <1>15 DEF n
<1>17. Distinct(h.topo_order)
  <2>1. \A k \in DOMAIN g.topo_order : g.topo_order[k] # c
    BY <1>3 DEF AsSet
  <2>2. Distinct(g.topo_order)
    BY DEF Sorting
  <2> QED
    BY <1>16, <2>1, <2>2 DEF Distinct
<1>18. AsSet(h.topo_order) \cap AsSet(h.ready) = {}
  <2>1. c \notin New
    BY <1>10
  <2>2. T \cap R = {}
    BY DEF Sorting
  <2> QED
    BY <1>4, <1>13, <1>14, <2>1, <2>2
<1>19. ASSUME NEW i \in D
       PROVE  i \in AsSet(h.topo_order) \/ i \in AsSet(h.ready) <=> Before(h, i) = {}
  <2>1. i \in T \/ i \in R <=> Before(g, i) = {}
    BY DEF Sorting
  <2>2. CASE i \in g.edges[c]
    <3>1. i \notin T /\ i \notin R
      BY <1>6, <2>1, <2>2
    <3>2. i # c
      BY <2>2
    <3> QED
      BY <1>4, <1>10, <1>14, <2>2, <3>1, <3>2
  <2>3. CASE i \notin g.edges[c]
    <3>1. i \notin New
      BY <1>10, <2>3
    <3>2. c \notin Before(g, i)
      BY <1>6, <2>3
    <3>3. Before(h, i) = Before(g, i)
      BY <1>5, <3>2, ZenonT(40)
    <3> QED
      BY <1>4, <1>14, <2>1, <3>1, <3>3
  <2> QED
    BY <2>2, <2>3
<1>20. ASSUME NEW q \in DOMAIN h.topo_order, NEW j \in D, h.topo_order[q] \in g.edges[j]
       PROVE  \E p \in DOMAIN h.topo_order : p < q /\ h.topo_order[p] = j
  <2>1. CASE q \in DOMAIN g.topo_order
    <3>2. g.topo_order[q] \in g.edges[j]
      BY <1>16, <1>20, <2>1
    <3>1. PICK p \in DOMAIN g.topo_order : p < q /\ g.topo_order[p] = j
      BY <2>1, <3>2 DEF Sorting
    <3> QED
      BY <1>16, <3>1
  <2>2. CASE q = n
    <3>1. j \in T
      BY <1>3, <1>16, <1>20, <2>2 DEF Before
    <3>2. PICK p \in DOMAIN g.topo_order : g.topo_order[p] = j
      BY <3>1 DEF AsSet
    <3> QED
      BY <1>16, <2>2, <3>2
  <2> QED
    BY <1>16, <2>1, <2>2
<1> QED
  BY <1>8, <1>14, <1>15, <1>17, <1>18, <1>19, <1>20, ZenonT(40) DEF Sorting

LEMMA TailFacts ==
    ASSUME NEW S, NEW s \in Seq(S), s # <<>>
    PROVE  /\ Head(s) \in AsSet(s) /\ Tail(s) \in Seq(S)
           /\ AsSet(Tail(s)) \subseteq AsSet(s)
           /\ AsSet(s) \subseteq AsSet(Tail(s)) \cup {Head(s)}
           /\ Distinct(s) => Distinct(Tail(s)) /\ AsSet(Tail(s)) = AsSet(s) \ {Head(s)}
<1>1. /\ Tail(s) \in Seq(S) /\ Head(s) = s[1] /\ 1 \in DOMAIN s
      /\ Len(s) \in Nat /\ Len(s) >= 1 /\ DOMAIN s = 1..Len(s)
      /\ DOMAIN Tail(s) = 1..(Len(s) - 1)
      /\ \A i \in 1..(Len(s) - 1) : Tail(s)[i] = s[i + 1]
  OBVIOUS
<1>2. \A i \in 1..(Len(s) - 1) : i + 1 \in 1..Len(s) /\ i + 1 # 1
  BY <1>1
<1>3. \A i \in 1..Len(s) : i # 1 => i - 1 \in 1..(Len(s) - 1) /\ i - 1 + 1 = i
  BY <1>1
<1>4. AsSet(Tail(s)) \subseteq AsSet(s)
  BY <1>1, <1>2 DEF AsSet
<1>5. AsSet(s) \subseteq AsSet(Tail(s)) \cup {Head(s)}
  <2> SUFFICES ASSUME NEW i \in DOMAIN s PROVE s[i] \in AsSet(Tail(s)) \cup {Head(s)}
    BY DEF AsSet
  <2>1. CASE i = 1
    BY <1>1, <2>1
  <2>2. CASE i # 1
    <3>1. i - 1 \in DOMAIN Tail(s) /\ Tail(s)[i - 1] = s[i]
      BY <1>1, <1>3, <2>2
    <3> QED
      BY <3>1 DEF AsSet
  <2> QED
    BY <2>1, <2>2
<1>6. ASSUME Distinct(s) PROVE Distinct(Tail(s)) /\ Head(s) \notin AsSet(Tail(s))
  <2>1. \A i, j \in 1..(Len(s) - 1) : i # j => i + 1 # j + 1
    BY <1>1
  <2>2. Distinct(Tail(s))
    BY <1>1, <1>2, <1>6, <2>1 DEF Distinct
  <2>3. \A i \in 1..(Len(s) - 1) : Tail(s)[i] # Head(s)
    BY <1>1, <1>2, <1>6 DEF Distinct
  <2> QED
    BY <1>1, <2>2, <2>3 DEF AsSet
<1>7. Head(s) \in AsSet(s)
  BY <1>1 DEF AsSet
<1> QED
  BY <1>1, <1>4, <1>5, <1>6, <1>7

-----------------------------------------------------------------------------
(* The actions of SccGraph::new *)

LEMMA SourceFacts ==
    ASSUME prog \in Programs
    PROVE  /\ prog.succ \in Seq(Seq(Nat)) /\ prog.body \in Seq(Seq({"safepoint", "other"}))
           /\ SourceBlocks = 1..Len(prog.succ) /\ Len(prog.succ) \in Nat
           /\ Entry \in SourceBlocks /\ IsFiniteSet(SourceBlocks)
           /\ DOMAIN prog.body = SourceBlocks /\ N \in Nat \ {0}
           /\ \A b \in SourceBlocks : /\ prog.succ[b] \in Seq(Nat)
                                      /\ AsSet(prog.succ[b]) \subseteq SourceBlocks \ {Entry}
           /\ SourceEdges = EdgesIn(SourceBlocks)
<1>1. /\ prog.succ \in Seq(Seq(Nat)) /\ prog.body \in Seq(Seq({"safepoint", "other"}))
      /\ prog.succ # <<>> /\ Len(prog.body) = Len(prog.succ) /\ N \in Nat \ {0}
      /\ \A b \in DOMAIN prog.succ : \A i \in DOMAIN prog.succ[b] :
            prog.succ[b][i] \in DOMAIN prog.succ \ {Entry}
  BY ProgramsAssumption DEF N
<1>2. /\ DOMAIN prog.succ = 1..Len(prog.succ) /\ Len(prog.succ) \in Nat /\ Len(prog.succ) >= 1
      /\ \A b \in DOMAIN prog.succ : prog.succ[b] \in Seq(Nat)
  BY <1>1, SeqFacts
<1>3. DOMAIN prog.body = DOMAIN prog.succ
  BY <1>1, <1>2, SeqFacts
<1>4. IsFiniteSet(SourceBlocks)
  BY <1>2, FS_Interval DEF SourceBlocks
<1>5. Entry \in SourceBlocks
  BY <1>2 DEF SourceBlocks, Entry
<1>6. \A b \in SourceBlocks : AsSet(prog.succ[b]) \subseteq SourceBlocks \ {Entry}
  BY <1>1 DEF SourceBlocks, AsSet
<1>7. SourceEdges = EdgesIn(SourceBlocks)
  BY <1>6 DEF SourceEdges, EdgesIn
<1> QED
  BY <1>1, <1>2, <1>3, <1>4, <1>5, <1>6, <1>7 DEF SourceBlocks

\* The graph of the components while it is being sorted.
GraphRight ==
    /\ IsGraph(graph) /\ Partition(graph.components, SourceBlocks, SourceEdges)
    /\ GraphBuilt(graph, SourceEdges) /\ Sorting(graph)

LEMMA ComponentOfRight ==
    ASSUME NEW cs, NEW A, NEW E, Partition(cs, A, E), NEW i \in DOMAIN cs, NEW b \in AsSet(cs[i])
    PROVE  ComponentOf(cs, b) = i
<1>1. \A j \in DOMAIN cs : b \in AsSet(cs[j]) => j = i
  BY DEF Partition, ComponentsFound
<1> QED
  BY <1>1 DEF ComponentOf

LEMMA IsCyclicRight ==
    ASSUME succ = prog.succ, NEW A \in SUBSET SourceBlocks, NEW s \in Seq(A), s # <<>>
    PROVE  component_is_cyclic(s) <=> Cyclic(s, EdgesIn(A))
<1>1. s[1] \in A /\ s[1] \in SourceBlocks
  BY SeqFacts
<1>2. s[1] \in AsSet(succ[s[1]]) <=> <<s[1], s[1]>> \in EdgesIn(A)
  BY <1>1 DEF EdgesIn
<1> QED
  BY <1>2 DEF component_is_cyclic, Cyclic

LEMMA SccGraphNewStep ==
    ASSUME succ = prog.succ, prog \in Programs, TarjanRight, tarjan.allowed = SourceBlocks,
           SccGraphNew
    PROVE  GraphRight'
<1> DEFINE cs == tarjan.components
           E == SourceEdges
           D == DOMAIN cs
           g == graph'
           edges == [i \in D |->
                       {ComponentOf(cs, c) : c \in UNION {AsSet(succ[b]) : b \in AsSet(cs[i])}}
                       \ {i}]
           indegree == [i \in D |-> Cardinality({j \in D : i \in edges[j]})]
           First == {i \in D : indegree[i] = 0}
<1>1. Partition(cs, SourceBlocks, E) /\ E = EdgesIn(SourceBlocks)
  BY SourceFacts, TarjanEnds DEF SccGraphNew
<1>2. g = [components |-> cs, edges |-> edges, indegree |-> indegree,
           ready |-> InOrder(First), topo_order |-> <<>>,
           is_cyclic |-> {i \in D : component_is_cyclic(cs[i])}]
  BY DEF SccGraphNew
<1>3. /\ g.components = cs /\ g.edges = edges /\ g.indegree = indegree
      /\ g.ready = InOrder(First) /\ g.topo_order = <<>>
      /\ g.is_cyclic = {i \in D : component_is_cyclic(cs[i])} /\ IsGraph(g)
  BY <1>2 DEF IsGraph
<1>4. cs \in Seq(Seq(SourceBlocks)) /\ D = 1..Len(cs) /\ Len(cs) \in Nat
      /\ \A i \in D : cs[i] \in Seq(SourceBlocks) /\ AsSet(cs[i]) \subseteq SourceBlocks
  <2>1. cs \in Seq(Seq(SourceBlocks))
    BY <1>1 DEF Partition
  <2>2. D = 1..Len(cs) /\ Len(cs) \in Nat /\ \A i \in D : cs[i] \in Seq(SourceBlocks)
    BY <2>1, SeqFacts
  <2> QED
    BY <2>1, <2>2, SeqFacts
<1> HIDE DEF cs
<1>5. ASSUME NEW i \in D, NEW j \in D
      PROVE  j \in edges[i] <=>
                i # j /\ \E b \in AsSet(cs[i]), c \in AsSet(cs[j]) : <<b, c>> \in E
  <2>1. ASSUME NEW b \in AsSet(cs[i]), NEW c \in AsSet(cs[j]), <<b, c>> \in E, i # j
        PROVE  j \in edges[i]
    <3>1. c \in AsSet(succ[b])
      BY <1>1, <2>1 DEF EdgesIn
    <3>2. ComponentOf(cs, c) = j
      BY <1>1, ComponentOfRight
    <3> QED
      BY <2>1, <3>1, <3>2
  <2>2. ASSUME j \in edges[i]
        PROVE  i # j /\ \E b \in AsSet(cs[i]), c \in AsSet(cs[j]) : <<b, c>> \in E
    <3>1. PICK b \in AsSet(cs[i]) : \E c \in AsSet(succ[b]) : j = ComponentOf(cs, c)
      BY <2>2
    <3>2. PICK c \in AsSet(succ[b]) : j = ComponentOf(cs, c)
      BY <3>1
    <3>3. b \in SourceBlocks /\ c \in SourceBlocks /\ <<b, c>> \in E
      BY <1>1, <1>4, SourceFacts DEF EdgesIn
    <3>4. PICK k \in D : c \in AsSet(cs[k])
      BY <1>1, <3>3 DEF Partition
    <3>5. k = j
      BY <1>1, <3>2, <3>4, ComponentOfRight
    <3> QED
      BY <2>2, <3>3, <3>4, <3>5
  <2> QED
    BY <2>1, <2>2
<1>6. edges \in [D -> SUBSET D]
  <2> SUFFICES ASSUME NEW i \in D, NEW b \in AsSet(cs[i]), NEW c \in AsSet(succ[b])
               PROVE  ComponentOf(cs, c) \in D
    OBVIOUS
  <2>1. c \in SourceBlocks
    BY <1>4, SourceFacts
  <2>2. PICK k \in D : c \in AsSet(cs[k])
    BY <1>1, <2>1 DEF Partition
  <2> QED
    BY <1>1, <2>2, ComponentOfRight
<1> HIDE DEF edges
<1>7. g.is_cyclic = {i \in D : Cyclic(cs[i], E)}
  <2>1. ASSUME NEW i \in D PROVE component_is_cyclic(cs[i]) <=> Cyclic(cs[i], E)
    <3>1. cs[i] # <<>> /\ cs[i] \in Seq(SourceBlocks)
      BY <1>1, <1>4 DEF Partition, ComponentsFound
    <3> QED
      BY <1>1, <3>1, IsCyclicRight
  <2> QED
    BY <1>3, <2>1
<1>8. GraphBuilt(g, E)
  BY <1>3, <1>5, <1>6, <1>7, ZenonT(40) DEF GraphBuilt
<1>9. AsSet(g.topo_order) = {} /\ DOMAIN g.topo_order = {}
  BY <1>3 DEF AsSet
<1>10. \A i \in D : Before(g, i) = {j \in D : i \in edges[j]}
  BY <1>3, <1>9 DEF Before
<1>11. g.indegree = [i \in D |-> Cardinality(Before(g, i))]
  BY <1>3, <1>10
<1>12. First = {i \in D : Before(g, i) = {}}
  <2>1. \A i \in D : Cardinality(Before(g, i)) = 0 <=> Before(g, i) = {}
    BY <1>3, <1>4, BeforeFinite
  <2> QED
    BY <1>3, <1>11, <2>1
<1>13. InOrder(First) \in Seq(D) /\ AsSet(InOrder(First)) = First /\ Distinct(InOrder(First))
  <2>1. First \in SUBSET D /\ D \in SUBSET Nat
    BY <1>4
  <2>2. IsFiniteSet(D)
    BY <1>4, FS_Interval
  <2> HIDE DEF First, D
  <2>3. IsFiniteSet(First) /\ First \in SUBSET Nat
    BY <2>1, <2>2, FS_Subset
  <2>4. InOrder(First) \in Seq(First) /\ AsSet(InOrder(First)) = First /\ Distinct(InOrder(First))
    BY <2>3, Sorted
  <2>5. InOrder(First) \in Seq(D)
    BY <2>1, <2>4, SeqFacts, SeqNarrow
  <2> QED
    BY <2>4, <2>5
<1> HIDE DEF First, indegree, g, D
<1>14. Sorting(g)
  <2>1. g.topo_order \in Seq(D) /\ Distinct(g.topo_order)
    BY <1>3, <1>9 DEF Distinct
  <2> QED
    BY <1>3, <1>9, <1>11, <1>12, <1>13, <2>1 DEF Sorting, D
<1>15. SourceEdges' = SourceEdges /\ SourceBlocks' = SourceBlocks
  BY DEF SccGraphNew, SourceEdges, SourceBlocks
<1> QED
  BY <1>1, <1>3, <1>8, <1>14, <1>15 DEF GraphRight, g

LEMMA TopoStepStep ==
    ASSUME GraphRight, TopoStep
    PROVE  GraphRight'
<1> DEFINE g == graph
           h == graph'
           c == Head(g.ready)
           D == DOMAIN g.components
           indegree == [i \in DOMAIN g.indegree |->
                          IF i \in g.edges[c] THEN g.indegree[i] - 1 ELSE g.indegree[i]]
           new == InOrder({i \in g.edges[c] : indegree[i] = 0})
<1>1. /\ IsGraph(g) /\ Partition(g.components, SourceBlocks, SourceEdges)
      /\ GraphBuilt(g, SourceEdges) /\ Sorting(g) /\ g.ready # <<>>
  BY DEF GraphRight, TopoStep
<1>2. h = [g EXCEPT !.indegree = indegree, !.topo_order = Append(@, c),
                    !.ready = Tail(@) \o new]
  BY DEF TopoStep
<1> HIDE DEF g, h, c
<1>3. /\ IsGraph(h) /\ h.components = g.components /\ h.edges = g.edges
      /\ h.is_cyclic = g.is_cyclic /\ h.topo_order = Append(g.topo_order, c)
      /\ h.indegree = indegree /\ h.ready = Tail(g.ready) \o new
  <2> HIDE DEF new, indegree
  <2> QED
    BY <1>1, <1>2 DEF IsGraph
<1>4. g.ready \in Seq(D) /\ Distinct(g.ready)
  BY <1>1 DEF Sorting
<1>5. /\ c \in AsSet(g.ready) /\ Tail(g.ready) \in Seq(D) /\ Distinct(Tail(g.ready))
      /\ AsSet(Tail(g.ready)) = AsSet(g.ready) \ {c}
  <2> HIDE DEF D
  <2> QED
    BY <1>1, <1>4, TailFacts DEF c
<1>6. c \in D
  <2> HIDE DEF D
  <2> QED
    BY <1>4, <1>5, SeqFacts
<1>7. c \notin g.edges[c] /\ g.edges \in [D -> SUBSET D]
  BY <1>1, <1>6 DEF GraphBuilt
<1>8. g.components \in Seq(Seq(SourceBlocks))
  BY <1>1 DEF Partition
<1>9. Sorting(h)
  <2>1. Taking(g, c, Tail(g.ready), h)
    BY <1>3 DEF Taking
  <2> QED
    BY <1>1, <1>5, <1>7, <1>8, <2>1, SortingStep
<1>10. GraphBuilt(h, SourceEdges)
  BY <1>1, <1>3 DEF GraphBuilt
<1>11. SourceEdges' = SourceEdges /\ SourceBlocks' = SourceBlocks
  BY DEF TopoStep, SourceEdges, SourceBlocks
<1> QED
  BY <1>1, <1>3, <1>9, <1>10, <1>11 DEF GraphRight, h

\* With the ready queue empty every component is in the order: the last one that
\* was not would have one before it that is not either.
LEMMA AllOrdered ==
    ASSUME GraphRight, graph.ready = <<>>
    PROVE  AsSet(graph.topo_order) = DOMAIN graph.components
<1> DEFINE g == graph
           D == DOMAIN g.components
           Out == {i \in D : i \notin AsSet(g.topo_order)}
<1>1. /\ Partition(g.components, SourceBlocks, SourceEdges) /\ GraphBuilt(g, SourceEdges)
      /\ Sorting(g) /\ AsSet(g.ready) = {}
  BY DEF GraphRight, AsSet
<1>2. g.components \in Seq(Seq(SourceBlocks)) /\ g.topo_order \in Seq(D)
  BY <1>1 DEF Partition, Sorting
<1>3. D = 1..Len(g.components) /\ Len(g.components) \in Nat /\ AsSet(g.topo_order) \subseteq D
  BY <1>2, SeqFacts
<1> HIDE DEF g
<1>4. Out = {}
  <2> SUFFICES ASSUME Out # {} PROVE FALSE
    OBVIOUS
  <2>1. Out \in SUBSET Nat /\ \A i \in Out : i <= Len(g.components)
    BY <1>3
  <2>2. PICK i \in Out : \A j \in Out : j <= i
    <3> HIDE DEF Out
    <3> QED
      BY <1>3, <2>1, Greatest
  <2>3. PICK j \in D : j \notin AsSet(g.topo_order) /\ i \in g.edges[j]
    BY <1>1 DEF Sorting, Before
  <2>4. j # i /\ \E b \in AsSet(g.components[j]), c \in AsSet(g.components[i]) :
                    <<b, c>> \in SourceEdges
    BY <1>1, <2>3 DEF GraphBuilt
  <2>5. i <= j
    <3>1. PICK b \in AsSet(g.components[j]), c \in AsSet(g.components[i]) :
             <<b, c>> \in SourceEdges
      BY <2>4
    <3>2. Connected(SourceBlocks, SourceEdges, b, c)
      BY <3>1, ConnectedEdge
    <3> QED
      BY <1>1, <2>3, <3>2, ComponentDown
  <2>6. j <= i
    BY <2>2, <2>3
  <2> QED
    BY <1>3, <2>3, <2>4, <2>5, <2>6
<1> QED
  BY <1>3, <1>4 DEF g

\* Where the order has the component of a block.
RankOf(b) == CHOOSE i \in DOMAIN graph.topo_order :
                b \in AsSet(graph.components[graph.topo_order[i]])

LEMMA RankRight ==
    ASSUME GraphRight, graph.ready = <<>>, NEW b \in SourceBlocks
    PROVE  /\ RankOf(b) \in DOMAIN graph.topo_order
           /\ graph.topo_order[RankOf(b)] \in DOMAIN graph.components
           /\ b \in AsSet(graph.components[graph.topo_order[RankOf(b)]])
<1>1. PICK i \in DOMAIN graph.components : b \in AsSet(graph.components[i])
  BY DEF GraphRight, Partition
<1>2. AsSet(graph.topo_order) = DOMAIN graph.components
  BY AllOrdered
<1>3. PICK p \in DOMAIN graph.topo_order : graph.topo_order[p] = i
  BY <1>2 DEF AsSet
<1>4. /\ RankOf(b) \in DOMAIN graph.topo_order
      /\ b \in AsSet(graph.components[graph.topo_order[RankOf(b)]])
  BY <1>1, <1>3 DEF RankOf
<1>5. graph.topo_order[RankOf(b)] \in AsSet(graph.topo_order)
  BY <1>4 DEF AsSet
<1> QED
  BY <1>2, <1>4, <1>5

LEMMA SourceReach ==
    ASSUME prog \in Programs, IsFiniteSet(Blocks), SourceBlocks \subseteq Blocks,
           NEW b \in SourceBlocks
    PROVE  Reach({b}, SourceEdges) =
              {c \in SourceBlocks : Connected(SourceBlocks, SourceEdges, b, c)}
<1>1. SourceEdges \in SUBSET (SourceBlocks \X SourceBlocks)
  BY SourceFacts DEF EdgesIn
<1> QED
  BY <1>1, ReachConnected

LEMMA OrderRight ==
    ASSUME prog \in Programs, IsFiniteSet(Blocks), SourceBlocks \subseteq Blocks,
           GraphRight, graph.ready = <<>>
    PROVE  ComponentsInOrder
<1> DEFINE cs == graph.components
           V == SourceBlocks
           E == SourceEdges
           topo == graph.topo_order
           reach == [b \in V |-> Reach({b}, E)]
<1>1. /\ Partition(cs, V, E) /\ GraphBuilt(graph, E) /\ Sorting(graph)
  BY DEF GraphRight
<1>2. \A b \in V : /\ RankOf(b) \in DOMAIN topo /\ topo[RankOf(b)] \in DOMAIN cs
                   /\ b \in AsSet(cs[topo[RankOf(b)]])
  BY RankRight
<1>3. \A b, c \in V : c \in reach[b] <=> Connected(V, E, b, c)
  BY SourceReach
<1>4. E \in SUBSET (V \X V) /\ DOMAIN topo \subseteq Nat /\ Distinct(topo)
  <2>1. topo \in Seq(DOMAIN cs) /\ Distinct(topo)
    BY <1>1 DEF Sorting
  <2>2. DOMAIN topo = 1..Len(topo)
    BY <2>1, SeqFacts
  <2> QED
    BY <1>1, <2>1, <2>2 DEF Partition
<1>5. \A b \in V : \E i \in DOMAIN cs : b \in AsSet(cs[i])
  BY <1>2
<1>6. ASSUME NEW b \in V, NEW c \in V
      PROVE  (RankOf(b) = RankOf(c)) <=> (c \in reach[b] /\ b \in reach[c])
  <2>1. RankOf(b) = RankOf(c) <=> topo[RankOf(b)] = topo[RankOf(c)]
    BY <1>2, <1>4 DEF Distinct
  <2>2. topo[RankOf(b)] = topo[RankOf(c)] <=> Connected(V, E, b, c) /\ Connected(V, E, c, b)
    BY <1>1, <1>2, SameComponent
  <2> QED
    BY <1>3, <2>1, <2>2
<1>7. ASSUME NEW e \in E PROVE RankOf(e[1]) <= RankOf(e[2])
  <2> DEFINE p == RankOf(e[1])
             q == RankOf(e[2])
  <2>1. e[1] \in V /\ e[2] \in V /\ e = <<e[1], e[2]>>
    BY <1>4
  <2>2. p \in DOMAIN topo /\ q \in DOMAIN topo /\ p \in Nat /\ q \in Nat
    BY <1>2, <1>4, <2>1
  <2>5. topo[p] \in DOMAIN cs /\ topo[q] \in DOMAIN cs
        /\ e[1] \in AsSet(cs[topo[p]]) /\ e[2] \in AsSet(cs[topo[q]])
    BY <1>2, <2>1
  <2> HIDE DEF p, q
  <2>3. CASE topo[p] = topo[q]
    <3>1. p = q
      BY <1>4, <2>2, <2>3 DEF Distinct
    <3> QED
      BY <2>2, <3>1 DEF p, q
  <2>4. CASE topo[p] # topo[q]
    <3>4. <<e[1], e[2]>> \in E
      BY <2>1
    <3>1. topo[q] \in graph.edges[topo[p]] /\ topo[p] \in DOMAIN cs
      <4>1. \A i, j \in DOMAIN cs :
               i # j /\ (\E b \in AsSet(cs[i]), c \in AsSet(cs[j]) : <<b, c>> \in E)
               => j \in graph.edges[i]
        BY <1>1 DEF GraphBuilt
      <4>2. \E b \in AsSet(cs[topo[p]]), c \in AsSet(cs[topo[q]]) : <<b, c>> \in E
        BY <2>5, <3>4
      <4> HIDE DEF cs, topo, E
      <4> QED
        BY <2>4, <2>5, <4>1, <4>2
    <3>2. PICK r \in DOMAIN topo : r < q /\ topo[r] = topo[p]
      BY <1>1, <2>2, <3>1 DEF Sorting
    <3>3. r = p
      BY <1>4, <2>2, <3>2 DEF Distinct
    <3> QED
      BY <2>2, <3>2, <3>3 DEF p, q
  <2> QED
    BY <2>3, <2>4
<1>8. ASSUME NEW b \in V
      PROVE  (topo[RankOf(b)] \in graph.is_cyclic) <=> \E e \in E : e[1] = b /\ b \in reach[e[2]]
  <2>1. topo[RankOf(b)] \in graph.is_cyclic <=> Cyclic(cs[topo[RankOf(b)]], E)
    BY <1>1, <1>2 DEF GraphBuilt
  <2>2. Cyclic(cs[topo[RankOf(b)]], E) <=> \E e \in E : e[1] = b /\ Connected(V, E, e[2], b)
    BY <1>1, <1>2, CyclicComponent
  <2>3. \A e \in E : b \in reach[e[2]] <=> Connected(V, E, e[2], b)
    BY <1>3, <1>4
  <2> QED
    BY <2>1, <2>2, <2>3
<1> HIDE DEF V, E, topo, cs, reach
<1>9. /\ \A b \in V : \E i \in DOMAIN cs : b \in AsSet(cs[i])
      /\ \A b, c \in V : (RankOf(b) = RankOf(c)) <=> (c \in reach[b] /\ b \in reach[c])
      /\ \A e \in E : RankOf(e[1]) <= RankOf(e[2])
      /\ \A b \in V : (topo[RankOf(b)] \in graph.is_cyclic)
                        <=> \E e \in E : e[1] = b /\ b \in reach[e[2]]
  BY <1>5, <1>6, <1>7, <1>8
<1> QED
  BY <1>9 DEF ComponentsInOrder, RankOf, V, E, topo, cs, reach

-----------------------------------------------------------------------------
(* The invariant of the analyses *)

FreeBlocks == {b \in SourceBlocks : \A i \in DOMAIN prog.body[b] : prog.body[b][i] # "safepoint"}

\* A cycle through blocks none of which has a safepoint.
FreeCycle ==
    \E e \in EdgesIn(FreeBlocks) : Connected(FreeBlocks, EdgesIn(FreeBlocks), e[2], e[1])

SourceStatements == [b \in DOMAIN prog.succ |-> [i \in DOMAIN prog.body[b] |-> <<b, i>>]]

AnalysisInv ==
    /\ prog \in Programs
    /\ (\E S : succ \in Seq(S)) /\ Len(prog.succ) <= Len(succ)
    /\ pc \in {"validate", "scc", "order"} => succ = prog.succ /\ stmts = SourceStatements
    /\ pc = "validate" => tarjan.allowed = FreeBlocks
    /\ pc = "scc" => tarjan.allowed = SourceBlocks
    /\ pc \in {"validate", "scc"} => TarjanRight
    /\ pc = "panic" => FreeCycle
    /\ pc \notin {"validate", "panic"} => ~FreeCycle
    /\ pc \in {"order", "drain", "compensate", "blocks", "sort", "done"} => GraphRight
    /\ pc \in {"drain", "compensate", "blocks", "sort", "done"} => graph.ready = <<>>

\* PanicsOnFreeCycleOnly says what the invariant says of FreeCycle.
LEMMA FreeCycleReach ==
    ASSUME prog \in Programs, IsFiniteSet(Blocks), SourceBlocks \subseteq Blocks
    PROVE  PanicsOnFreeCycleOnly <=>
              (pc = "panic" => FreeCycle) /\ (pc \notin {"validate", "panic"} => ~FreeCycle)
<1> DEFINE F == FreeBlocks
           E == EdgesIn(F)
<1>1. {e \in SourceEdges : e[1] \in F /\ e[2] \in F} = E
  <2>1. SourceEdges = EdgesIn(SourceBlocks) /\ F \subseteq SourceBlocks
    BY SourceFacts DEF FreeBlocks
  <2> HIDE DEF F
  <2> QED
    BY <2>1 DEF EdgesIn
<1>2. E \in SUBSET (F \X F) /\ F \in SUBSET Blocks
  BY DEF EdgesIn, FreeBlocks
<1> HIDE DEF F, E
<1>3. \A x \in F : Reach({x}, E) = {y \in F : Connected(F, E, x, y)}
  BY <1>2, ReachConnected
<1>4. (\E e \in E : e[1] \in Reach({e[2]}, E)) <=> \E e \in E : Connected(F, E, e[2], e[1])
  BY <1>2, <1>3
<1>5. PanicsOnFreeCycleOnly <=>
         /\ pc = "panic" => \E e \in E : e[1] \in Reach({e[2]}, E)
         /\ pc \notin {"validate", "panic"} => ~ \E e \in E : e[1] \in Reach({e[2]}, E)
  BY <1>1, Zenon DEF PanicsOnFreeCycleOnly, F, FreeBlocks
<1>6. FreeCycle <=> \E e \in E : Connected(F, E, e[2], e[1])
  BY DEF FreeCycle, F, E
<1> QED
  BY <1>4, <1>5, <1>6

LEMMA BlocksKept ==
    ASSUME NEW S, succ \in Seq(S), prog.succ \in Seq(Seq(Nat)), Len(prog.succ) <= Len(succ)
    PROVE  IsFiniteSet(Blocks) /\ SourceBlocks \subseteq Blocks
<1>1. /\ DOMAIN succ = 1..Len(succ) /\ Len(succ) \in Nat
      /\ DOMAIN prog.succ = 1..Len(prog.succ) /\ Len(prog.succ) \in Nat
  BY SeqFacts
<1>2. IsFiniteSet(1..Len(succ))
  BY <1>1, FS_Interval
<1> QED
  BY <1>1, <1>2 DEF Blocks, SourceBlocks

LEMMA AnalysisAnswers ==
    ASSUME AnalysisInv
    PROVE  AnalysesRight
<1>1. prog.succ \in Seq(Seq(Nat)) /\ prog \in Programs
  BY SourceFacts DEF AnalysisInv
<1>2. IsFiniteSet(Blocks) /\ SourceBlocks \subseteq Blocks
  BY <1>1, BlocksKept DEF AnalysisInv
<1>3. PanicsOnFreeCycleOnly
  BY <1>1, <1>2, FreeCycleReach DEF AnalysisInv
<1>4. pc = "drain" => ComponentsInOrder
  BY <1>1, <1>2, OrderRight DEF AnalysisInv
<1>5. pc # "drain" => ComponentsInOrder
  BY DEF ComponentsInOrder
<1> QED
  BY <1>3, <1>4, <1>5 DEF AnalysesRight

\* The blocks that Tarjan's algorithm is run on first are the free ones.
LEMMA FreeAllowed ==
    ASSUME prog \in Programs, succ = prog.succ, stmts = SourceStatements
    PROVE  {b \in Blocks : ~block_has_safepoint(b)} = FreeBlocks
<1>1. DOMAIN prog.body = SourceBlocks /\ Blocks = SourceBlocks
  BY SourceFacts DEF Blocks, SourceBlocks
<1>2. ASSUME NEW b \in SourceBlocks
      PROVE  block_has_safepoint(b) <=> \E i \in DOMAIN prog.body[b] : prog.body[b][i] = "safepoint"
  <2>1. stmts[b] = [i \in DOMAIN prog.body[b] |-> <<b, i>>]
    BY <1>2 DEF SourceStatements, SourceBlocks
  <2>2. \A i \in DOMAIN prog.body[b] : stmts[b][i][1] = b /\ stmts[b][i][2] = i
    BY <2>1
  <2>3. DOMAIN stmts[b] = DOMAIN prog.body[b]
    BY <2>1
  <2> QED
    BY <2>2, <2>3 DEF block_has_safepoint, IsSafepoint
<1> QED
  BY <1>1, <1>2 DEF FreeBlocks

LEMMA AnalysisInit ==
    ASSUME Init
    PROVE  AnalysisInv
<1>1. prog \in Programs /\ succ = prog.succ /\ stmts = SourceStatements /\ pc = "validate" /\ leave = 0
  BY DEF Init, SourceStatements
<1>2. prog.succ \in Seq(Seq(Nat)) /\ Len(prog.succ) \in Nat
  BY <1>1, SourceFacts
<1>3. tarjan = strongly_connected_components(FreeBlocks) /\ FreeBlocks \in SUBSET Blocks
  BY <1>1, FreeAllowed DEF Init, FreeBlocks, SourceBlocks, Blocks
<1>4. TarjanRight /\ tarjan.allowed = FreeBlocks
  BY <1>1, <1>2, <1>3, TarjanStarts DEF TarjanRight
<1>5. Len(prog.succ) <= Len(succ)
  BY <1>1, <1>2
<1> QED
  BY <1>1, <1>2, <1>4, <1>5 DEF AnalysisInv

LEMMA TarjanActions ==
    ASSUME AnalysisInv, TarjanRun \/ TarjanVisit \/ TarjanReturn
    PROVE  AnalysisInv'
<1>1. /\ pc \in {"validate", "scc"} /\ succ = prog.succ /\ prog \in Programs /\ TarjanRight
  BY DEF AnalysisInv, TarjanRun, TarjanVisit, TarjanReturn, Analysing
<1>2. /\ prog' = prog /\ pc' = pc /\ stmts' = stmts /\ succ' = succ /\ leave' = leave
  BY DEF TarjanRun, TarjanVisit, TarjanReturn, ir
<1>3. IsTarjan(tarjan') /\ tarjan'.allowed = tarjan.allowed
      /\ TarjanInv(tarjan', Blocks, EdgesIn(tarjan.allowed))
  BY <1>1, TarjanRunStep, TarjanVisitStep, TarjanReturnStep
<1>5. Blocks' = Blocks /\ FreeBlocks' = FreeBlocks /\ SourceBlocks' = SourceBlocks
      /\ SourceStatements' = SourceStatements
  BY <1>2 DEF Blocks, FreeBlocks, SourceBlocks, SourceStatements
<1>6. TarjanRight'
  <2>1. EdgesIn(tarjan.allowed)' = EdgesIn(tarjan.allowed)
    BY <1>2, <1>3 DEF EdgesIn
  <2> QED
    BY <1>3, <1>5, <2>1 DEF TarjanRight
<1>7. FreeCycle' = FreeCycle
  BY <1>2, <1>5 DEF FreeCycle, EdgesIn
<1> QED
  BY <1>1, <1>2, <1>3, <1>5, <1>6, <1>7 DEF AnalysisInv

LEMMA ValidateAction ==
    ASSUME AnalysisInv, AssertCyclesHaveSafepoints
    PROVE  AnalysisInv'
<1> DEFINE F == FreeBlocks
           E == EdgesIn(F)
           cs == tarjan.components
<1>1. /\ pc = "validate" /\ TarjanDone /\ succ = prog.succ /\ prog \in Programs /\ TarjanRight
      /\ tarjan.allowed = F
  BY DEF AnalysisInv, AssertCyclesHaveSafepoints
<1>2. /\ prog' = prog /\ stmts' = stmts /\ succ' = succ /\ leave' = leave
  BY DEF AssertCyclesHaveSafepoints, ir
<1>3. Partition(cs, F, E)
  BY <1>1, TarjanEnds
<1>4. F \in SUBSET SourceBlocks
  BY DEF FreeBlocks
<1> HIDE DEF F
<1>5. ASSUME NEW i \in DOMAIN cs
      PROVE  /\ component_is_cyclic(cs[i]) <=> Cyclic(cs[i], E)
             /\ \E b : b \in AsSet(cs[i])
  <2>1. cs \in Seq(Seq(F)) /\ cs[i] # <<>>
    BY <1>3 DEF Partition, ComponentsFound
  <2>2. cs[i] \in Seq(F)
    BY <2>1, SeqFacts
  <2>3. Len(cs[i]) \in DOMAIN cs[i]
    BY <2>1, <2>2, SeqFacts
  <2> QED
    BY <1>1, <1>4, <2>1, <2>2, <2>3, IsCyclicRight DEF AsSet
<1>6. (\E i \in DOMAIN cs : component_is_cyclic(cs[i])) <=> FreeCycle
  <2>1. ASSUME NEW i \in DOMAIN cs, component_is_cyclic(cs[i])
        PROVE  FreeCycle
    <3>1. PICK b : b \in AsSet(cs[i])
      BY <1>5
    <3>2. PICK e \in E : e[1] = b /\ Connected(F, E, e[2], b)
      BY <1>3, <1>5, <2>1, <3>1, CyclicComponent
    <3> QED
      BY <3>2 DEF FreeCycle, F
  <2>2. ASSUME NEW e \in E, Connected(F, E, e[2], e[1])
        PROVE  \E i \in DOMAIN cs : component_is_cyclic(cs[i])
    <3>1. e[1] \in F
      BY DEF EdgesIn
    <3>2. PICK i \in DOMAIN cs : e[1] \in AsSet(cs[i])
      BY <1>3, <3>1 DEF Partition
    <3>3. Cyclic(cs[i], E)
      BY <1>3, <2>2, <3>2, CyclicComponent
    <3> QED
      BY <1>5, <3>3
  <2> QED
    BY <2>1, <2>2 DEF FreeCycle, F
<1>7. Blocks' = Blocks /\ FreeBlocks' = FreeBlocks /\ SourceBlocks' = SourceBlocks
      /\ SourceStatements' = SourceStatements
  BY <1>2 DEF Blocks, FreeBlocks, SourceBlocks, SourceStatements
<1>8. FreeCycle' = FreeCycle
  BY <1>2, <1>7 DEF FreeCycle, EdgesIn
<1>9. succ \in Seq(Seq(Nat)) /\ Len(prog.succ) <= Len(succ) /\ stmts = SourceStatements
  BY <1>1, SourceFacts DEF AnalysisInv
<1>10. CASE \E i \in DOMAIN cs : component_is_cyclic(cs[i])
  <2>1. pc' = "panic" /\ FreeCycle
    BY <1>6, <1>10 DEF AssertCyclesHaveSafepoints
  <2> QED
    BY <1>1, <1>2, <1>8, <1>9, <2>1 DEF AnalysisInv
<1>11. CASE ~ \E i \in DOMAIN cs : component_is_cyclic(cs[i])
  <2>1. pc' = "scc" /\ ~FreeCycle /\ tarjan' = strongly_connected_components(SourceBlocks)
    BY <1>1, <1>6, <1>11 DEF AssertCyclesHaveSafepoints, Blocks, SourceBlocks
  <2>2. SourceBlocks \in SUBSET Blocks
    BY <1>1 DEF Blocks, SourceBlocks
  <2>3. IsTarjan(tarjan') /\ tarjan'.allowed = SourceBlocks
        /\ TarjanInv(tarjan', Blocks, EdgesIn(SourceBlocks))
    BY <1>9, <2>1, <2>2, TarjanStarts
  <2>5. TarjanRight'
    <3>1. EdgesIn(tarjan.allowed)' = EdgesIn(SourceBlocks)
      BY <1>2, <2>3 DEF EdgesIn
    <3> QED
      BY <1>7, <2>3, <3>1 DEF TarjanRight
  <2> QED
    BY <1>1, <1>2, <1>7, <1>8, <1>9, <2>1, <2>3, <2>5 DEF AnalysisInv
<1> QED
  BY <1>10, <1>11

\* A step that rewrites the representation appends blocks.
LEMMA InsertAppends ==
    ASSUME NEW S, succ \in Seq(S), NEW block, NEW i, insert_halt_check_after(block, i)
    PROVE  (\E T : succ' \in Seq(T)) /\ Len(succ) <= Len(succ')
<1> DEFINE fresh == IF leave = 0 THEN << <<>> >> ELSE <<>>
           x == <<Continuation, LeaveBlock>>
           a == [succ EXCEPT ![block] = x]
           c == <<succ[block]>>
           T == S \cup {x, <<>>, succ[block]}
<1>1. Len(succ) \in Nat
  BY SeqFacts
<1>2. succ \in Seq(T) /\ x \in T /\ succ[block] \in T /\ <<>> \in T
  <2>1. \A k \in DOMAIN succ : succ[k] \in T
    BY SeqFacts
  <2> QED
    BY <2>1, SeqNarrow
<1>3. a \in Seq(T) /\ Len(a) = Len(succ)
  <2> HIDE DEF x, T
  <2>1. CASE block \in DOMAIN succ
    BY <1>2, <2>1, ReplacedAt
  <2>2. CASE block \notin DOMAIN succ
    <3>1. a = [k \in DOMAIN succ |-> succ[k]]
      BY <2>2
    <3>2. a = succ
      BY <1>2, <3>1
    <3> QED
      BY <1>2, <3>2
  <2> QED
    BY <2>1, <2>2
<1>4. c \in Seq(T) /\ fresh \in Seq(T)
  <2> HIDE DEF T
  <2> QED
    BY <1>2
<1>5. succ' = (a \o c) \o fresh
  BY DEF insert_halt_check_after
<1> HIDE DEF a, c, fresh, T
<1>6. a \o c \in Seq(T) /\ Len(a \o c) = Len(a) + Len(c) /\ Len(c) \in Nat
  BY <1>3, <1>4, Concatenated
<1>7. /\ (a \o c) \o fresh \in Seq(T) /\ Len(fresh) \in Nat
      /\ Len((a \o c) \o fresh) = Len(a \o c) + Len(fresh)
  BY <1>4, <1>6, Concatenated
<1> QED
  BY <1>1, <1>3, <1>5, <1>6, <1>7

LEMMA AnalysisNext ==
    ASSUME AnalysisInv, [Next]_vars
    PROVE  AnalysisInv'
<1>1. CASE TarjanRun \/ TarjanVisit \/ TarjanReturn
  BY <1>1, TarjanActions
<1>2. CASE AssertCyclesHaveSafepoints
  BY <1>2, ValidateAction
<1>3. ASSUME prog' = prog PROVE /\ SourceBlocks' = SourceBlocks /\ SourceEdges' = SourceEdges
                               /\ FreeCycle' = FreeCycle /\ SourceStatements' = SourceStatements
                               /\ FreeBlocks' = FreeBlocks
  BY <1>3 DEF SourceBlocks, SourceEdges, FreeCycle, FreeBlocks, EdgesIn, SourceStatements
<1>4. prog \in Programs /\ Len(succ) \in Nat /\ Len(prog.succ) \in Nat /\ \E S : succ \in Seq(S)
  <2>1. prog \in Programs /\ \E S : succ \in Seq(S)
    BY DEF AnalysisInv
  <2>2. Len(succ) \in Nat
    BY <2>1, SeqFacts
  <2> QED
    BY <2>1, <2>2, SourceFacts
<1>5. ASSUME prog' = prog, succ' = succ
      PROVE  (\E S : succ' \in Seq(S)) /\ Len(prog'.succ) <= Len(succ')
  BY <1>4, <1>5 DEF AnalysisInv
<1>6. CASE SccGraphNew
  <2>1. /\ pc = "scc" /\ prog' = prog /\ succ' = succ /\ stmts' = stmts /\ pc' = "order"
    BY <1>6 DEF SccGraphNew, ir
  <2>2. GraphRight'
    BY <1>4, <1>6, <2>1, SccGraphNewStep DEF AnalysisInv
  <2> QED
    BY <1>3, <1>4, <1>5, <2>1, <2>2 DEF AnalysisInv
<1>7. CASE TopoStep
  <2>1. /\ pc = "order" /\ prog' = prog /\ succ' = succ /\ stmts' = stmts /\ pc' = pc
    BY <1>7 DEF TopoStep, ir
  <2>2. GraphRight'
    BY <1>7, <2>1, TopoStepStep DEF AnalysisInv
  <2> QED
    BY <1>3, <1>4, <1>5, <2>1, <2>2 DEF AnalysisInv
<1>8. ASSUME GraphRight, prog' = prog, graph' = graph PROVE GraphRight'
  BY <1>3, <1>8 DEF GraphRight
<1>9. CASE InserterNew
  <2>1. /\ pc = "order" /\ prog' = prog /\ succ' = succ /\ graph' = graph
        /\ graph.ready = <<>> /\ pc' \in {"assert_failed", "drain"}
    BY <1>9 DEF InserterNew, ir
  <2>2. GraphRight'
    BY <1>8, <2>1 DEF AnalysisInv
  <2> QED
    BY <1>3, <1>4, <1>5, <2>1, <2>2 DEF AnalysisInv
<1>10. ASSUME prog' = prog, graph' = graph, (\E S : succ' \in Seq(S)), Len(succ) <= Len(succ'),
              pc \in {"drain", "compensate", "blocks", "sort"},
              pc' \in {"drain", "compensate", "blocks", "sort", "done", "assert_failed"}
       PROVE  AnalysisInv'
  <2>1. Len(succ') \in Nat
    BY <1>10, SeqFacts
  <2>2. Len(prog'.succ) <= Len(succ')
    BY <1>4, <1>10, <2>1 DEF AnalysisInv
  <2>3. GraphRight' /\ graph'.ready = <<>>
    BY <1>8, <1>10 DEF AnalysisInv
  <2> QED
    BY <1>3, <1>4, <1>10, <2>2, <2>3 DEF AnalysisInv
<1>11. CASE DrainIncoming \/ MergeHaltStates \/ MergeNormalized \/ FinishBlock \/ TopoSortStep \/ Built
  <2>1. /\ prog' = prog /\ graph' = graph /\ succ' = succ
        /\ pc \in {"drain", "compensate", "blocks", "sort"}
        /\ pc' \in {"drain", "compensate", "blocks", "sort", "done", "assert_failed"}
    <3>1. CASE DrainIncoming
      BY <3>1 DEF DrainIncoming, ir
    <3>2. CASE MergeHaltStates
      BY <3>2 DEF MergeHaltStates, ir
    <3>3. CASE MergeNormalized
      BY <3>3 DEF MergeNormalized, ir
    <3>4. CASE FinishBlock
      BY <3>4 DEF FinishBlock, ir
    <3>5. CASE TopoSortStep \/ Built
      BY <3>5 DEF TopoSortStep, Built, ir
    <3> QED
      BY <1>11, <3>1, <3>2, <3>3, <3>4, <3>5
  <2> QED
    BY <1>4, <1>10, <2>1
<1>12. CASE InsertCompensatingCheck \/ ProcessStatement
  <2>1. /\ prog' = prog /\ graph' = graph /\ pc \in {"compensate", "blocks"}
        /\ pc' \in {pc, "assert_failed"}
        /\ succ' = succ \/ \E b, i : insert_halt_check_after(b, i)
    <3>1. CASE InsertCompensatingCheck
      BY <3>1 DEF InsertCompensatingCheck, ir
    <3>2. CASE ProcessStatement
      BY <3>2 DEF ProcessStatement, ir
    <3> QED
      BY <1>12, <3>1, <3>2
  <2>2. (\E S : succ' \in Seq(S)) /\ Len(succ) <= Len(succ')
    <3>1. CASE succ' = succ
      BY <1>4, <3>1
    <3>2. CASE \E b, i : insert_halt_check_after(b, i)
      BY <1>4, <3>2, InsertAppends
    <3> QED
      BY <2>1, <3>1, <3>2
  <2> QED
    BY <1>10, <2>1, <2>2
<1>13. CASE Terminated \/ UNCHANGED vars
  <2>1. /\ prog' = prog /\ pc' = pc /\ stmts' = stmts /\ succ' = succ /\ leave' = leave
        /\ tarjan' = tarjan /\ graph' = graph
    BY <1>13 DEF Terminated, vars
  <2>2. Blocks' = Blocks /\ EdgesIn(tarjan.allowed)' = EdgesIn(tarjan.allowed)
    BY <2>1 DEF Blocks, EdgesIn
  <2>3. TarjanRight' = TarjanRight
    BY <2>1, <2>2 DEF TarjanRight
  <2>4. GraphRight' = GraphRight
    BY <1>3, <2>1 DEF GraphRight
  <2> QED
    BY <1>3, <2>1, <2>3, <2>4 DEF AnalysisInv
<1> QED
  BY <1>1, <1>2, <1>6, <1>7, <1>9, <1>11, <1>12, <1>13 DEF Next

\* The analyses the pass rests on are right, for every program: build panics
\* exactly on a cycle without a safepoint (assert_cycles_have_safepoints), the
\* components of strongly_connected_components are the classes of blocks that
\* reach each other, and SccGraph's order takes every edge between two of them
\* forwards.
THEOREM AnalysesCorrect == Spec => []AnalysesRight
<1>1. Init => AnalysisInv
  BY AnalysisInit
<1>2. AnalysisInv /\ [Next]_vars => AnalysisInv'
  BY AnalysisNext
<1>3. AnalysisInv => AnalysesRight
  BY AnalysisAnswers
<1> QED
  BY <1>1, <1>2, <1>3, PTL DEF Spec

=============================================================================

---------------------------- MODULE HaltCheckPass ----------------------------
(***************************************************************************)
(* ExecIrBuilder::build of the JIT: the halt-check pass                     *)
(* (ir/halt_check_pass.rs), which splits blocks to insert halt checks so    *)
(* that no execution passes `every` safepoints without one, and the block   *)
(* compile order (topo_sort).                                               *)
(*                                                                          *)
(* A program is a control-flow graph over the blocks 1..n, block 1 being    *)
(* Block::ENTRYPOINT.  A statement is the pair of its first block and its   *)
(* index there; all the pass asks of it is whether it is a safepoint.       *)
(* Blocks are numbered in the order of the arena, so the ones the pass      *)
(* creates (continuations and the block that takes the halt reason) follow. *)
(***************************************************************************)
EXTENDS Integers, Sequences, FiniteSets

CONSTANT Programs   \* records [succ, body, every]: per block the distinct
                    \* targets of its terminator and the kinds of its
                    \* statements, and the configured halt_check_every

Entry == 1

ASSUME ProgramsAssumption ==
    \A p \in Programs :
        /\ p.every \in Nat \ {0}
        /\ p.succ \in Seq(Seq(Nat)) /\ p.succ # <<>>
        /\ p.body \in Seq(Seq({"safepoint", "other"})) /\ Len(p.body) = Len(p.succ)
        /\ \A b \in DOMAIN p.succ :
              /\ Len(p.succ[b]) <= 2
              /\ \A i \in DOMAIN p.succ[b] :
                    p.succ[b][i] \in DOMAIN p.succ \ {Entry}

VARIABLES
    prog,       \* the program as the builder's caller left it
    pc,         \* where build is
    \* the intermediate representation, which the pass rewrites
    stmts,      \* block -> its statements
    succ,       \* block -> the distinct targets of its terminator
    checked,    \* blocks whose terminator is a halt check
    leave,      \* leave_and_take_halt: 0 for None, or the block
    \* the analyses
    tarjan,     \* the state of Tarjan's algorithm
    graph,      \* SccGraph: components, their edges, indegrees, ready queue,
                \* topological order
    \* the inserter
    loc,        \* safepoint_stmt_to_block_and_index
    outgoing,   \* HaltStateMap: <<from, to>> -> halt state
    incoming,   \* HaltStateMap: pairs <<to, from>>
    resets,     \* semantic_reset_after
    work,       \* insert_halt_checks: the component being processed
    \* topo_sort
    dfs         \* its stack, the blocks seen and the post-order

vars == <<prog, pc, stmts, succ, checked, leave, tarjan, graph, loc,
          outgoing, incoming, resets, work, dfs>>

ir == <<stmts, succ, checked, leave>>
inserter == <<loc, outgoing, incoming, resets>>

Blocks == DOMAIN succ
N == prog.every
IsSafepoint(s) == prog.body[s[1]][s[2]] = "safepoint"

Minimum(a, b) == IF a <= b THEN a ELSE b
LastOf(s) == s[Len(s)]
FrontOf(s) == SubSeq(s, 1, Len(s) - 1)
AsSet(s) == {s[i] : i \in DOMAIN s}

----------------------------------------------------------------------------
(* Tarjan's algorithm.  `calls` is the recursion: per activation of          *)
(* strong_connect_inner its block and the successors it has still to visit. *)

block_has_safepoint(b) == \E i \in DOMAIN stmts[b] : IsSafepoint(stmts[b][i])

strongly_connected_components(allowed) ==
    [allowed |-> allowed, next_index |-> 0,
     index |-> [b \in Blocks |-> -1], low_link |-> [b \in Blocks |-> -1],
     stack |-> <<>>, components |-> <<>>, calls |-> <<>>]

EnterBlock(t, b) ==
    [t EXCEPT !.index[b] = t.next_index, !.low_link[b] = t.next_index,
              !.next_index = @ + 1, !.stack = Append(@, b),
              !.calls = Append(@, [block |-> b, todo |-> succ[b]])]

Unvisited(t) == {b \in t.allowed : t.index[b] = -1}

Analysing == pc \in {"validate", "scc"}

\* run: the next block that is allowed and has no index yet.
TarjanRun ==
    /\ Analysing
    /\ tarjan.calls = <<>>
    /\ Unvisited(tarjan) # {}
    /\ tarjan' = EnterBlock(tarjan, CHOOSE b \in Unvisited(tarjan) :
                                       \A c \in Unvisited(tarjan) : b <= c)
    /\ UNCHANGED <<prog, pc, ir, graph, inserter, work, dfs>>

Activation == LastOf(tarjan.calls)

\* The activation moves on to its next successor.
\* Mutant: it does not when the successor is not allowed.
MutAdvanceAllowedOnly(t) ==
    IF Head(LastOf(t.calls).todo) \notin t.allowed THEN t
    ELSE [t EXCEPT !.calls[Len(t.calls)].todo = Tail(@)]

Advance(t) == [t EXCEPT !.calls[Len(t.calls)].todo = Tail(@)]

\* Mutant: low_link follows any indexed successor, on the stack or not.
MutLowerToAnyIndex(t, b, c) == [t EXCEPT !.low_link[b] = Minimum(@, t.index[c])]

LowerToIndex(t, b, c) ==
    IF c \in AsSet(t.stack) THEN [t EXCEPT !.low_link[b] = Minimum(@, t.index[c])]
    ELSE t

\* The loop over the successors: skip one that is not allowed, descend into
\* one without an index, or lower low_link to the index of one on the stack.
TarjanVisit ==
    /\ Analysing
    /\ tarjan.calls # <<>>
    /\ Activation.todo # <<>>
    /\ LET b == Activation.block
           c == Head(Activation.todo)
           t == Advance(tarjan)
       IN tarjan' = IF c \notin t.allowed THEN t
                    ELSE IF t.index[c] = -1 THEN EnterBlock(t, c)
                    ELSE LowerToIndex(t, b, c)
    /\ UNCHANGED <<prog, pc, ir, graph, inserter, work, dfs>>

\* The end of an activation: the members of a component are popped off the
\* stack, and the caller lowers its low_link.
TarjanReturn ==
    /\ Analysing
    /\ tarjan.calls # <<>>
    /\ Activation.todo = <<>>
    /\ LET b == Activation.block
           at == CHOOSE i \in DOMAIN tarjan.stack : tarjan.stack[i] = b
           len == Len(tarjan.stack)
           calls == FrontOf(tarjan.calls)
           popped == IF tarjan.low_link[b] = tarjan.index[b]
                     THEN [tarjan EXCEPT
                             !.stack = SubSeq(@, 1, at - 1),
                             !.components = Append(@,
                                 [i \in 1..len - at + 1 |-> tarjan.stack[len + 1 - i]]),
                             !.calls = calls]
                     ELSE [tarjan EXCEPT !.calls = calls]
       IN tarjan' = IF calls = <<>> THEN popped
                    ELSE [popped EXCEPT !.low_link[LastOf(calls).block] =
                                            Minimum(@, tarjan.low_link[b])]
    /\ UNCHANGED <<prog, pc, ir, graph, inserter, work, dfs>>

TarjanDone == Analysing /\ tarjan.calls = <<>> /\ Unvisited(tarjan) = {}

component_is_cyclic(component) ==
    IF Len(component) = 1
    THEN component[1] \in AsSet(succ[component[1]])
    ELSE Len(component) >= 2

\* assert_cycles_have_safepoints: a component among the blocks without a
\* safepoint that is cyclic is a panic.
AssertCyclesHaveSafepoints ==
    /\ pc = "validate"
    /\ TarjanDone
    /\ IF \E i \in DOMAIN tarjan.components : component_is_cyclic(tarjan.components[i])
       THEN pc' = "panic" /\ UNCHANGED tarjan
       ELSE pc' = "scc" /\ tarjan' = strongly_connected_components(Blocks)
    /\ UNCHANGED <<prog, ir, graph, inserter, work, dfs>>

----------------------------------------------------------------------------
(* SccGraph::new: the graph of the components and Kahn's topological sort.  *)

ComponentOf(components, b) ==
    CHOOSE i \in DOMAIN components : b \in AsSet(components[i])

InOrder(S) ==
    LET n == Cardinality(S)
    IN [i \in 1..n |-> CHOOSE x \in S : Cardinality({y \in S : y < x}) = i - 1]

SccGraphNew ==
    /\ pc = "scc"
    /\ TarjanDone
    /\ LET cs == tarjan.components
           edges == [i \in DOMAIN cs |->
                       {ComponentOf(cs, c) : c \in UNION {AsSet(succ[b]) : b \in AsSet(cs[i])}}
                       \ {i}]
           indegree == [i \in DOMAIN cs |-> Cardinality({j \in DOMAIN cs : i \in edges[j]})]
       IN graph' = [components |-> cs, edges |-> edges, indegree |-> indegree,
                    ready |-> InOrder({i \in DOMAIN cs : indegree[i] = 0}),
                    topo_order |-> <<>>,
                    is_cyclic |-> {i \in DOMAIN cs : component_is_cyclic(cs[i])}]
    /\ pc' = "order"
    /\ UNCHANGED <<prog, ir, tarjan, inserter, work, dfs>>

\* One pass of the loop over the ready queue; the successors are taken in the
\* order of the component numbers (ArenaSet::iter).
TopoStep ==
    /\ pc = "order"
    /\ graph.ready # <<>>
    /\ LET c == Head(graph.ready)
           indegree == [i \in DOMAIN graph.indegree |->
                          IF i \in graph.edges[c] THEN graph.indegree[i] - 1
                          ELSE graph.indegree[i]]
       IN graph' = [graph EXCEPT
                      !.indegree = indegree,
                      !.topo_order = Append(@, c),
                      !.ready = Tail(@) \o InOrder({i \in graph.edges[c] : indegree[i] = 0})]
    /\ UNCHANGED <<prog, pc, ir, tarjan, inserter, work, dfs>>

----------------------------------------------------------------------------
(* Halt states.                                                             *)

from_remaining(r) == [remaining |-> r, suffix |-> <<>>]

\* canonicalize_against_resets: keep the safepoints after the latest reset.
canonicalize(s, reset) ==
    LET hits == {i \in DOMAIN s.suffix : s.suffix[i] \in reset}
        last == CHOOSE i \in hits : \A j \in hits : j <= i
        rest == SubSeq(s.suffix, last + 1, Len(s.suffix))
    IN IF hits = {} THEN s ELSE [remaining |-> N - Len(rest), suffix |-> rest]

has_complete_suffix(s) == Len(s.suffix) = N - s.remaining

has_insertion_point(s, target) ==
    /\ s.remaining < target
    /\ has_complete_suffix(s)
    /\ Len(s.suffix) > N - target

compensating_insertion_safepoint(s, target) ==
    s.suffix[Len(s.suffix) - (N - target)]

(* HaltCheckInserter.                                                       *)

\* HaltCheckInserter::new and the start of insert_halt_checks.
InserterNew ==
    /\ pc = "order"
    /\ graph.ready = <<>>
    /\ IF Len(graph.topo_order) # Len(graph.components)
       THEN pc' = "assert_failed" /\ UNCHANGED <<loc, work>>
       ELSE /\ pc' = "drain"
            /\ loc' = LET Positions == UNION {{<<b, i>> : i \in DOMAIN stmts[b]} : b \in Blocks}
                          Points == {p \in Positions : IsSafepoint(stmts[p[1]][p[2]])}
                      IN [s \in {stmts[p[1]][p[2]] : p \in Points} |->
                            CHOOSE p \in Points : stmts[p[1]][p[2]] = s]
            /\ work' = [component |-> 1, next |-> 1, states |-> <<>>, fixed |-> 0,
                        target |-> 0, state |-> from_remaining(N), block |-> 0,
                        index |-> 0, seen |-> FALSE]
    /\ UNCHANGED <<prog, ir, tarjan, graph, outgoing, incoming, resets, dfs>>

\* insert_halt_check_at (ir/mod.rs) with the bookkeeping of
\* insert_halt_check_after_safepoint_indexed: `block` keeps the statements up
\* to the index and ends with the halt check, a fresh block continues, and
\* pending edges out of `block` now leave the continuation.
Continuation == Len(succ) + 1

LeaveBlock == IF leave # 0 THEN leave ELSE Len(succ) + 2

\* Mutant: the continuation misses the first statement after the check.
MutTailTooShort(block, i) == SubSeq(stmts[block], i + 2, Len(stmts[block]))

tail_stmts(block, i) == SubSeq(stmts[block], i + 1, Len(stmts[block]))

RemapEdge(e, block) == IF e[1] = block THEN <<Continuation, e[2]>> ELSE e

insert_halt_check_after(block, i) ==
    /\ LET tail == tail_stmts(block, i)
           fresh == IF leave = 0 THEN <<<<>>>> ELSE <<>>
       IN /\ stmts' = [stmts EXCEPT ![block] = SubSeq(@, 1, i)] \o <<tail>> \o fresh
          /\ succ' = [succ EXCEPT ![block] = <<Continuation, LeaveBlock>>]
                       \o <<succ[block]>> \o fresh
          /\ checked' = IF block \in checked
                        THEN checked \cup {block, Continuation}
                        ELSE checked \cup {block}
          /\ leave' = LeaveBlock
          /\ loc' = [s \in DOMAIN loc |->
                       IF \E j \in DOMAIN tail : tail[j] = s
                       THEN <<Continuation, CHOOSE j \in DOMAIN tail : tail[j] = s>>
                       ELSE loc[s]]
    /\ LET moved == {e \in DOMAIN outgoing : e[1] = block}
       IN /\ outgoing' = [e \in {RemapEdge(f, block) : f \in DOMAIN outgoing} |->
                            outgoing[CHOOSE f \in DOMAIN outgoing : RemapEdge(f, block) = e]]
          /\ incoming' = (incoming \ {<<e[2], block>> : e \in moved})
                           \cup {<<e[2], Continuation>> : e \in moved}

\* The assertions of the two functions: a safepoint is at the index, the
\* safepoints of the tail were in `block` after it, and every edge that moves
\* is in both maps.
InsertAsserts(block, i) ==
    /\ i \in DOMAIN stmts[block] /\ IsSafepoint(stmts[block][i])
    /\ \A j \in i + 1..Len(stmts[block]) :
          IsSafepoint(stmts[block][j]) => loc[stmts[block][j]] = <<block, j>>
    /\ \A e \in DOMAIN outgoing : e[1] = block => <<e[2], block>> \in incoming

----------------------------------------------------------------------------
(* insert_halt_checks: the components in topological order.                 *)

Component == graph.components[graph.topo_order[work.component]]
IsCyclic == graph.topo_order[work.component] \in graph.is_cyclic

Orders(S) == {s \in [1..Cardinality(S) -> S] : AsSet(s) = S}

\* drain_incoming of the next block of the component.  The hash set yields
\* the predecessors in any order; each must be in the forward map too.
DrainIncoming ==
    /\ pc = "drain"
    /\ work.next <= Len(Component)
    /\ LET to == Component[work.next]
           from == {e[2] : e \in {e \in incoming : e[1] = to}}
           drained == {<<f, to>> : f \in from}
       IN IF \A e \in drained : e \in DOMAIN outgoing
          THEN /\ \E order \in Orders(from) :
                     work' = [work EXCEPT
                        !.next = @ + 1,
                        !.states = @ \o [i \in DOMAIN order |-> outgoing[<<order[i], to>>]]]
               /\ outgoing' = [e \in DOMAIN outgoing \ drained |-> outgoing[e]]
               /\ incoming' = {e \in incoming : e[1] # to}
               /\ UNCHANGED pc
          ELSE /\ pc' = "assert_failed"
               /\ UNCHANGED <<work, outgoing, incoming>>
    /\ UNCHANGED <<prog, ir, tarjan, graph, loc, resets, dfs>>

\* A merged state in hand, the halter starts on the component's first block.
StartBlocks(w, state) ==
    [w EXCEPT !.state = state, !.next = 1, !.block = Component[1], !.index = 1,
              !.seen = FALSE, !.states = <<>>, !.fixed = 0, !.target = 0]

CeilHalf(n) == (n + 1) \div 2

\* merge_halt_states_inner, up to the decision.
MergeHaltStates ==
    /\ pc = "drain"
    /\ work.next > Len(Component)
    /\ LET states == [i \in DOMAIN work.states |-> canonicalize(work.states[i], resets)]
           all == {states[i].remaining : i \in DOMAIN states}
           lo == CHOOSE r \in all : \A q \in all : r <= q
           hi == CHOOSE r \in all : \A q \in all : q <= r
           can_normalize == \A i \in DOMAIN states :
                               \/ states[i].remaining >= hi
                               \/ has_insertion_point(states[i], hi)
       IN IF Len(states) = 0
          THEN pc' = "blocks" /\ work' = StartBlocks(work, from_remaining(N))
          ELSE IF Len(states) = 1
          THEN pc' = "blocks" /\ work' = StartBlocks(work, states[1])
          ELSE IF hi - lo > CeilHalf(N) /\ can_normalize
          THEN pc' = "compensate"
               /\ work' = [work EXCEPT !.states = states, !.fixed = 1, !.target = hi]
          ELSE pc' = "blocks" /\ work' = StartBlocks(work, from_remaining(lo))
    /\ UNCHANGED <<prog, ir, tarjan, graph, inserter, dfs>>

\* One incoming state of the normalizing loop: canonicalized again, unless it
\* is the first, and given a compensating check when it is still too low.
InsertCompensatingCheck ==
    /\ pc = "compensate"
    /\ work.fixed <= Len(work.states)
    /\ LET s == IF work.fixed = 1 THEN work.states[1]
                ELSE canonicalize(work.states[work.fixed], resets)
           at == compensating_insertion_safepoint(s, work.target)
           here == loc[at]
       IN IF s.remaining >= work.target
          THEN /\ work' = [work EXCEPT !.states[work.fixed] = s, !.fixed = @ + 1]
               /\ UNCHANGED <<pc, ir, inserter>>
          ELSE IF /\ has_insertion_point(s, work.target)
                  /\ at \notin resets
                  /\ InsertAsserts(here[1], here[2])
          THEN /\ resets' = resets \cup {at}
               /\ insert_halt_check_after(here[1], here[2])
               /\ work' = [work EXCEPT
                             !.states[work.fixed] = canonicalize(s, resets \cup {at}),
                             !.fixed = @ + 1]
               /\ UNCHANGED pc
          ELSE pc' = "assert_failed" /\ UNCHANGED <<ir, inserter, work>>
    /\ UNCHANGED <<prog, tarjan, graph, dfs>>

MergeNormalized ==
    /\ pc = "compensate"
    /\ work.fixed > Len(work.states)
    /\ IF \A i \in DOMAIN work.states : work.states[i].remaining >= work.target
       THEN pc' = "blocks" /\ work' = StartBlocks(work, from_remaining(work.target))
       ELSE pc' = "assert_failed" /\ UNCHANGED work
    /\ UNCHANGED <<prog, ir, tarjan, graph, inserter, dfs>>

\* process_block: the next statement.  A safepoint in a cyclic component is
\* always checked; in an acyclic one the countdown decides.
AtSafepoint == IsSafepoint(stmts[work.block][work.index])

should_halt == AtSafepoint /\ (IsCyclic \/ work.state.remaining = 1)

\* The halt state after a safepoint of an acyclic component.  (The suffix is
\* cut to N elements, which it never exceeds.)
process_safepoint(s, stmt) ==
    IF s.remaining = 1 THEN from_remaining(N)
    ELSE LET longer == Append(s.suffix, stmt)
         IN [remaining |-> s.remaining - 1,
             suffix |-> IF Len(longer) > N THEN Tail(longer) ELSE longer]

ProcessStatement ==
    /\ pc = "blocks"
    /\ work.index <= Len(stmts[work.block])
    /\ LET stmt == stmts[work.block][work.index]
           after == IF AtSafepoint
                    THEN IF IsCyclic THEN [work EXCEPT !.seen = TRUE]
                         ELSE [work EXCEPT !.state = process_safepoint(@, stmt)]
                    ELSE work
       IN IF should_halt
          THEN IF InsertAsserts(work.block, work.index)
               THEN /\ insert_halt_check_after(work.block, work.index)
                    /\ work' = [after EXCEPT !.block = Continuation, !.index = 1]
                    /\ UNCHANGED <<pc, resets>>
               ELSE pc' = "assert_failed" /\ UNCHANGED <<ir, inserter, work>>
          ELSE /\ work' = [after EXCEPT !.index = @ + 1]
               /\ UNCHANGED <<pc, ir, inserter>>
    /\ UNCHANGED <<prog, tarjan, graph, dfs>>

\* take_current_state: a block of a cyclic component leaves with a full
\* countdown when it had a safepoint and with the one it got otherwise.
\* Mutant: every way out of a cycle counts as checked.
MutAlwaysFull == IF ~IsCyclic THEN work.state ELSE from_remaining(N)

take_current_state ==
    IF ~IsCyclic THEN work.state
    ELSE from_remaining(IF work.seen THEN N ELSE work.state.remaining)

\* The end of a block: an edge to every successor outside the component.
\* Then the next block, the next component, or the end of the pass.
FinishBlock ==
    /\ pc = "blocks"
    /\ work.index > Len(stmts[work.block])
    /\ LET b == work.block
           members == AsSet(Component)
           targets == {c \in AsSet(succ[b]) : ~(IsCyclic /\ c \in members)}
           added == {<<b, c>> : c \in targets}
           last == work.next = Len(Component)
           end == work.component = Len(graph.topo_order)
       IN IF added \cap DOMAIN outgoing = {}
          THEN /\ outgoing' = [e \in DOMAIN outgoing \cup added |->
                                 IF e \in added THEN take_current_state ELSE outgoing[e]]
               /\ incoming' = incoming \cup {<<c, b>> : c \in targets}
               /\ pc' = IF ~last THEN "blocks" ELSE IF end THEN "sort" ELSE "drain"
               /\ work' = IF ~last
                          THEN [work EXCEPT !.next = @ + 1, !.index = 1, !.seen = FALSE,
                                            !.block = Component[work.next + 1]]
                          ELSE IF end THEN work
                          ELSE [work EXCEPT !.component = @ + 1, !.next = 1]
          ELSE /\ pc' = "assert_failed"
               /\ UNCHANGED <<outgoing, incoming, work>>
    /\ UNCHANGED <<prog, ir, tarjan, graph, loc, resets, dfs>>

----------------------------------------------------------------------------
(* topo_sort: the reverse post-order of a depth-first search.               *)

Reversed(s) == [i \in DOMAIN s |-> s[Len(s) + 1 - i]]

\* The targets of b that have not been seen, the last one first.
NewTargets(b) ==
    LET targets == Reversed(succ[b])
        new == InOrder({i \in DOMAIN targets : targets[i] \notin dfs.seen \cup {b}})
    IN [i \in DOMAIN new |-> targets[new[i]]]

\* One frame off the stack.
TopoSortStep ==
    /\ pc = "sort"
    /\ dfs.stack # <<>>
    /\ LET frame == LastOf(dfs.stack)
           b == frame.block
           rest == FrontOf(dfs.stack)
           new == NewTargets(b)
       IN dfs' = IF frame.exit
                 THEN [dfs EXCEPT !.stack = rest, !.postorder = Append(@, b)]
                 ELSE IF b \in dfs.seen THEN [dfs EXCEPT !.stack = rest]
                 ELSE [dfs EXCEPT
                         !.seen = @ \cup {b},
                         !.stack = Append(rest, [exit |-> TRUE, block |-> b])
                             \o [i \in DOMAIN new |-> [exit |-> FALSE, block |-> new[i]]]]
    /\ UNCHANGED <<prog, pc, ir, tarjan, graph, inserter, work>>

Built ==
    /\ pc = "sort"
    /\ dfs.stack = <<>>
    /\ pc' = "done"
    /\ UNCHANGED <<prog, ir, tarjan, graph, inserter, work, dfs>>

\* Mutant: the post-order is not reversed.
MutPostOrder == dfs.postorder

block_compile_order == Reversed(dfs.postorder)

----------------------------------------------------------------------------

Init ==
    /\ prog \in Programs
    /\ pc = "validate"
    /\ stmts = [b \in DOMAIN prog.succ |-> [i \in DOMAIN prog.body[b] |-> <<b, i>>]]
    /\ succ = prog.succ
    /\ checked = {}
    /\ leave = 0
    /\ tarjan = strongly_connected_components({b \in Blocks : ~block_has_safepoint(b)})
    /\ graph = <<>>
    /\ loc = <<>>
    /\ outgoing = <<>>
    /\ incoming = {}
    /\ resets = {}
    /\ work = <<>>
    /\ dfs = [stack |-> <<[exit |-> FALSE, block |-> Entry]>>, seen |-> {},
              postorder |-> <<>>]

Terminated == pc \in {"done", "panic", "assert_failed"} /\ UNCHANGED vars

Next ==
    \/ TarjanRun \/ TarjanVisit \/ TarjanReturn \/ AssertCyclesHaveSafepoints
    \/ SccGraphNew \/ TopoStep \/ InserterNew
    \/ DrainIncoming \/ MergeHaltStates \/ InsertCompensatingCheck
    \/ MergeNormalized \/ ProcessStatement \/ FinishBlock
    \/ TopoSortStep \/ Built
    \/ Terminated

\* build runs on its caller's thread until it returns or panics.
Spec == Init /\ [][Next]_vars /\ WF_vars(Next)

----------------------------------------------------------------------------
(* Reference notions: reachability, and the safepoints an execution may     *)
(* have passed since its last halt check.                                   *)

Edges == UNION {{<<b, c>> : c \in AsSet(succ[b])} : b \in Blocks}

SourceBlocks == DOMAIN prog.succ
SourceEdges == UNION {{<<b, c>> : c \in AsSet(prog.succ[b])} : b \in SourceBlocks}

\* The blocks that can be reached from `from` along the edges E, `from` included.
Reach(from, E) ==
    LET More(R) == {e[2] : e \in {f \in E : f[1] \in R}}
        Closure[R \in SUBSET Blocks] ==
            IF More(R) \subseteq R THEN R ELSE Closure[R \cup More(R)]
    IN Closure[from]

Safepoints(b) == Cardinality({i \in DOMAIN stmts[b] : IsSafepoint(stmts[b][i])})

\* Pairs of a block that executions reach and a number of safepoints one may
\* have passed since the last halt check (or since the entry) on arriving
\* there, counted up to N + 1.
Arrivals ==
    LET Leaving(a) == IF a[1] \in checked THEN 0
                      ELSE Minimum(a[2] + Safepoints(a[1]), N + 1)
        More(R) == UNION {{<<c, Leaving(a)>> : c \in AsSet(succ[a[1]])} : a \in R}
        Closure[R \in SUBSET (Blocks \X (0..N + 1))] ==
            IF More(R) \subseteq R THEN R ELSE Closure[R \cup More(R)]
    IN Closure[{<<Entry, 0>>}]

(* Properties.                                                              *)

Inserting == pc \in {"drain", "compensate", "blocks"}
Inserted == pc \in {"sort", "done"}

HaltStates == [remaining : 1..N, suffix : Seq(Blocks \X Nat)]

\* Types of the representation and of the inserter's maps: every successor is
\* a block and never the entry, and every countdown is in 1..N.
TypeOK ==
    /\ prog \in Programs
    /\ pc \in {"validate", "scc", "order", "drain", "compensate", "blocks", "sort",
               "done", "panic", "assert_failed"}
    /\ DOMAIN stmts = Blocks /\ checked \subseteq Blocks
    /\ leave \in Blocks \cup {0}
    /\ \A b \in Blocks : AsSet(succ[b]) \subseteq Blocks \ {Entry}
    /\ DOMAIN outgoing \subseteq Blocks \X Blocks
    /\ \A e \in DOMAIN outgoing : outgoing[e] \in HaltStates
    /\ Inserting => work.state \in HaltStates

\* The guarantee of IrBuilderConfig::halt_check_every: on every execution of
\* the finished program, of any `every` consecutive safepoints at least one is
\* followed by a halt check.
ChecksOften ==
    Inserted => \A a \in Arrivals :
        a[2] + Safepoints(a[1]) <= IF a[1] \in checked THEN N ELSE N - 1

\* The countdown of a pending edge, once canonicalized against the compensating
\* checks, never promises more than every execution that reaches the edge in
\* the program as rewritten so far leaves room for (while a cycle is being
\* processed its other blocks may still lack their checks).
PendingCountdownsSound ==
    Inserting /\ ~(pc = "blocks" /\ IsCyclic) => LET arrivals == Arrivals IN
        \A e \in DOMAIN outgoing :
           /\ e \in Edges
           /\ e[1] \notin checked
           /\ \A a \in arrivals : a[1] = e[1] =>
                 a[2] + Safepoints(a[1]) <= N - canonicalize(outgoing[e], resets).remaining

\* Halt checks come often enough, because at every moment of the pass, in
\* whatever order it merges, the pending countdowns are sound.
HaltChecksSound == PendingCountdownsSound /\ ChecksOften

\* Splitting blocks changes nothing but the checks: the representation stays
\* well formed, and following the halt checks'
\* continuations from a block of the source, its statements are all there, in
\* order, followed by its own terminator.
SourcePreserved ==
    LET Text[b \in Blocks] ==
            stmts[b] \o (IF b \in checked THEN Text[succ[b][1]] ELSE <<>>)
        Target[b \in Blocks] ==
            IF b \in checked THEN Target[succ[b][1]] ELSE succ[b]
    IN TypeOK /\ \A b \in SourceBlocks :
          /\ Text[b] = [i \in DOMAIN prog.body[b] |-> <<b, i>>]
          /\ Target[b] = prog.succ[b]

\* The pass panics exactly on a program with a cycle through blocks none of
\* which has a safepoint.
PanicsOnFreeCycleOnly ==
    LET Free == {b \in SourceBlocks : \A i \in DOMAIN prog.body[b] :
                                          prog.body[b][i] # "safepoint"}
        FreeEdges == {e \in SourceEdges : e[1] \in Free /\ e[2] \in Free}
        HasFreeCycle == \E e \in FreeEdges : e[1] \in Reach({e[2]}, FreeEdges)
    IN /\ pc = "panic" => HasFreeCycle
       /\ pc \notin {"validate", "panic"} => ~HasFreeCycle

\* Tarjan's components are the classes of mutually reachable blocks, the cyclic
\* ones are those with a cycle, and the topological order takes every edge
\* between two components forwards.
ComponentsInOrder ==
    pc = "drain" /\ work.component = 1 /\ work.next = 1 =>
        LET cs == graph.components
            reach == [b \in SourceBlocks |-> Reach({b}, SourceEdges)]
            Rank(b) == CHOOSE i \in DOMAIN graph.topo_order :
                          b \in AsSet(cs[graph.topo_order[i]])
        IN /\ \A b \in SourceBlocks : \E i \in DOMAIN cs : b \in AsSet(cs[i])
           /\ \A b, c \in SourceBlocks :
                 (Rank(b) = Rank(c)) <=> (c \in reach[b] /\ b \in reach[c])
           /\ \A e \in SourceEdges : Rank(e[1]) <= Rank(e[2])
           /\ \A b \in SourceBlocks :
                 (graph.topo_order[Rank(b)] \in graph.is_cyclic)
                   <=> \E e \in SourceEdges : e[1] = b /\ b \in reach[e[2]]

\* The analyses the pass rests on are right.
AnalysesRight == PanicsOnFreeCycleOnly /\ ComponentsInOrder

\* The compile order starts at the entry, holds exactly the reachable blocks,
\* each once, and has every block after all the blocks that dominate it, so
\* that a value is defined before the back ends meet its use.
CompileOrderDominates ==
    pc = "done" =>
        LET order == block_compile_order
            reachable == Reach({Entry}, Edges)
            Dominated(d) == reachable \
                (IF d = Entry THEN {}
                 ELSE Reach({Entry}, {e \in Edges : e[1] # d /\ e[2] # d}))
        IN /\ AsSet(order) = reachable /\ Len(order) = Cardinality(reachable)
           /\ order[1] = Entry
           /\ \A i, j \in DOMAIN order : order[j] \in Dominated(order[i]) => i <= j

\* build always ends, with the finished program or with the panic: none of the
\* pass's assertions fires (both edge maps agree, no safepoint gets two
\* compensating checks, every state can be normalized when the merge said so, no
\* edge is added twice).
Terminates == <>(pc \in {"done", "panic"})
=============================================================================

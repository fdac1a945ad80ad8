--------------------------- MODULE MC_HaltCheckPass ---------------------------
(* Programs for TLC: every graph of three blocks, and acyclic shapes whose    *)
(* merges are lopsided enough for compensating checks.                        *)
EXTENDS HaltCheckPass

CONSTANT MaxEvery   \* largest halt_check_every tried on the three-block graphs

S == "safepoint"
O == "other"

Targets(n) == {t \in UNION {[1..k -> 2..n] : k \in 0..2} :
                 \A i, j \in DOMAIN t : t[i] = t[j] => i = j}

AnyThree ==
    [succ : [1..3 -> Targets(3)], body : [1..3 -> {<<>>, <<S>>, <<S, O, S>>}],
     every : 1..MaxEvery]

\* Acyclic graphs of four blocks with up to three safepoints each.
Forward(n) == {t \in [1..n -> Targets(n)] :
                 \A b \in 1..n : \A i \in DOMAIN t[b] : t[b][i] > b}

LopsidedFour ==
    [succ : Forward(4), body : [1..4 -> {<<>>, <<S>>, <<S, S, S>>}], every : {4}]

\* A loop that can be left without passing its safepoints.
LoopExit ==
    [succ : {<< <<2>>, <<3, 4>>, <<2>>, <<>> >>, << <<2, 4>>, <<3, 4>>, <<2, 4>>, <<>> >>},
     body : [1..4 -> {<<>>, <<S>>, <<S, O, S>>}], every : {2, 3}]

\* A long block shared by two paths into a merge with a short one, and a
\* second merge further on that still remembers the shared safepoints.
SharedSuffix ==
    [succ : {<< <<2, 5>>, <<3, 4>>, <<6>>, <<6, 7>>, <<6>>, <<7>>, <<>> >>,
             << <<2, 5>>, <<3, 4>>, <<6>>, <<6>>, <<6, 7>>, <<7>>, <<>> >>,
             << <<2, 5>>, <<3, 4>>, <<7>>, <<6, 7>>, <<6>>, <<7>>, <<>> >>},
     body : {f \in [1..7 -> {<<>>, <<S>>, <<S, S>>, <<S, O, S, S>>}] :
               f[1] = <<>> /\ f[5] = <<>> /\ f[7] = <<S>> /\ f[6] \in {<<>>, <<S>>}},
     every : {5, 6}]

MCPrograms == AnyThree \cup LoopExit \cup LopsidedFour \cup SharedSuffix
=============================================================================

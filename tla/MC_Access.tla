------------------------------ MODULE MC_Access ------------------------------
(***************************************************************************)
(* Pages of 16 bytes, an address space of four of them and three frames.    *)
(* Page 3 ends at the top of the address space; page 2 is mapped only for   *)
(* the ranges that cover three pages.                                       *)
(* One CPU alone does every access there is; with a second one storing or   *)
(* loading beside it the accesses around one page boundary; and three CPUs  *)
(* meet at the locks of the Miri back end.                                  *)
(***************************************************************************)
EXTENDS Access

A(kind, op, force, vaddr, len) ==
    [kind |-> kind, op |-> op, force |-> force, vaddr |-> vaddr, len |-> len]

Ops == {"load", "store"}
Addrs == 0..TopAddr
Idle == A("idle", "load", FALSE, 0, 0)

Scalars(kinds, addrs, widths) ==
    {A(k, op, FALSE, v, w) : k \in kinds, op \in Ops, v \in addrs, w \in widths}
Ranges(addrs, lens) ==
    {A("range", op, f, v, n) : op \in Ops, f \in BOOLEAN, v \in addrs, n \in lens}

Words == Scalars({"scalar", "inline"}, Addrs, {1, 2, 4, 8})
           \cup {A("fetch", "load", FALSE, v, 4) : v \in Addrs}
Blocks == Ranges(Addrs, {0, 1, 11, 18, 34})
            \cup {A("pages", "store", FALSE, v, n) : v \in {0, 16, 21, 48}, n \in {0, 8, 16, 32, 48}}

\* frames lie the other way round than pages
Frame == [p \in {0, 1, 3} |-> CASE p = 0 -> 1 [] p = 1 -> 0 [] OTHER -> 2]

Table(f0, f1, f3) == [p \in {0, 1, 3} |-> CASE p = 0 -> f0 [] p = 1 -> f1 [] OTHER -> f3]

Tables ==
    {Table({"R", "W"}, {"R", "W", "OBJ"}, {"R", "W", "X"}),
     Table({"R", "W", "OBJ"}, {"R"}, {"W"}),
     Table({"X"}, {"R", "W", "COW"}, {"R", "W"})}

Env(build, big, table, cached) ==
    [build |-> build, big |-> big, table |-> table, frame |-> Frame,
     tlb |-> [i \in 0..(TLB_SIZE - 1) |-> IF i \in cached THEN i ELSE None]]

Open == Table({"R", "W", "OBJ"}, {"R", "W", "OBJ"}, {"R", "W"})

Three(x, y, z) == [c \in Cpus |-> CASE c = 1 -> x [] c = 2 -> y [] OTHER -> z]

Alone ==
    {[env |-> Env("atomic", big, t, {0, 1}), acc |-> Three(a, Idle, Idle)] :
        a \in Words, t \in Tables, big \in BOOLEAN}
    \cup {[env |-> Env("atomic", FALSE, t, {}), acc |-> Three(a, Idle, Idle)] :
             a \in Blocks, t \in Tables}

AloneMiri ==
    {[env |-> Env("miri", FALSE, Open, {}), acc |-> Three(a, Idle, Idle)] :
        a \in {x \in Words : x.kind # "inline" /\ x.len < 8} \cup Ranges({0, 3, 12, 48}, {4, 16, 18})}

\* accesses around the boundary between pages 0 and 1
Near == Scalars({"scalar", "inline"}, 8..23, {2, 4, 8}) \cup Ranges({9, 14}, {11})
Rivals == {A("inline", "store", FALSE, 8, 8), A("scalar", "store", FALSE, 13, 8),
           A("scalar", "store", FALSE, 18, 4), A("range", "store", FALSE, 12, 9),
           A("inline", "load", FALSE, 16, 8)}

Racing ==
    {[env |-> Env("atomic", FALSE, Open, {0, 1}), acc |-> Three(a, b, Idle)] :
        a \in Near, b \in Rivals}

\* three pages in a row, the middle one copied whole
Row == [p \in 0..2 |-> IF p = 1 THEN {"R", "W", "OBJ"} ELSE {"R", "W"}]
RowFrame == [p \in 0..2 |-> CASE p = 0 -> 1 [] p = 1 -> 2 [] OTHER -> 0]

Long ==
    {[env |-> [Env("atomic", FALSE, Row, {0, 1}) EXCEPT !.frame = RowFrame], acc |-> Three(a, b, Idle)] :
        a \in Ranges({0, 3, 14}, {34}), b \in {Idle, A("inline", "store", FALSE, 16, 8)}}

\* lines of 8 bytes: a frame has two, so three frames share three shards in a ring
Locking ==
    {[env |-> Env("miri", FALSE, Open, {}), acc |-> Three(x, y, z)] :
        x \in {A("range", "store", FALSE, 0, 16), A("scalar", "store", FALSE, 6, 4), A("range", "load", TRUE, 0, 16)},
        y \in {A("range", "store", FALSE, 16, 16), A("scalar", "load", FALSE, 22, 4), A("range", "store", FALSE, 4, 20),
              A("scalar", "load", FALSE, 8, 4)},
        z \in {A("range", "store", FALSE, 48, 16), A("scalar", "store", FALSE, 54, 4), A("scalar", "store", FALSE, 8, 4)}}

MCScenarios == Alone \cup AloneMiri \cup Racing \cup Long \cup Locking
=============================================================================

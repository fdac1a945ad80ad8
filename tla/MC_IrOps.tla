------------------------------- MODULE MC_IrOps -------------------------------
(***************************************************************************)
(* All operations of IrOps on all values of two small integer widths, with  *)
(* operands of every combination of types.                                  *)
(***************************************************************************)
EXTENDS IrOps

CONSTANTS
    MaxImm,     \* the largest immediate shift amount (u8 in the code)
    MaxTrips    \* rounds of the loop whose jump permutes its parameters

MCRequests ==
    LET Req(op, sub, tx, x, ty, y, tz, z, n) ==
            [op |-> op, sub |-> sub, tx |-> tx, x |-> x, ty |-> ty, y |-> y,
             tz |-> tz, z |-> z, n |-> n]
        Types == Widths \cup {Bool, HostPtr}
        Shifts == {"Shl", "ZeroExtendShr", "SignExtendShr"}
        Cmps == {"Equal", "NotEqual"} \cup
                {s \o c : s \in {"Signed", "Unsigned"},
                          c \in {"LessThan", "LessThanOrEqual",
                                 "GreaterThan", "GreaterThanOrEqual"}}
        Pair == {<<tx, x, ty, y>> : <<tx, ty>> \in Types \X Types,
                                    x \in 0..(2^I64 - 1), y \in 0..(2^I64 - 1)}
        Pairs == {p \in Pair : p[2] \in Values(p[1]) /\ p[4] \in Values(p[3])}
        Binary(op, subs, ns) ==
            {Req(op, s, p[1], p[2], p[3], p[4], Bool, 0, n) : s \in subs, p \in Pairs, n \in ns}
        Unary(op, subs, ns) ==
            {Req(op, s, p[1], p[2], Bool, 0, Bool, 0, n) :
                s \in subs, p \in {q \in Pairs : q[3] = Bool /\ q[4] = 0}, n \in ns}
    IN  Binary("arith", {"Add", "Sub", "Mul"}, {0})
        \cup {r \in Binary("iadd_imm", {""}, {0}) \cup Binary("icmp_imm", Cmps, {0})
                    \cup Binary("bitwise_imm", {"And", "Or", "Xor"}, {0}) : r.ty \in Ints}
        \cup Binary("udiv", {""}, {0}) \cup Binary("sdiv", {""}, {0})
        \cup Binary("flags", {"Add", "Sub"}, {0, 1, NZCV_MASK + 1})
        \cup Binary("icmp", Cmps, {0})
        \cup Binary("bitwise", {"And", "Or", "Xor"}, {0})
        \cup Binary("shift", Shifts, {0}) \cup Binary("shift_unbounded", Shifts, {0})
        \cup Unary("ineg", {""}, {0}) \cup Unary("bitnot", {""}, {0})
        \cup Unary("shift_imm", Shifts, 0..MaxImm)
        \cup Unary("shift_exact_imm", Shifts, 0..MaxImm)
        \cup Unary("shift_unbounded_imm", Shifts, 0..MaxImm)
        \cup Unary("store_x_reg", {""}, {0})
        \cup {r \in Unary("next_insn", {""}, {0}) : r.tx = I64}
        \cup {r \in Unary("load_x_reg", {"little", "big"}, Widths) : r.tx = I64}
        \cup Unary("assert", {""}, {0, 1}) \cup Unary("return_code", {""}, {0})
        \cup {r \in {Req(op, "", tx, x, ty, 1, tz, 0, n) :
                       op \in {"select", "diamond"}, tx \in Types, x \in 0..2,
                       ty \in Widths, tz \in Widths, n \in {0, 1}} :
                 r.x \in Values(r.tx) /\ (r.op = "diamond" => r.ty = r.tz)}
        \cup {Req("loop", s, I64, 1, I64, 2, Bool, 0, n) :
                 s \in DOMAIN BackEdge, n \in 0..MaxTrips}
=============================================================================

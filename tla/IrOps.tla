-------------------------------- MODULE IrOps --------------------------------
(***************************************************************************)
(* The value operations of the JIT.  ExecIrBuilder (ir/mod.rs) turns a      *)
(* guest-level operation into statements over SSA values, refusing operands *)
(* of the wrong types; the Cranelift back end and the GCC back end each     *)
(* lower the statements and terminators.  The module runs what the builder  *)
(* emits, one statement at a time, as either back end compiles it.          *)
(*                                                                          *)
(* A request is one call of the builder with the values its operands will   *)
(* have at run time.  SSA values carry the names the builder's code gives   *)
(* them.  A byte of host memory is one bit here, so the width of an integer *)
(* is also its size.                                                        *)
(***************************************************************************)
EXTENDS Integers, Sequences, FiniteSets, TLC, Bitwise

CONSTANTS
    Widths,     \* the integer widths operands have
    I64,        \* the one that is a register's
    I32,        \* the width of PSTATE and of halt reasons
    Requests    \* the builder calls: [op, sub, tx, x, ty, y, tz, z, n], the
                \* types and run-time values of up to three operands, a
                \* variant and a number (an immediate, a register width)

\* TypeFull: an integer type is its width, 0 is Bool, 99 is HostPtr
Bool == 0
HostPtr == 99
Ints == Widths \cup {I32}

\* As for 8 to 64 bits: a width is a value of every integer type (a shift
\* amount is compared with it), and Bool and HostPtr are no widths.
ASSUME WidthsAssumption ==
    /\ Ints \subseteq 2..16 /\ I64 \in Widths /\ I32 >= 5
    /\ \A v, w \in Ints : v < 2^w

Values(t) == CASE t = Bool -> 0..1 [] t = HostPtr -> {0} [] OTHER -> 0..(2^t - 1)

VARIABLES
    req,        \* the builder call and the operands' values
    phase,      \* "build", "run", "panicked", "unlowered", "returned" or "trapped"
    backend,    \* "clif" or "gcc"
    blocks,     \* block -> [parameters, stmts, terminator], as emitted
    at,         \* <<block, index of the next statement>>
    vals,       \* SSA value -> [t, v], those defined so far
    state,      \* ExecState: field -> its bytes in host order
    code        \* what the compiled function returned

vars == <<req, phase, backend, blocks, at, vals, state, code>>

----------------------------------------------------------------------------
(* Two's complement                                                          *)

Wrap(v, w) == v % 2^w
Signed(v, w) == IF v >= 2^(w - 1) THEN v - 2^w ELSE v
TruncDiv(a, b) ==      \* rounds toward zero
    LET q == (IF a < 0 THEN -a ELSE a) \div (IF b < 0 THEN -b ELSE b)
    IN  IF (a < 0) = (b < 0) THEN q ELSE -q
Flag(p) == IF p THEN 1 ELSE 0

\* IConst::min_negative and negative_one
min_negative(w) == 2^(w - 1)
negative_one(w) == Wrap(2^w - 1, w)

\* PState: the four condition flags and the bits that are none
PState == [N |-> 16, Z |-> 8, C |-> 4, V |-> 2]
NZCV_MASK == 30
NotNzcvMask == 2^I32 - 1 - NZCV_MASK

----------------------------------------------------------------------------
(* Statements (StmtKind) and terminators                                     *)

Stmt(k, out, args, sub, imm, w) ==
    [k |-> k, out |-> out, args |-> args, sub |-> sub, imm |-> imm, w |-> w]

IConst(out, w, n) == Stmt("IConst", <<out>>, <<>>, "", n, w)
ArithBinOp(out, op, l, r) == Stmt("ArithBinOp", <<out>>, <<l, r>>, op, 0, 0)
OverflowingBinOp(out, v, op, l, r) ==
    Stmt("OverflowingBinOp", <<out, v>>, <<l, r>>, op, 0, 0)
IntCmp(out, cmp, l, r) == Stmt("IntCmp", <<out>>, <<l, r>>, cmp, 0, 0)
IntCmpImm(out, cmp, l, n) == Stmt("IntCmpImm", <<out>>, <<l>>, cmp, n, 0)
Select(out, c, a, b) == Stmt("Select", <<out>>, <<c, a, b>>, "", 0, 0)
BitwiseOp(out, op, l, r) == Stmt("Bitwise", <<out>>, <<l, r>>, op, 0, 0)
BitwiseImm(out, op, l, n) == Stmt("BitwiseImm", <<out>>, <<l>>, op, n, 0)
LoadHost(out, field, offset, w) == Stmt("LoadHost", <<out>>, <<>>, field, offset, w)
StoreHost(field, v) == Stmt("StoreHost", <<>>, <<v>>, field, 0, 0)

Jump(target, parameters) == [target |-> target, parameters |-> parameters]
Return == [kind |-> "Return", cond |-> "", targets |-> <<>>]
ReturnCode(v) == [kind |-> "ReturnCode", cond |-> v, targets |-> <<>>]
Br(j) == [kind |-> "Br", cond |-> "", targets |-> <<j>>]
BrZ(c, zero, non_zero) ==
    [kind |-> "BrZ", cond |-> c, targets |-> <<zero, non_zero>>]
BrNZ(c, non_zero, zero) == BrZ(c, zero, non_zero)

\* terminate_block: two branches that do the same become one
terminate_block(t) ==
    IF t.kind = "BrZ" /\ t.targets[1] = t.targets[2] THEN Br(t.targets[1]) ELSE t

BlockData(parameters, stmts, terminator) ==
    [parameters |-> parameters, stmts |-> stmts,
     terminator |-> terminate_block(terminator)]

\* type_of
type_of(s) ==
    LET lhs == vals[s.args[1]].t
    IN  CASE s.k \in {"IConst", "LoadHost"} -> <<s.w>>
          [] s.k = "OverflowingBinOp" -> <<lhs, Bool>>
          [] s.k \in {"IntCmp", "IntCmpImm"} -> <<Bool>>
          [] s.k = "StoreHost" -> <<>>
          [] s.k = "Select" -> <<vals[s.args[2]].t>>
          [] OTHER -> <<lhs>>

----------------------------------------------------------------------------
(* What the builder emits.  The operands are "lhs", "rhs" and "third", the   *)
(* result is "out".                                                          *)

same_int_ty(a, b) == a \in Ints /\ a = b

\* Mutant: pointers may be combined bitwise.
MutPointersToo(a, b) == a = b

bitwise_type_guard(a, b) == a = b /\ a # HostPtr

udiv(w) ==
    << IConst("zero", w, 0), IConst("one", w, 1),
       IntCmpImm("rhs_is_zero", "Equal", "rhs", 0),
       Select("safe_rhs", "rhs_is_zero", "one", "rhs"),
       ArithBinOp("quotient", "UncheckedUDiv", "lhs", "safe_rhs"),
       Select("out", "rhs_is_zero", "zero", "quotient") >>

sdiv(w) ==
    << IConst("zero", w, 0), IConst("one", w, 1),
       IntCmpImm("rhs_is_zero", "Equal", "rhs", 0),
       IntCmpImm("lhs_is_min", "Equal", "lhs", min_negative(w)),
       IntCmpImm("rhs_is_minus_one", "Equal", "rhs", negative_one(w)),
       BitwiseOp("is_overflow", "And", "lhs_is_min", "rhs_is_minus_one"),
       BitwiseOp("use_safe_rhs", "Or", "rhs_is_zero", "is_overflow"),
       Select("safe_rhs", "use_safe_rhs", "one", "rhs"),
       ArithBinOp("quotient", "UncheckedSDiv", "lhs", "safe_rhs"),
       Select("out", "rhs_is_zero", "zero", "quotient") >>

set_nzcv_flags ==
    << LoadHost("old_flags", "pstate", 0, I32), IConst("zeroed", I32, 0),
       IConst("n_flag_true", I32, PState.N), IConst("z_flag_true", I32, PState.Z),
       IConst("c_flag_true", I32, PState.C), IConst("v_flag_true", I32, PState.V),
       Select("n_flag", "n", "n_flag_true", "zeroed"),
       Select("z_flag", "z", "z_flag_true", "zeroed"),
       Select("c_flag", "c", "c_flag_true", "zeroed"),
       Select("v_flag", "v", "v_flag_true", "zeroed"),
       BitwiseOp("nz_flag", "Or", "n_flag", "z_flag"),
       BitwiseOp("cv_flag", "Or", "c_flag", "v_flag"),
       BitwiseOp("nzcv_flags", "Or", "nz_flag", "cv_flag"),
       BitwiseImm("masked_out_flags", "And", "old_flags", NotNzcvMask),
       BitwiseOp("new_flags", "Or", "masked_out_flags", "nzcv_flags"),
       StoreHost("pstate", "new_flags") >>

emit_flag_setting_binop(op) ==
    << OverflowingBinOp("out", "v", op, "lhs", "rhs"),
       IntCmpImm("n", "SignedLessThan", "out", 0),
       IntCmpImm("z", "Equal", "out", 0),
       IF op = "Add" THEN IntCmp("c", "UnsignedLessThan", "out", "lhs")
       ELSE IntCmp("c", "UnsignedGreaterThanOrEqual", "lhs", "rhs") >>
    \o set_nzcv_flags

\* load_from_64_bit_processor_register: where in the register's slot a load
\* of w bytes starts
RegisterOffset(w, endian) == IF endian = "little" THEN 0 ELSE I64 - w

emit_shift_op(k, op) == << Stmt(k, <<"out">>, <<"lhs", "rhs">>, op, 0, 0) >>
emit_shift_imm_op(op, n) == << Stmt("ShiftImm", <<"out">>, <<"lhs">>, op, n, 0) >>

emit_unbounded_shift_imm_op(op, w, bits) ==
    IF bits < w
    THEN emit_shift_imm_op(op, bits)
    ELSE IF op = "SignExtendShr"
    THEN emit_shift_imm_op(op, w - 1)
    ELSE << IConst("out", w, 0) >>

StraightLine(r) ==
    LET w == r.tx
    IN  CASE r.op = "arith" -> << ArithBinOp("out", r.sub, "lhs", "rhs") >>
          [] r.op = "iadd_imm" -> << IConst("rhs_imm", r.ty, r.y),
                                     ArithBinOp("out", "Add", "lhs", "rhs_imm") >>
          [] r.op = "udiv" -> udiv(w)
          [] r.op = "sdiv" -> sdiv(w)
          [] r.op = "ineg" -> << Stmt("IntNeg", <<"out">>, <<"lhs">>, "", 0, 0) >>
          [] r.op = "flags" -> emit_flag_setting_binop(r.sub)
          [] r.op = "icmp" -> << IntCmp("out", r.sub, "lhs", "rhs") >>
          [] r.op = "icmp_imm" -> << IntCmpImm("out", r.sub, "lhs", r.y) >>
          [] r.op = "select" -> << Select("out", "lhs", "rhs", "third") >>
          [] r.op = "bitwise" -> << BitwiseOp("out", r.sub, "lhs", "rhs") >>
          [] r.op = "bitwise_imm" -> << BitwiseImm("out", r.sub, "lhs", r.y) >>
          [] r.op = "bitnot" -> << Stmt("BitNot", <<"out">>, <<"lhs">>, "", 0, 0) >>
          [] r.op = "shift" -> emit_shift_op("Shift", r.sub)
          [] r.op = "shift_unbounded" -> emit_shift_op("ShiftUnbounded", r.sub)
          [] r.op = "shift_imm" -> emit_shift_imm_op(r.sub, r.n % w)
          [] r.op = "shift_exact_imm" -> emit_shift_imm_op(r.sub, r.n)
          [] r.op = "shift_unbounded_imm" -> emit_unbounded_shift_imm_op(r.sub, w, r.n)
          [] r.op = "load_x_reg" -> << LoadHost("out", "x", RegisterOffset(r.n, r.sub), r.n) >>
          [] r.op = "store_x_reg" -> << StoreHost("x", "lhs") >>
          [] r.op = "next_insn" -> << LoadHost("pc", "x", 0, I64), IConst("four", I64, 4),
                                      ArithBinOp("new_pc", "Add", "pc", "four"),
                                      StoreHost("x", "new_pc") >>

\* A branch on lhs that passes rhs and third, or rhs twice, to one block
Diamond(r) ==
    "entry" :> BlockData(<<>>, <<>>,
                  BrZ("lhs", Jump("join", <<"rhs">>),
                             Jump("join", <<IF r.n = 1 THEN "rhs" ELSE "third">>))) @@
    "join" :> BlockData(<<"out">>, <<>>, Return)

\* A loop over two parameters and a trip count, whose back edge passes the
\* parameters on in the order r.sub names.
BackEdge == [keep |-> <<"p", "q">>, swap |-> <<"q", "p">>,
             first |-> <<"p", "p">>, second |-> <<"q", "q">>]
Loop(r) ==
    "entry" :> BlockData(<<>>, << IConst("trips", I32, r.n) >>,
                  Br(Jump("head", <<"lhs", "rhs", "trips">>))) @@
    "head" :> BlockData(<<"p", "q", "left">>,
                  << IConst("one", I32, 1),
                     ArithBinOp("fewer", "Sub", "left", "one") >>,
                  BrNZ("left", Jump("head", BackEdge[r.sub] \o <<"fewer">>),
                               Jump("exit", <<"p">>))) @@
    "exit" :> BlockData(<<"out">>, <<>>, Return)

\* assert_or_jmp_to: the targets on zero and on non-zero
AssertTargets(expected) ==
    IF expected = 1 THEN <<"fail", "success">> ELSE <<"success", "fail">>

assert_or_jmp_to(r) ==
    "entry" :> BlockData(<<>>, <<>>,
                  LET t == AssertTargets(r.n)
                  IN  BrZ("lhs", Jump(t[1], <<>>), Jump(t[2], <<>>))) @@
    "success" :> BlockData(<<>>, <<>>, Return) @@
    "fail" :> BlockData(<<>>, << IConst("trap_value", I32, 4) >>, ReturnCode("trap_value"))

Emitted(r) ==
    CASE r.op = "diamond" -> Diamond(r)
      [] r.op = "loop" -> Loop(r)
      [] r.op = "assert" -> assert_or_jmp_to(r)
      [] r.op = "return_code" -> "entry" :> BlockData(<<>>, <<>>, ReturnCode("lhs"))
      [] OTHER -> "entry" :> BlockData(<<>>, StraightLine(r), Return)

\* the assertions of the builder
Accepts(r) ==
    CASE r.op \in {"arith", "iadd_imm", "udiv", "sdiv", "flags", "icmp", "icmp_imm"} ->
                                        same_int_ty(r.tx, r.ty)
      [] r.op = "select" -> r.tx = Bool /\ r.ty = r.tz
      [] r.op \in {"bitwise", "bitwise_imm"} -> bitwise_type_guard(r.tx, r.ty)
      [] r.op = "bitnot" -> bitwise_type_guard(r.tx, r.tx)
      [] r.op \in {"shift", "shift_unbounded"} -> r.tx \in Ints /\ r.ty \in Ints
      [] r.op \in {"ineg", "shift_imm", "shift_unbounded_imm", "return_code"} -> r.tx \in Ints
      [] r.op = "shift_exact_imm" -> r.tx \in Ints /\ r.n < r.tx
      [] r.op = "store_x_reg" -> r.tx = I64
      [] r.op \in {"diamond", "assert"} -> r.tx \in Ints \cup {Bool}
      [] r.op \in {"loop", "load_x_reg", "next_insn"} -> TRUE

----------------------------------------------------------------------------
(* What the back ends make of a statement                                    *)

V(s, i) == vals[s.args[i]].v
T(s, i) == vals[s.args[i]].t

Compare(cmp, w, a, b) ==
    LET sa == Signed(a, w)  sb == Signed(b, w)
    IN  CASE cmp = "Equal" -> a = b
          [] cmp = "NotEqual" -> a # b
          [] cmp = "SignedLessThan" -> sa < sb
          [] cmp = "SignedLessThanOrEqual" -> sa <= sb
          [] cmp = "SignedGreaterThan" -> sa > sb
          [] cmp = "SignedGreaterThanOrEqual" -> sa >= sb
          [] cmp = "UnsignedLessThan" -> a < b
          [] cmp = "UnsignedLessThanOrEqual" -> a <= b
          [] cmp = "UnsignedGreaterThan" -> a > b
          [] cmp = "UnsignedGreaterThanOrEqual" -> a >= b

ShiftBy(op, w, v, n) ==
    CASE op = "Shl" -> Wrap(v * 2^n, w)
      [] op = "ZeroExtendShr" -> v \div 2^n
      [] op = "SignExtendShr" -> Wrap(Signed(v, w) \div 2^n, w)

BitOp(op, a, b) == CASE op = "And" -> a & b [] op = "Or" -> a | b [] op = "Xor" -> a ^^ b

\* A value of host memory, its bytes in the order of the host
Bytes(v, w, endian) ==
    [i \in 1..w |-> (v \div 2^(IF endian = "little" THEN i - 1 ELSE w - i)) % 2]
OfBytes(b, endian) ==
    LET w == Len(b)
        sum[i \in 0..w] == IF i = 0 THEN 0
            ELSE sum[i - 1] + b[i] * 2^(IF endian = "little" THEN i - 1 ELSE w - i)
    IN  sum[w]
Endian == IF req.op = "load_x_reg" THEN req.sub ELSE "little"

\* what both back ends do alike
Common(s) ==
    CASE s.k = "IConst" -> <<s.imm>>
      [] s.k = "IntNeg" -> << Wrap(-V(s, 1), T(s, 1)) >>
      [] s.k = "IntCmp" -> << Flag(Compare(s.sub, T(s, 1), V(s, 1), V(s, 2))) >>
      [] s.k = "IntCmpImm" -> << Flag(Compare(s.sub, T(s, 1), V(s, 1), s.imm)) >>
      [] s.k = "Select" -> << IF V(s, 1) # 0 THEN V(s, 2) ELSE V(s, 3) >>
      [] s.k = "Bitwise" -> << BitOp(s.sub, V(s, 1), V(s, 2)) >>
      [] s.k = "BitwiseImm" -> << BitOp(s.sub, V(s, 1), s.imm) >>
      [] s.k = "ShiftImm" -> << ShiftBy(s.sub, T(s, 1), V(s, 1), s.imm) >>
      [] s.k = "LoadHost" -> << OfBytes(SubSeq(state[s.sub], s.imm + 1, s.imm + s.w), Endian) >>
      [] s.k = "StoreHost" -> <<>>
      [] s.k = "ArithBinOp" ->
            LET w == T(s, 1)  a == V(s, 1)  b == V(s, 2)
            IN  << CASE s.sub = "Add" -> Wrap(a + b, w)
                     [] s.sub = "Sub" -> Wrap(a - b, w)
                     [] s.sub = "Mul" -> Wrap(a * b, w)
                     [] s.sub = "UncheckedUDiv" -> a \div b
                     [] s.sub = "UncheckedSDiv" ->
                            Wrap(TruncDiv(Signed(a, w), Signed(b, w)), w) >>

\* Cranelift: shifts reduce the amount themselves, sadd_overflow and
\* ssub_overflow report the overflow, and a Bool is an I8 (of the smallest
\* width here).
BoolBits == CHOOSE w \in Ints : \A v \in Ints : w <= v
ClifRvalue(s) ==
    LET w == T(s, 1)  a == V(s, 1)  b == V(s, 2)
    IN  CASE s.k = "BitNot" -> << 2^(IF w = Bool THEN BoolBits ELSE w) - 1 - a >>
          [] s.k = "Shift" -> << ShiftBy(s.sub, w, a, b % w) >>
          [] s.k = "ShiftUnbounded" ->
                LET in_range == b < w
                    shifted == ShiftBy(s.sub, w, a, b % w)
                    overflow_val == IF s.sub = "SignExtendShr"
                                    THEN ShiftBy("SignExtendShr", w, a, w - 1) ELSE 0
                IN  << IF in_range THEN shifted ELSE overflow_val >>
          [] s.k = "OverflowingBinOp" ->
                LET sum == IF s.sub = "Add" THEN a + b ELSE a - b
                    sgn(v) == Signed(v, w) < 0
                    v == Wrap(sum, w)
                IN  << v, Flag(/\ (sgn(a) = sgn(b)) <=> (s.sub = "Add")
                               /\ sgn(v) # sgn(a)) >>
          [] OTHER -> Common(s)

\* Mutant: the sum is compared before it is truncated and sign-extended.
MutGccUnsignedSum(s) ==
    LET w == T(s, 1)
        wide == IF s.sub = "Add" THEN V(s, 1) + V(s, 2) ELSE V(s, 1) - V(s, 2)
    IN  CASE s.k = "OverflowingBinOp" -> << Wrap(wide, w), Flag(Wrap(wide, w) # wide) >>
          [] OTHER -> ClifRvalue(s)

\* libgccjit: rvalues are expressions evaluated where they are assigned, so
\* only the chosen arm of a ternary is; the overflow flag is found by widening
\* to i128.  GCC's bool has one bit.
GccRvalue(s) ==
    LET w == T(s, 1)  a == V(s, 1)  b == V(s, 2)
    IN  CASE s.k = "BitNot" -> << 2^(IF w = Bool THEN 1 ELSE w) - 1 - a >>
          [] s.k = "Shift" -> << ShiftBy(s.sub, w, a, b) >>
          [] s.k = "ShiftUnbounded" ->
                << IF b < w THEN ShiftBy(s.sub, w, a, b)
                   ELSE IF s.sub = "SignExtendShr"
                   THEN ShiftBy("SignExtendShr", w, a, w - 1) ELSE 0 >>
          [] s.k = "OverflowingBinOp" ->
                LET wide == IF s.sub = "Add" THEN Signed(a, w) + Signed(b, w)
                            ELSE Signed(a, w) - Signed(b, w)
                    truncated == Wrap(wide, w)
                IN  << truncated, Flag(wide # Signed(truncated, w)) >>
          [] OTHER -> Common(s)

\* division that ArithBinOp leaves undefined: Cranelift traps, GCC is free
BadDivision(s) ==
    /\ s.k = "ArithBinOp"
    /\ \/ s.sub \in {"UncheckedUDiv", "UncheckedSDiv"} /\ V(s, 2) = 0
       \/ /\ s.sub = "UncheckedSDiv" /\ V(s, 1) = min_negative(T(s, 1))
          /\ V(s, 2) = negative_one(T(s, 1))
\* lower_shift does not reduce the amount
BadShift(s) == backend = "gcc" /\ s.k = "Shift" /\ V(s, 2) >= T(s, 1)

\* the types a back end can lower: the verifier of Cranelift, the checks of
\* libgccjit and the bail! and ensure! of the two modules
Lowerable(s) ==
    CASE s.k \in {"ArithBinOp", "OverflowingBinOp", "IntCmp"} -> same_int_ty(T(s, 1), T(s, 2))
      [] s.k = "Bitwise" -> T(s, 1) = T(s, 2) /\ T(s, 1) # HostPtr
      [] s.k = "Select" -> T(s, 1) = Bool /\ T(s, 2) = T(s, 3)
      [] s.k \in {"IntNeg", "IntCmpImm"} -> T(s, 1) \in Ints
      [] s.k \in {"BitNot", "BitwiseImm"} -> T(s, 1) # HostPtr
      [] s.k = "Shift" -> /\ {T(s, 1), T(s, 2)} \subseteq Ints
                          /\ backend = "gcc" => T(s, 1) = T(s, 2) \/ s.sub = "SignExtendShr"
      [] s.k = "ShiftUnbounded" -> {T(s, 1), T(s, 2)} \subseteq Ints
      [] s.k = "ShiftImm" -> T(s, 1) \in Ints /\ s.imm < T(s, 1)
      [] s.k = "LoadHost" -> s.imm + s.w <= Len(state[s.sub])
      [] s.k = "StoreHost" -> T(s, 1) = Len(state[s.sub])
      [] s.k = "IConst" -> s.imm \in Values(s.w)

LowerableTerminator(t) ==
    CASE t.kind = "ReturnCode" -> vals[t.cond].t = I32
      [] t.kind = "BrZ" -> vals[t.cond].t # HostPtr
      [] OTHER -> TRUE

----------------------------------------------------------------------------
(* Building and running                                                      *)

Operands(r) ==
    "lhs" :> [t |-> r.tx, v |-> r.x] @@ "rhs" :> [t |-> r.ty, v |-> r.y]
    @@ "third" :> [t |-> r.tz, v |-> r.z]

Build ==
    /\ phase = "build"
    /\ IF Accepts(req)
       THEN /\ blocks' = Emitted(req)
            /\ phase' = "run"
            /\ backend' \in {"clif", "gcc"}
       ELSE /\ phase' = "panicked" /\ UNCHANGED <<blocks, backend>>
    /\ UNCHANGED <<req, at, vals, state, code>>

Block == blocks[at[1]]
AtTerminator == phase = "run" /\ at[2] > Len(Block.stmts)

\* lower_stmt, executed.  Types are known when the chunk is compiled: a statement
\* that cannot be lowered is an error of the compilation, noticed here when it is met.
ExecStmt ==
    /\ phase = "run" /\ ~AtTerminator
    /\ LET s == Block.stmts[at[2]]
           ty == type_of(s)
           defined == IF backend = "clif" THEN ClifRvalue(s) ELSE GccRvalue(s)
           results == IF BadShift(s) THEN {<<v>> : v \in Values(ty[1])} ELSE {defined}
       IN  IF ~Lowerable(s)
           THEN phase' = "unlowered" /\ UNCHANGED <<at, vals, state>>
           ELSE IF BadDivision(s)
           THEN phase' = "trapped" /\ UNCHANGED <<at, vals, state>>
           ELSE \E r \in results :
                /\ vals' = [name \in {s.out[i] : i \in DOMAIN s.out} |->
                               LET i == CHOOSE j \in DOMAIN s.out : s.out[j] = name
                               IN  [t |-> ty[i], v |-> r[i]]] @@ vals
                /\ state' = IF s.k = "StoreHost"
                            THEN [state EXCEPT ![s.sub] = Bytes(V(s, 1), T(s, 1), Endian)]
                            ELSE state
                /\ at' = <<at[1], at[2] + 1>>
                /\ UNCHANGED phase
    /\ UNCHANGED <<req, backend, blocks, code>>

\* Cranelift passes all arguments of a jump at once
clif_jump(j) ==
    LET ps == blocks[j.target].parameters
    IN  [name \in {ps[k] : k \in DOMAIN ps} |->
            vals[j.parameters[CHOOSE k \in DOMAIN ps : ps[k] = name]]] @@ vals

\* GCC assigns the target's locals one after the other
emit_jump(j) ==
    LET ps == blocks[j.target].parameters
        after[k \in 0..Len(ps)] ==
            IF k = 0 THEN vals
            ELSE (ps[k] :> after[k - 1][j.parameters[k]]) @@ after[k - 1]
    IN  after[Len(ps)]

\* lower_terminator, executed
ExecTerminator ==
    /\ AtTerminator
    /\ LET t == Block.terminator
           taken == IF t.kind = "BrZ" /\ vals[t.cond].v # 0 THEN 2 ELSE 1
       IN  IF ~LowerableTerminator(t)
           THEN phase' = "unlowered" /\ UNCHANGED <<at, vals, code>>
           ELSE IF t.kind \in {"Br", "BrZ"}
           THEN LET j == t.targets[taken]
                IN  /\ vals' = IF backend = "clif" THEN clif_jump(j) ELSE emit_jump(j)
                    /\ at' = <<j.target, 1>>
                    /\ UNCHANGED <<phase, code>>
           ELSE /\ phase' = "returned"
                /\ code' = IF t.kind = "Return" THEN 0 ELSE vals[t.cond].v
                /\ UNCHANGED <<at, vals>>
    /\ UNCHANGED <<req, backend, blocks, state>>

Finished == phase \in {"panicked", "unlowered", "returned", "trapped"} /\ UNCHANGED vars

\* the state before the request: the register holds lhs (for the operations
\* that read it), PSTATE holds n
InitialState(r) ==
    [x |-> Bytes(IF r.tx = I64 THEN r.x ELSE 0, I64,
                 IF r.op = "load_x_reg" THEN r.sub ELSE "little"),
     pstate |-> Bytes(IF r.op = "flags" THEN r.n ELSE 0, I32, "little")]

Init ==
    /\ req \in Requests
    /\ phase = "build" /\ backend = "none" /\ blocks = <<>>
    /\ at = <<"entry", 1>>
    /\ vals = Operands(req)
    /\ state = InitialState(req)
    /\ code = 0

Next == Build \/ ExecStmt \/ ExecTerminator \/ Finished

Spec == Init /\ [][Next]_vars

----------------------------------------------------------------------------
(* What the builder's documentation promises                                 *)

\* operands the documentation allows
Documented(r) ==
    CASE r.op \in {"arith", "iadd_imm", "udiv", "sdiv", "flags", "icmp", "icmp_imm"} ->
            r.tx = r.ty /\ r.tx \notin {Bool, HostPtr}
      [] r.op \in {"bitwise", "bitwise_imm"} -> r.tx = r.ty /\ r.tx # HostPtr
      [] r.op \in {"bitnot", "diamond", "assert"} -> r.tx # HostPtr
      [] r.op = "select" -> r.tx = Bool /\ r.ty = r.tz
      [] r.op = "shift_exact_imm" -> r.tx \notin {Bool, HostPtr} /\ r.n \in 0..(r.tx - 1)
      [] r.op = "store_x_reg" -> r.tx = I64
      [] r.op \in {"shift", "shift_unbounded"} -> {r.tx, r.ty} \cap {Bool, HostPtr} = {}
      [] r.op \in {"ineg", "shift_imm", "shift_unbounded_imm", "return_code"} ->
            r.tx \notin {Bool, HostPtr}
      [] OTHER -> TRUE

\* a shift by any amount: zeros or copies of the sign bit come in
Shifted(op, w, v, n) ==
    LET sx == Signed(v, w)
    IN  CASE op = "Shl" -> IF n >= w THEN 0 ELSE (v * 2^n) % 2^w
          [] op = "ZeroExtendShr" -> IF n >= w THEN 0 ELSE v \div 2^n
          [] op = "SignExtendShr" -> IF n >= w THEN (IF sx < 0 THEN 2^w - 1 ELSE 0)
                                     ELSE (sx \div 2^n) % 2^w

\* the value of the result, where there is one
Meaning(r) ==
    LET w == r.tx  sx == Signed(r.x, w)  sy == Signed(r.y, w)
        rotate[k \in 0..r.n] ==
            IF k = 0 THEN <<r.x, r.y>>
            ELSE LET p == rotate[k - 1]
                 IN  CASE r.sub = "keep" -> p [] r.sub = "swap" -> <<p[2], p[1]>>
                       [] r.sub = "first" -> <<p[1], p[1]>> [] r.sub = "second" -> <<p[2], p[2]>>
    IN  CASE r.op \in {"arith", "iadd_imm", "flags"} ->
                (CASE r.sub \in {"Add", ""} -> r.x + r.y
                   [] r.sub = "Sub" -> r.x - r.y
                   [] r.sub = "Mul" -> r.x * r.y) % 2^w
          [] r.op = "udiv" -> IF r.y = 0 THEN 0 ELSE r.x \div r.y
          [] r.op = "sdiv" -> IF r.y = 0 THEN 0
                              ELSE IF sx = -(2^(w - 1)) /\ sy = -1 THEN r.x
                              ELSE TruncDiv(sx, sy) % 2^w
          [] r.op = "ineg" -> (2^w - r.x) % 2^w
          [] r.op \in {"icmp", "icmp_imm"} -> Flag(Compare(r.sub, w, r.x, r.y))
          [] r.op = "select" -> IF r.x = 1 THEN r.y ELSE r.z
          [] r.op \in {"bitwise", "bitwise_imm"} -> BitOp(r.sub, r.x, r.y)
          [] r.op = "bitnot" -> IF w = Bool THEN 1 - r.x ELSE 2^w - 1 - r.x
          [] r.op = "shift" -> Shifted(r.sub, w, r.x, r.y % w)
          [] r.op = "shift_unbounded" -> Shifted(r.sub, w, r.x, r.y)
          [] r.op = "shift_imm" -> Shifted(r.sub, w, r.x, r.n % w)
          [] r.op \in {"shift_exact_imm", "shift_unbounded_imm"} -> Shifted(r.sub, w, r.x, r.n)
          [] r.op = "load_x_reg" -> r.x % 2^r.n
          [] r.op = "diamond" -> IF r.x = 0 \/ r.n = 1 THEN r.y ELSE r.z
          [] r.op = "loop" -> rotate[r.n][1]

\* the condition flags of ADDS and SUBS; subtraction carries when it does not
\* borrow, as the code has it (PState::CARRY is documented as set on "borrow")
FlagsMeaning(r) ==
    LET w == r.tx
        sum == IF r.sub = "Add" THEN Signed(r.x, w) + Signed(r.y, w)
               ELSE Signed(r.x, w) - Signed(r.y, w)
        n == sum % 2^w >= 2^(w - 1)
        z == sum % 2^w = 0
        c == IF r.sub = "Add" THEN r.x + r.y >= 2^w ELSE r.x >= r.y
        v == sum \notin -(2^(w - 1))..(2^(w - 1) - 1)
    IN  16 * Flag(n) + 8 * Flag(z) + 4 * Flag(c) + 2 * Flag(v) + (r.n % 2)

\* a finished run did what the request means
AsMeant ==
    /\ "out" \in DOMAIN vals => vals["out"].v = Meaning(req)
    /\ req.op = "flags" => OfBytes(state.pstate, "little") = FlagsMeaning(req)
    /\ req.op = "store_x_reg" => OfBytes(state.x, "little") = req.x
    /\ req.op = "next_insn" => OfBytes(state.x, "little") = (req.x + 4) % 2^I64
    /\ req.op = "assert" => (code # 0) = ((req.x # 0) # (req.n = 1))
    /\ req.op = "return_code" => code = req.x

\* Accepted by the builder and not by a back end: a halt reason that is not an
\* I32, which neither returns (terminate_block takes any integer), and in GCC a
\* logical shift by an amount of another width.
Unlowerable ==
    \/ req.op = "return_code" /\ req.tx # I32
    \/ backend = "gcc" /\ req.op = "shift" /\ req.tx # req.ty /\ req.sub # "SignExtendShr"

\* Where a back end departs from the documentation: Cranelift complements all
\* eight bits of a Bool; GCC does not reduce the amount of a Shift, and assigns
\* block parameters one by one, which a second round of a swap shows.
ClifDeparts == req.op = "bitnot" /\ req.tx = Bool
GccDeparts == \/ req.op = "shift" /\ req.y >= req.tx
              \/ req.op = "loop" /\ req.sub = "swap" /\ req.n >= 2

\* Types of the state; a Bool has the bits the back end gives it.
TypeOK ==
    /\ phase \in {"build", "run", "panicked", "unlowered", "returned", "trapped"}
    /\ backend \in {"none", "clif", "gcc"}
    /\ phase = "run" => at[1] \in DOMAIN blocks /\ at[2] \in 1..(Len(Block.stmts) + 1)
    /\ \A name \in DOMAIN vals :
          vals[name].v \in IF vals[name].t = Bool THEN 0..(2^BoolBits - 1)
                           ELSE Values(vals[name].t)
    /\ state.x \in [1..I64 -> 0..1] /\ state.pstate \in [1..I32 -> 0..1]

\* The builder panics exactly on the operands its documentation excludes.
RejectsExactly ==
    /\ phase = "panicked" => ~Documented(req)
    /\ phase \notin {"build", "panicked"} => Documented(req)

\* What the builder accepts compiles, on either back end, but for the operands of
\* Unlowerable, which never do: statements and terminators have operands of the
\* types the back end requires, immediates in range, and values defined before.
FailsExactly ==
    /\ phase = "unlowered" => Unlowerable
    /\ phase \in {"returned", "trapped"} => ~Unlowerable
    /\ phase = "run" /\ ~AtTerminator =>
          \A i \in DOMAIN Block.stmts[at[2]].args : Block.stmts[at[2]].args[i] \in DOMAIN vals

\* The type checks of the builder against its documentation and the back ends:
\* it panics exactly on the operands its documentation excludes, and of the others
\* a back end refuses exactly the two kinds that Unlowerable names.
BuilderExact == TypeOK /\ RejectsExactly /\ FailsExactly

\* udiv and sdiv keep the two undefined divisions from being executed, on
\* either back end, although select is not lazy.
DivisionDefined == phase # "trapped"

\* What Cranelift compiles computes what the documentation of the builder says
\* of the operation, its flags and its control flow, but for bitnot of a Bool.
ClifAgrees == phase = "returned" /\ backend = "clif" => AsMeant \/ ClifDeparts

\* So does what GCC compiles, but for a Shift by the width or more and a back edge
\* that swaps its parameters.
GccAgrees == phase = "returned" /\ backend = "gcc" => AsMeant \/ GccDeparts

\* What compiles means what the builder documents of it, with either back end and
\* at every edge of the operands, except in the three cases of ClifDeparts and
\* GccDeparts (README, section 5), about which this says nothing.
BackEndsAgree == DivisionDefined /\ ClifAgrees /\ GccAgrees

\* "A branch edge: a target Block plus the values passed as its block
\* parameters": the parameters of a block get the values the jump passes.
\* GCC's emit_jump does not keep this (README, section 5); IrOps_jump.cfg
\* reproduces it.
JumpPassesValues ==
    phase = "returned" /\ req.op \in {"loop", "diamond"} => AsMeant

\* "Shift with the amount reduced modulo the value's width."  GCC's lower_shift
\* does not keep this (README, section 5); IrOps_shift.cfg reproduces it.
ShiftReduces == phase = "returned" /\ req.op = "shift" => AsMeant
=============================================================================

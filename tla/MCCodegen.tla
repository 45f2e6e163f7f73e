----------------------------- MODULE MCCodegen -----------------------------
(***************************************************************************)
(* Function bodies for Codegen; a RISC-V machine that runs the code; and   *)
(* the meaning of a body, defined by recursion on its nodes.               *)
(***************************************************************************)
EXTENDS Codegen, Ast

MaxSteps == 250
MaxTurns == 6
NoValue == -1  \* of a return without an expression

\* Variables a body uses by name; the others are the parser's.
Integer == {"bool", "char", "uchar", "short", "ushort", "int", "uint", "long", "ulong"}
A == [t \in Integer \cup {"double"} |-> Var("a_" \o t, t)]
B == [t \in Integer \cup {"double"} |-> Var("b_" \o t, t)]
Named == {"x", "y", "d", "r"} \cup {A[t].var : t \in DOMAIN A} \cup {B[t].var : t \in DOMAIN B}

\* What an object of type t holds: its bytes as a signed number.
Rep(v, t) == IF t \in Integer THEN SignExtended(v, size[t]) ELSE v

\* The values around which types differ.
Most(n) == 2 ^ (n * ByteBits - 1) - 1
Edges(t) ==
  CASE t = "bool" -> <<0, 1, 0, 1, 1>>
    [] t = "double" -> <<0, 1, -3, 4, 2 * Most(1)>>
    [] is_unsigned(t) -> <<0, 1, 2, Most(size[t]), 2 * Most(size[t]) + 1>>
    [] OTHER -> <<0, 1, -1, Most(size[t]), -Most(size[t]) - 1>>

Memory(i, j) ==
  LET zero == [v \in Named \cup {"t1", "t2", "t3", "t4", "t5"} |-> 0]
      first(v) == \E t \in DOMAIN A : A[t].var = v
      second(v) == \E t \in DOMAIN B : B[t].var = v
      type(v) == CHOOSE t \in DOMAIN A : v \in {A[t].var, B[t].var}
  IN  [v \in DOMAIN zero |->
         CASE first(v) -> Rep(Edges(type(v))[i], type(v))
           [] second(v) -> Rep(Edges(type(v))[j], type(v))
           [] OTHER -> 0]

\* What a function outside returns.  The truth of a bool is in the low byte of a0;
\* what is above it is left over.
Result(f, args) ==
  CASE f = "is_one" -> Truth(args[1] = 1)
    [] f # "is_one" /\ args = <<>> -> 1
    [] OTHER -> IF args[1] \in 0 .. 99 THEN args[1] + 1 ELSE 0
Returned(f, args) == Result(f, args) + IF f = "is_one" THEN 2 ^ ByteBits ELSE 0
-----------------------------------------------------------------------------
(* The machine.                                                            *)

Boot(memory) ==
  [pc |-> 1, s |-> [k \in 0 .. NRegs - 1 |-> 2], fs |-> [k \in 0 .. NRegs - 1 |-> 2],
   a |-> <<2, 2>>, a0 |-> 2, mem |-> memory, ra |-> "caller", stack |-> <<>>, trace |-> <<>>]

Get(m, r) == IF r[1] = "s" THEN m.s[r[2]] ELSE m.fs[r[2]]
Put(m, r, v) ==
  IF r[1] = "s" THEN [m EXCEPT !.s[r[2]] = v, !.pc = @ + 1]
                ELSE [m EXCEPT !.fs[r[2]] = v, !.pc = @ + 1]
Go(m, l) == [m EXCEPT !.pc = CHOOSE k \in Places(l) : TRUE]
Past(m) == [m EXCEPT !.pc = @ + 1]

Of3 == {"add", "sub", "mul", "div", "divu", "rem", "remu", "and", "or", "xor", "sll", "srl", "sra",
        "slt", "sltu", "fadd", "fsub", "fmul", "fdiv", "feq", "flt", "fle"}
Bits == 8 * ByteBits
\* Only the low bits of a shift count are looked at; a division by zero does not trap.
Alu(op, a, b) ==
  CASE op = "add" -> Reg(a + b)
    [] op = "sub" -> Reg(a - b)
    [] op = "mul" -> Reg(a * b)
    [] op = "div" -> IF b = 0 THEN -1 ELSE Reg(Quotient(a, b))
    [] op = "divu" -> IF b = 0 THEN -1 ELSE Divide(a, b, TRUE)
    [] op = "rem" -> IF b = 0 THEN a ELSE Remainder(a, b)
    [] op = "remu" -> IF b = 0 THEN a ELSE Reg(Low(a, 8) % Low(b, 8))
    [] op = "and" -> BitAnd(a, b)
    [] op = "or" -> BitOr(a, b)
    [] op = "xor" -> BitXor(a, b)
    [] op = "sll" -> ShiftLeft(a, b % Bits)
    [] op = "srl" -> ShiftRight(a, b % Bits, TRUE)
    [] op = "sra" -> ShiftRight(a, b % Bits, FALSE)
    [] op = "slt" -> Truth(a < b)
    [] op = "sltu" -> Truth(Low(a, 8) < Low(b, 8))
    [] op = "fadd" -> a + b
    [] op = "fsub" -> a - b
    [] op = "fmul" -> TimesDouble(a, b)
    [] op = "fdiv" -> OverDouble(a, b)
    [] op = "feq" -> Truth(a = b)
    [] op = "flt" -> Truth(a < b)
    [] op = "fle" -> Truth(a <= b)

Execute(m) ==
  LET i == code[m.pc]
      val(k) == Get(m, i.regs[k])
      loaded(v, n, uns) == IF n = 8 THEN v ELSE Extended(v, n, uns)
  IN  CASE i.op = "label" -> Past(m)
        [] i.op \in {"li", "addr"} -> Put(m, i.regs[1], i.arg[1])
        [] i.op = "load" -> Put(m, i.regs[1], loaded(m.mem[val(2)], i.arg[1], i.arg[2]))
        [] i.op = "fld" -> Put(m, i.regs[1], m.mem[val(2)])
        [] i.op = "store" ->
             Past([m EXCEPT !.mem[val(2)] = IF i.arg[1] = 8 THEN val(1) ELSE SignExtended(val(1), i.arg[1])])
        [] i.op = "fsd" -> Past([m EXCEPT !.mem[val(2)] = val(1)])
        [] i.op = "extend" -> Put(m, i.regs[1], Extended(val(2), i.arg[1], i.arg[2]))
        [] i.op \in {"seqz", "feqz"} -> Put(m, i.regs[1], Truth(val(2) = 0))
        [] i.op = "snez" -> Put(m, i.regs[1], Truth(val(2) # 0))
        [] i.op = "not" -> Put(m, i.regs[1], -1 - val(2))
        [] i.op = "fcvt.l.d" -> Put(m, i.regs[1], Reg(ToInteger(val(2))))
        [] i.op = "fcvt.d.l" -> Put(m, i.regs[1], ToDouble(val(2)))
        [] i.op \in Of3 -> Put(m, i.regs[1], Alu(i.op, val(2), val(3)))
        [] i.op = "j" -> Go(m, i.arg)
        [] i.op = "beqz" -> IF val(1) = 0 THEN Go(m, i.arg) ELSE Past(m)
        [] i.op = "bnez" -> IF val(1) # 0 THEN Go(m, i.arg) ELSE Past(m)
        [] i.op = "li a0" -> Past([m EXCEPT !.a0 = i.arg[1]])
        [] i.op = "beq a0" -> IF val(1) = m.a0 THEN Go(m, i.arg) ELSE Past(m)
        [] i.op = "mv a0" -> Past([m EXCEPT !.a0 = val(1)])
        [] i.op = "push ra" -> Past([m EXCEPT !.stack = Append(@, m.ra)])
        [] i.op = "pop ra" -> Past([m EXCEPT !.ra = Last(m.stack), !.stack = Front(@)])
        [] i.op = "arg" ->
             Past([m EXCEPT !.a[i.arg[1]] = loaded(m.mem[i.arg[2]], i.arg[3], i.arg[4])])
        [] i.op = "jalr" ->
             LET args == SubSeq(m.a, 1, i.arg[1])
             IN  Past([m EXCEPT !.trace = Append(@, <<val(1), args>>), !.a0 = Returned(val(1), args),
                                !.a = <<2, 2>>, !.ra = "here"])
        [] i.op = "andi a0" -> Past([m EXCEPT !.a0 = Low(@, 1)])
        [] i.op = "mv result" -> Put(m, i.regs[1], m.a0)

RECURSIVE Run(_, _)
Run(m, n) == IF n = 0 \/ m.pc > Len(code) THEN m ELSE Run(Execute(m), n - 1)
-----------------------------------------------------------------------------
(* The meaning, by the rules of C.  Casts that add_type inserted are looked *)
(* through.  how is "run", or why the statements behind are not run.       *)

Then(st, next) == IF st.how = "run" THEN next ELSE st
Give(st, v) == [st EXCEPT !.v = v]
Undefined(st) == [st EXCEPT !.how = "undefined"]

Rank(t) == IF size[t] < 4 THEN 4 ELSE size[t]
Promote(t) == IF t \in Integer /\ size[t] < 4 THEN "int" ELSE t
\* The type of a op b: unsigned if one of those with the higher rank is.
Usual(t, u) ==
  LET rank == IF Rank(t) < Rank(u) THEN Rank(u) ELSE Rank(t)
      uns == \E v \in {t, u} : Promote(v) = v /\ Rank(v) = rank /\ is_unsigned(v)
  IN  CASE "double" \in {t, u} -> "double"
        [] "double" \notin {t, u} /\ rank = 4 -> IF uns THEN "uint" ELSE "int"
        [] OTHER -> IF uns THEN "ulong" ELSE "long"

Shifts == {"ND_SHL", "ND_SHR"}
RECURSIVE CType(_)
CType(n) ==
  CASE n.kind \in Comparisons \cup {"ND_NOT", "ND_LOGAND", "ND_LOGOR"} -> "int"
    [] n.kind \in Shifts \cup {"ND_BITNOT"} -> Promote(CType(n.lhs))
    [] n.kind \in Binary \ (Comparisons \cup Shifts) -> Usual(CType(n.lhs.lhs), CType(n.rhs.lhs))
    [] n.kind = "ND_COND" /\ n.ty # "void" -> Usual(CType(n.then.lhs), CType(n.els.lhs))
    [] n.kind = "ND_COMMA" -> CType(n.rhs)
    [] OTHER -> n.ty

\* v of type t as a value of type u.
Convert(v, t, u) ==
  CASE u = "bool" -> Truth(v # 0)
    [] u = "double" -> IF t = "double" THEN v ELSE ToDouble(v)
    [] u \in Integer \ {"bool"} ->
         Extended(IF t = "double" THEN ToInteger(v) ELSE v, size[u], is_unsigned(u))
    [] OTHER -> v
Fits(v, t) == Extended(v, size[t], is_unsigned(t)) = v

\* l op r, both of type t; the operands of a shift are as they are.
Exact(kind, l, r, t) ==
  CASE kind = "ND_ADD" -> l + r
    [] kind = "ND_SUB" -> l - r
    [] kind = "ND_MUL" ->
         CASE t = "double" -> TimesDouble(l, r)
           [] t # "double" /\ is_unsigned(t) -> Reg(l) * Reg(r)  \* the same modulo what t holds
           [] OTHER -> l * r
    [] kind = "ND_DIV" -> IF t = "double" THEN OverDouble(l, r) ELSE Quotient(l, r)
    [] kind = "ND_MOD" -> Remainder(l, r)
    [] kind = "ND_BITAND" -> BitAnd(l, r)
    [] kind = "ND_BITOR" -> BitOr(l, r)
    [] kind = "ND_BITXOR" -> BitXor(l, r)
    [] kind = "ND_SHL" -> l * 2 ^ r
    [] kind = "ND_SHR" -> l \div 2 ^ r
    [] kind = "ND_EQ" -> Truth(l = r)
    [] kind = "ND_NE" -> Truth(l # r)
    [] kind = "ND_LT" -> Truth(l < r)
    [] kind = "ND_LE" -> Truth(l <= r)
Allowed(kind, l, r, t) ==
  /\ kind \in {"ND_DIV", "ND_MOD"} => r # 0 /\ Fits(Quotient(l, r), t)
  /\ kind \in Shifts => r \in 0 .. size[t] * ByteBits - 1
  /\ kind = "ND_SHL" /\ ~is_unsigned(t) => l >= 0
  /\ t \in Integer /\ ~is_unsigned(t) => Fits(Exact(kind, l, r, t), t)
Compute(st, kind, l, r, t) ==
  CASE t \in Integer /\ ~Allowed(kind, l, r, t) -> Undefined(st)
    [] kind \in Comparisons \/ t = "double" -> Give(st, Exact(kind, l, r, t))
    [] OTHER -> Give(st, Extended(Exact(kind, l, r, t), size[t], is_unsigned(t)))

\* The value of op on an l and an r of types t and u, with its conversions.
Operate(st, kind, l, t, r, u) ==
  IF kind \in Shifts
  THEN Compute(st, kind, l, r, Promote(t))
  ELSE LET v == Usual(t, u) IN Compute(st, kind, Convert(l, t, v), Convert(r, u, v), v)
ResultType(kind, t, u) ==
  IF kind \in Comparisons THEN "int" ELSE IF kind \in Shifts THEN Promote(t) ELSE Usual(t, u)
Held(mem, v, t) == IF t \in Integer THEN Extended(mem[v], size[t], is_unsigned(t)) ELSE mem[v]

RECURSIVE Means(_, _, _), ExFrom(_, _, _), Turn(_, _, _)
Ev(n, st) == Means("value", n, st)
Loc(n, st) == Means("place", n, st)
Ex(n, st) == Means("effect", n, st)

\* The nodes one after the other, each for its value or its place; v is what they give.
Collect(before, after) == Then(after, Give(after, Append(before.v, after.v)))
Add(item, before) == Collect(before, Means(item[1], item[2], before))
InOrder(items, st) ==
  LET upto[i \in 0 .. Len(items)] ==
        IF i = 0 THEN Give(st, <<>>) ELSE Add(items[i], upto[i - 1])
  IN  upto[Len(items)]
Value(n) == <<"value", n>>
Place(n) == <<"place", n>>

PlaceOf(n, st) ==
  CASE n.kind = "ND_VAR" -> Give(st, n.var)
    [] n.kind = "ND_DEREF" -> Ev(n.lhs, st)
    [] n.kind = "ND_COMMA" -> Loc(n.rhs, Ev(n.lhs, st))

\* What a node does with what its operands gave.
Converted(t, u, s) == Then(s, Give(s, Convert(s.v, t, u)))
Tested(s) == Then(s, Give(s, Truth(s.v # 0)))
Stored(n, s) == Then(s, [s EXCEPT !.mem[s.v[2]] = Rep(s.v[1], n.ty), !.v = s.v[1]])
Chosen(n, c) ==
  LET taken == IF c.v # 0 THEN n.then ELSE n.els
  IN  Then(c, IF n.ty = "void" THEN Ev(taken, c)
              ELSE Converted(CType(taken.lhs), CType(n), Ev(taken.lhs, c)))
Second(n, l) ==
  Then(l, IF (l.v = 0) = (n.kind = "ND_LOGAND") THEN Tested(l) ELSE Tested(Ev(n.rhs, l)))
Unary(n, s) ==
  Then(s, Give(s,
    CASE n.kind = "ND_DEREF" -> Held(s.mem, s.v, n.ty)
      [] n.kind = "ND_CAST" -> Convert(s.v, CType(n.lhs), n.ty)
      [] n.kind = "ND_NOT" -> Truth(s.v = 0)
      [] n.kind = "ND_BITNOT" -> Extended(-1 - s.v, size[CType(n)], is_unsigned(CType(n)))))
Operated(n, t, u, s) == Then(s, Operate(s, n.kind, s.v[1], t, s.v[2], u))

\* A op= B, and A++, of which the value is the old one.
Update(n, p, old, r, o) ==
  LET new == Convert(o.v, ResultType(n.op, n.lhs.ty, r), n.lhs.ty)
  IN  Then(o, [o EXCEPT !.mem[p] = Rep(new, n.lhs.ty), !.v = IF n.old THEN old ELSE new])
EvUpdate(n, s) ==
  LET old == Held(s.mem, s.v[1], n.lhs.ty)
  IN  Then(s, Update(n, s.v[1], old, CType(n.rhs),
                     Operate(s, n.op, old, n.lhs.ty, s.v[2], CType(n.rhs))))

EvCall(c, s) ==
  LET passed == [i \in DOMAIN c.args |-> IF CType(c.args[i]) = "double" THEN s.v[i] ELSE Reg(s.v[i])]
  IN  Then(s, [s EXCEPT !.trace = Append(@, <<c.f, passed>>), !.v = Result(c.f, passed)])

ValueOf(n, st) ==
  CASE "source" \in DOMAIN n ->
         LET c == n.source
         IN  IF c.op = "call"
             THEN EvCall(c, InOrder([i \in DOMAIN c.args |-> Value(c.args[i])], st))
             ELSE EvUpdate(c, InOrder(<<Place(c.lhs), Value(c.rhs)>>, st))
    [] n.kind = "ND_NUM" -> Give(st, n.val)
    [] n.kind = "ND_VAR" -> Give(st, IF n.ty = "func" THEN n.var ELSE Held(st.mem, n.var, n.ty))
    [] n.kind = "ND_ADDR" -> Loc(n.lhs, st)
    [] n.kind = "ND_ASSIGN" -> Stored(n, InOrder(<<Value(n.rhs), Place(n.lhs)>>, st))
    [] n.kind = "ND_COMMA" /\ "source" \notin DOMAIN n -> Ev(n.rhs, Ev(n.lhs, st))
    [] n.kind \in {"ND_DEREF", "ND_CAST", "ND_NOT", "ND_BITNOT"} -> Unary(n, Ev(n.lhs, st))
    [] n.kind = "ND_COND" -> Chosen(n, Ev(n.cond, st))
    [] n.kind \in {"ND_LOGAND", "ND_LOGOR"} -> Second(n, Ev(n.lhs, st))
    [] n.kind = "ND_STMT_EXPR" -> ExFrom(n.body, 1, st)
    [] n.kind \in Shifts ->
         Operated(n, CType(n.lhs), CType(n.rhs), InOrder(<<Value(n.lhs), Value(n.rhs)>>, st))
    [] n.kind \in Binary \ Shifts ->
         Operated(n, CType(n.lhs.lhs), CType(n.rhs.lhs), InOrder(<<Value(n.lhs.lhs), Value(n.rhs.lhs)>>, st))

\* A list of statements from the i-th; a goto to a label of the list goes on there.
LabelAt(ss, l) == {j \in DOMAIN ss : ss[j].kind = "ND_LABEL" /\ ss[j].label_name = l}
ExNext(ss, i, s) ==
  IF s.how = "goto" /\ LabelAt(ss, s.label) # {} /\ s.turns > 0
  THEN ExFrom(ss, CHOOSE j \in LabelAt(ss, s.label) : TRUE, [s EXCEPT !.how = "run", !.turns = @ - 1])
  ELSE ExFrom(ss, i + 1, s)
ExFrom(ss, i, st) ==
  IF i > Len(ss) \/ st.how # "run" THEN st ELSE ExNext(ss, i, Ex(ss[i], st))

\* The rest of a loop: inc is what is done behind a turn.
Ended(st, how) == IF st.how = how THEN [st EXCEPT !.how = "run"] ELSE st
Repeat(n, inc, s) == Then(s, Turn(n, inc, s))
Body(n, inc, s) ==
  Then(s, IF s.v = 0 THEN s ELSE Repeat(n, inc, Ex(inc, Ended(Ex(n.then, s), "continue"))))
Turn(n, inc, st) ==
  IF st.turns = 0 THEN [st EXCEPT !.how = "out"]
  ELSE Body(n, inc, Ev(n.cond, [st EXCEPT !.turns = @ - 1]))

\* Where the body of a switch is entered; behind its end if it is left out.
Heads(s) == LET RECURSIVE H(_)
                H(n) == IF n.kind = "ND_CASE" THEN {n} \cup H(n.lhs) ELSE {}
            IN  H(s)
Entry(ss, v, t, st) ==
  LET value(c) == Convert(Ev(c.source, st).v, CType(c.source), t)
      hit(j) == \E c \in Heads(ss[j]) : ~c.default /\ value(c) = v
      dflt(j) == \E c \in Heads(ss[j]) : c.default
  IN  CASE \E j \in DOMAIN ss : hit(j) -> CHOOSE j \in DOMAIN ss : hit(j)
        [] (\A j \in DOMAIN ss : ~hit(j)) /\ (\E j \in DOMAIN ss : dflt(j)) ->
             CHOOSE j \in DOMAIN ss : dflt(j)
        [] OTHER -> Len(ss) + 1
Enter(n, t, c) ==
  Then(c, ExFrom(n.then.body, Entry(n.then.body, Convert(c.v, CType(n.cond), t), t, c), c))

EffectOf(n, st) ==
  CASE n.kind = "NULL" -> st
    [] n.kind = "ND_EXPR_STMT" -> Ev(n.lhs, st)
    [] n.kind = "ND_BLOCK" -> ExFrom(n.body, 1, st)
    [] n.kind = "ND_IF" ->
         LET taken(c) == Then(c, Ex(IF c.v # 0 THEN n.then ELSE n.els, c)) IN taken(Ev(n.cond, st))
    [] n.kind = "ND_WHILE" -> Ended(Turn(n, Null, st), "break")
    [] n.kind = "ND_FOR" -> Ended(Repeat(n, n.inc, Ex(n.init, st)), "break")
    [] n.kind = "ND_DO" -> Ended(Repeat(n, Null, Ended(Ex(n.then, st), "continue")), "break")
    [] n.kind = "ND_SWITCH" -> Ended(Enter(n, Promote(CType(n.cond)), Ev(n.cond, st)), "break")
    [] n.kind \in {"ND_CASE", "ND_LABEL"} -> Ex(n.lhs, st)
    [] n.kind = "ND_BREAK" -> [st EXCEPT !.how = "break"]
    [] n.kind = "ND_CONTINUE" -> [st EXCEPT !.how = "continue"]
    [] n.kind = "ND_GOTO" -> [st EXCEPT !.how = "goto", !.label = n.label_name]
    [] n.kind = "ND_RETURN" ->
         LET left(s) == Then(s, [s EXCEPT !.how = "return"])
         IN  IF n.lhs = Null THEN left(Give(st, NoValue)) ELSE left(Ev(n.lhs, st))

Means(what, n, st) ==
  CASE st.how # "run" -> st
    [] st.how = "run" /\ what = "value" -> ValueOf(n, st)
    [] st.how = "run" /\ what = "place" -> PlaceOf(n, st)
    [] st.how = "run" /\ what = "effect" -> EffectOf(n, st)

Meaning(memory) ==
  ExFrom(fn, 1, [mem |-> memory, trace |-> <<>>, how |-> "run", label |-> "", v |-> 0, turns |-> MaxTurns])
-----------------------------------------------------------------------------
(* Function bodies.                                                        *)

X == Var("x", "int")
Y == Var("y", "int")
D == Var("d", "double")
Call(f, a) == funcall(f, <<a>>, <<"t3">>, "int")
Call0(f) == funcall(f, <<>>, <<>>, "int")
XIncs == new_inc_dec(X, 1, "t1")

Leaves == {Num(1), D, XIncs, Call("f", X)}
Pairs(L, M) ==
  {Arith(k, l, r) : k \in {"ND_ADD", "ND_LT"}, l \in L, r \in M}
  \cup {Logical(k, l, r) : k \in {"ND_LOGAND", "ND_LOGOR"}, l \in L, r \in M}
  \cup {Cond(l, r, Num(2)) : l \in L, r \in M}
  \cup {Comma(l, r) : l \in L, r \in M}
Odd ==
  {Arith("ND_NE", X, D), Arith("ND_LE", X, Num(1)), Not(D), Not(XIncs), new_cast(D, "bool"), new_cast(Call0("g"), "void"), Assign(D, XIncs),
   to_assign("ND_MUL", X, Lit(4, "double"), "t2"), Arith("ND_EQ", Arith("ND_SUB", X, Num(1)), D),
   Assign(Deref(AddrOf(Y), "int"), Call("f", D)),
   StmtExprOf(<<If(X, Return(Num(2)), None), ExprStmt(XIncs)>>),
   StmtExprOf(<<While(Arith("ND_LT", X, Num(2)), Block(<<ExprStmt(XIncs), Break>>)), ExprStmt(X)>>)}
Scalar(e) == e.ty # "void"

MCExpressions ==
  {<<ExprStmt(Assign(X, Num(1))), Return(e)>> :
     e \in Leaves \cup {o \in Odd : Scalar(o)} \cup Pairs(Leaves, Leaves)
           \cup Pairs({o \in Odd : Scalar(o)}, {D, XIncs}) \cup Pairs({XIncs}, Pairs({D, X}, {Call("f", X)}))}
  \cup {<<ExprStmt(o), Return(X)>> : o \in Odd}

Jumps == {Break, Continue, Return(X), ExprStmt(Call0("g"))}
Inner ==
  Jumps
  \cup {If(Arith("ND_EQ", X, Num(1)), j, k) : j \in Jumps, k \in {None, Continue}}
  \cup {Switch(X, Block(<<Case("a", Num(1), j), Default("b", k), Case("c", Num(2), Continue)>>)) : j \in Jumps, k \in Jumps}
  \cup {Switch(X, Block(<<Case("a", Num(1), Case("c", Num(2), j)), ExprStmt(Call0("h")),
                          While(Num(1), Block(<<k, Break>>))>>)) : j \in Jumps, k \in {Break, Return(Y)}}
  \cup {Do(Block(<<ExprStmt(XIncs), j, ExprStmt(Call0("h"))>>), D) : j \in Jumps}
LoopsWhile(test, s) ==
  LET body == Block(<<ExprStmt(XIncs), s, ExprStmt(Call("f", X))>>)
  IN  {While(test, body), Do(body, test),
       For(ExprStmt(Assign(X, Num(0))), test, ExprStmt(to_assign("ND_ADD", Y, Num(1), "t2")), body)}
Below2 == Arith("ND_LT", X, Num(2))
Loops(s) == LoopsWhile(Below2, s)
MCStatements == {<<l, Return(Y)>> : l \in UNION {Loops(s) : s \in Inner}}

\* A switch directly in a switch; v is also a value of the outer one, or of none.
TwoSwitches ==
  {Switch(X, Block(<<Case("a", Num(1), Switch(X, Block(<<Default("d", k), Case("e", Num(v), j)>>))),
                     ExprStmt(Call0("h")), Default("b", l)>>)) :
     v \in {1, 2}, j \in Jumps, k \in {Break, Continue}, l \in {Break, ExprStmt(Call0("g"))}}
\* A condition that has loops and switches of its own.
Busy ==
  {StmtExprOf(<<s, ExprStmt(Below2)>>) :
     s \in {While(Num(1), Block(<<ExprStmt(XIncs), If(Arith("ND_EQ", X, Num(1)), Continue, None), Break>>)),
            Do(Block(<<ExprStmt(Call0("h")), Continue>>), Num(0)),
            Switch(X, Block(<<Case("d", Num(0), Break), Default("e", ExprStmt(Call0("h")))>>))}}
MCNested ==
  {<<l, Return(Y)>> : l \in UNION {Loops(s) : s \in TwoSwitches}
                          \cup UNION {LoopsWhile(c, j) : c \in Busy, j \in Jumps}}
  \cup {<<While(Below2, Block(<<ExprStmt(XIncs), Switch(c, Block(<<Case("a", Num(1), j), Default("b", k)>>)),
                              ExprStmt(Call0("g"))>>)), Return(X)>> :
          c \in Busy, j \in {Break, Continue}, k \in Jumps}

\* Calls whose arguments call, store, or leave the function.
Passed == {X, XIncs, Call("f", X), Assign(Y, Num(2)),
           StmtExprOf(<<If(Arith("ND_EQ", X, Num(2)), Return(Num(3)), None), ExprStmt(XIncs)>>)}
MCCalls ==
  {<<ExprStmt(Assign(X, Num(1))), Return(Arith("ND_ADD", funcall("f", <<a, b>>, <<"t4", "t5">>, "int"), X))>> :
     a \in Passed, b \in Passed}

\* Jumps by name, loops without body, and what is reported as an error.
Deep(n) == LET d[i \in 0 .. n] == IF i = 0 THEN X ELSE Arith("ND_ADD", X, d[i - 1]) IN d[n]
MCOthers ==
  {<<Labeled("again", ExprStmt(XIncs)), If(Arith("ND_EQ", X, Num(2)), Goto("out"), None),
     Goto("again"), Labeled("out", Return(X))>>,
   <<Break>>, <<Continue>>, <<Switch(X, Block(<<Default("b", Continue)>>))>>,
   <<ExprStmt(Assign(Num(1), X))>>, <<Return(None)>>,
   <<While(Arith("ND_LT", XIncs, Num(1)), None), Return(X)>>,
   <<For(None, None, None, Block(<<ExprStmt(XIncs), If(Arith("ND_EQ", X, Num(2)), Break, None)>>)), Return(X)>>,
   <<For(None, Arith("ND_LT", X, Num(2)), ExprStmt(XIncs), None), Return(X)>>,
   <<ExprStmt(Assign(Comma(XIncs, Y), Num(2))), Return(X)>>}
  \cup {<<Return(Deep(n))>> : n \in 2 .. 5}

\* A condition that is a double.
MCDoubleConditions ==
  {<<While(Lit(0, "double"), ExprStmt(XIncs)), Return(X)>>, <<Do(ExprStmt(XIncs), Lit(0, "double")), Return(X)>>}

\* The type in which the whole value is seen.
Wide(e) == IF e.ty \in {"uint", "double"} THEN e.ty ELSE "long"
\* r = e; return r;
Keep(t, e) == <<ExprStmt(Assign(Var("r", t), e)), Return(Var("r", t))>>
\* Types without values for which rem and remu differ.
NotNegative == {"bool", "uchar", "ushort", "uint"}
Operators(l, r) ==
  {Arith(k, l, r) : k \in Comparisons \cup {"ND_ADD", "ND_SUB", "ND_MUL", "ND_DIV"}}
  \cup (IF "double" \in {l.ty, r.ty} THEN {}
        ELSE {Arith(k, l, r) : k \in {"ND_BITAND", "ND_BITOR", "ND_BITXOR"}}
             \cup {Shift(k, l, r) : k \in Shifts}
             \cup (IF {l.ty, r.ty} \subseteq NotNegative THEN {Arith("ND_MOD", l, r)} ELSE {}))
\* An unsigned int that may have more than its four bytes in its register.
Loose(n) ==
  /\ n.ty = "uint"
  /\ n.kind \in {"ND_ADD", "ND_SUB", "ND_MUL", "ND_SHL", "ND_BITNOT"}

MixedOperators == UNION {Operators(A[t], B[u]) : t \in DOMAIN A, u \in DOMAIN B}
PlainOperators == UNION {Operators(A[t], B[t]) : t \in DOMAIN A} \cup Range(A)
Contexts(e) ==
  {Keep("int", Not(e)), Keep("long", Cond(e, Num(1), Num(2))),
   Keep("int", Logical("ND_LOGAND", e, Num(1))), Keep("int", Logical("ND_LOGOR", Num(0), e))}
  \cup {Keep(t, new_cast(e, t)) : t \in DOMAIN A}
  \cup (IF e.ty = "double" THEN {}
        ELSE {Keep(Wide(f), f) : f \in {BitNot(e), Minus(e), Shift("ND_SHR", e, Num(1)), Shift("ND_SHL", e, Num(1))}})
Updates ==
  {Keep(t, to_assign(k, A[t], B[u], "t1")) : k \in {"ND_ADD", "ND_DIV"}, t \in DOMAIN A, u \in DOMAIN B}
  \cup {Keep(t, to_assign(k, A[t], B[u], "t1")) :
          k \in {"ND_BITXOR", "ND_SHR"}, t \in Integer, u \in Integer}
  \cup {Keep(t, new_inc_dec(A[t], i, "t1")) : t \in DOMAIN A, i \in {1, -1}}
Calls ==
  UNION {{Keep("long", Call("f", e)), Keep("long", Call("f", BitNot(e))),
          Keep("long", Arith("ND_ADD", funcall("is_one", <<e>>, <<"t3">>, "bool"), Num(1)))} :
           e \in {f \in PlainOperators : f.ty # "double"}}
MCArithmetic ==
  {Keep(Wide(e), e) : e \in MixedOperators} \cup UNION {Contexts(e) : e \in PlainOperators}
  \cup Updates \cup Calls

\* One that in C would be an int, and may need to be.
RECURSIVE Narrow(_)
Narrow(n) ==
  /\ size[n.ty] < 4
  /\ \/ n.kind = "ND_SHL"
     \/ n.kind = "ND_BITNOT" /\ (is_unsigned(n.ty) \/ n.ty = "bool" \/ Narrow(n.lhs))

\* Where a value is looked at in more than the bytes of its type.
RECURSIVE Careless(_)
Careless(n) ==
  LET parts == {n[f] : f \in {"lhs", "rhs", "cond", "then", "els"} \cap DOMAIN n}
  IN  \/ \E m \in parts : Careless(m)
      \/ n.kind = "ND_CAST" /\ Loose(n.lhs) /\ (size[n.ty] = 8 \/ n.ty = "bool")
      \/ n.kind \in {"ND_SHL", "ND_SHR", "ND_NOT", "ND_LOGAND"} /\ Loose(n.lhs)
      \/ n.kind = "ND_LOGOR" /\ Loose(n.rhs)
      \/ n.kind = "ND_COND" /\ Loose(n.cond)
      \* from an unsigned long to a double; the old value of a _Bool
      \/ n.kind = "ND_CAST" /\ n.ty = "double" /\ n.lhs.ty = "ulong"
      \/ "source" \in DOMAIN n /\ n.source.op # "call" /\ n.source.old /\ n.ty = "bool"
      \* an argument, which is not promoted
      \/ "source" \in DOMAIN n /\ n.source.op = "call" /\ \E i \in DOMAIN n.source.args : Narrow(n.source.args[i])

MCPrograms ==
  MCExpressions \cup MCStatements \cup MCNested \cup MCCalls \cup MCOthers \cup {p \in MCArithmetic : ~Careless(p[1].lhs)}

\* The nodes of bodies, one layer of parts after the other.
MaxParts == 9
Entries(S) == {x[1][x[2]] : x \in {y \in S \X (1 .. MaxParts) : y[2] <= Len(y[1])}}
PartsAndLists(n) ==
  CASE n.kind = "ND_FUNCALL" -> Parts(n) \o n.args
    [] n.kind = "ND_SWITCH" -> Parts(n) \o n.case_next
    [] OTHER -> Parts(n)
RECURSIVE NodesOf(_)
NodesOf(L) == IF L = {} THEN {} ELSE L \cup NodesOf(Entries({PartsAndLists(n) : n \in L}))
BodyNodes(bodies) == NodesOf(Entries(bodies))
MCNodes == BodyNodes(MCPrograms)
MCDoubleNodes == BodyNodes(MCDoubleConditions)

\* What eval() takes for something else: the truth and the order of doubles, which it
\* truncates, the order of unsigned longs, and a _Bool, which it takes for a char.
RECURSIVE Misfolded(_)
Misfolded(n) ==
  LET parts == {n[f] : f \in {"lhs", "rhs", "cond", "then", "els"} \cap DOMAIN n}
      flo(m) == m.ty = "double"
  IN  \/ \E m \in parts : Misfolded(m)
      \/ n.kind \in Comparisons \cup {"ND_NOT", "ND_LOGAND"} /\ flo(n.lhs)
      \/ n.kind = "ND_LOGOR" /\ flo(n.rhs)
      \/ n.kind = "ND_COND" /\ flo(n.cond)
      \/ n.kind \in {"ND_LT", "ND_LE"} /\ n.lhs.ty = "ulong"
      \/ n.kind = "ND_CAST" /\ n.ty = "bool" /\ ~(n.lhs.kind = "ND_VAR" /\ n.lhs.ty = "bool")

MCStatics == {p \in MCArithmetic \ (Updates \cup Calls) : ~Misfolded(p[1].lhs.rhs)}
-----------------------------------------------------------------------------
\* The arithmetic is run from every pair of edges.
EveryMemory == {Memory(i, j) : i \in 1 .. 5, j \in 1 .. 5}
ZeroMemory == {Memory(1, 1)}
Starts == IF fn \in MCArithmetic THEN EveryMemory ELSE ZeroMemory

(***************************************************************************)
(* The code does what the body means: the same calls with the same         *)
(* arguments, the same variables, the same result, and it returns to where *)
(* it was called from.                                                     *)
(***************************************************************************)
MeansTheSame ==
  status = "done" =>
    \A memory \in Starts :
      LET m == Run(Boot(memory), MaxSteps)
          meant == Meaning(memory)
      IN  meant.how \in {"run", "return"} =>
            /\ m.pc > Len(code) /\ m.ra = "caller"
            /\ m.trace = meant.trace
            /\ \A v \in Named : m.mem[v] = meant.mem[v]
            /\ meant.how = "return" /\ meant.v # NoValue => m.a0 = meant.v
-----------------------------------------------------------------------------
\* The node with its variables replaced by constants.
RECURSIVE Constant(_, _)
Constant(n, memory) ==
  IF n.kind = "ND_VAR"
  THEN LET v == memory[n.var]
       IN  CASE n.ty # "double" -> new_cast(Lit(v, "ulong"), n.ty)
             [] n.ty = "double" /\ v < 0 -> Minus(Lit(-v, "double"))
             [] OTHER -> Lit(v, "double")
  ELSE CASE n.kind = "ND_NUM" -> n
         [] n.kind = "ND_COND" ->
              [n EXCEPT !.cond = Constant(@, memory), !.then = Constant(@, memory), !.els = Constant(@, memory)]
         [] n.kind \in {"ND_CAST", "ND_NOT", "ND_BITNOT"} -> [n EXCEPT !.lhs = Constant(@, memory)]
         [] OTHER -> [n EXCEPT !.lhs = Constant(@, memory), !.rhs = Constant(@, memory)]

(***************************************************************************)
(* A static variable starts with the value that the same initializer, with *)
(* variables for the constants, gives a variable at run time.              *)
(***************************************************************************)
StaticsAgree ==
  status = "done" /\ fn \in MCStatics =>
    \A memory \in Starts :
      LET meant == Meaning(memory)
          n == Constant(fn[1].lhs.rhs.lhs, memory)
      IN  meant.how = "return" /\ Folds(n) =>
            write_gvar_data(fn[1].lhs.ty, n) = meant.mem["r"]
=============================================================================

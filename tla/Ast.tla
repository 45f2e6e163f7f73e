-------------------------------- MODULE Ast --------------------------------
(***************************************************************************)
(* The nodes parse.c builds and the types type.c gives them: "ptr" stands  *)
(* for every pointer, "double" for both floating types.  source is what a  *)
(* rewritten node was made of; the program does not keep it.               *)
(***************************************************************************)
EXTENDS ConstExpr, Sequences

None == [kind |-> "NULL"]

Lit(v, t) == [kind |-> "ND_NUM", val |-> v, ty |-> t]
Num(v) == Lit(v, "int")
Var(v, t) == [kind |-> "ND_VAR", var |-> v, ty |-> t]

new_cast(n, t) == [kind |-> "ND_CAST", lhs |-> n, ty |-> t]

get_common_type(t, u) ==
  LET promoted(x) == IF size[x] < 4 THEN "int" ELSE x
      v == promoted(t)
      w == promoted(u)
  IN  CASE t = "ptr" -> "ptr"
        [] t # "ptr" /\ "double" \in {t, u} -> "double"
        [] t # "ptr" /\ "double" \notin {t, u} /\ size[v] < size[w] -> w
        [] t # "ptr" /\ "double" \notin {t, u} /\ size[v] > size[w] -> v
        [] OTHER -> IF is_unsigned(w) THEN w ELSE v

Comparisons == {"ND_EQ", "ND_NE", "ND_LT", "ND_LE"}

\* Both operands get their common type; a comparison is an integer.
Arith(kind, l, r) ==
  LET t == get_common_type(l.ty, r.ty)
  IN  [kind |-> kind, lhs |-> new_cast(l, t), rhs |-> new_cast(r, t),
       ty |-> IF kind \in Comparisons THEN "int" ELSE t]

\* Neither a shift nor a complement promotes its operand.
Shift(kind, l, r) == [kind |-> kind, lhs |-> l, rhs |-> r, ty |-> l.ty]
BitNot(n) == [kind |-> "ND_BITNOT", lhs |-> n, ty |-> n.ty]
Minus(n) == Arith("ND_SUB", Num(0), n)
Logical(kind, l, r) == [kind |-> kind, lhs |-> l, rhs |-> r, ty |-> "int"]
Not(n) == [kind |-> "ND_NOT", lhs |-> n, ty |-> "int"]
Comma(l, r) == [kind |-> "ND_COMMA", lhs |-> l, rhs |-> r, ty |-> r.ty]
AddrOf(n) == [kind |-> "ND_ADDR", lhs |-> n, ty |-> "ptr"]
Deref(n, t) == [kind |-> "ND_DEREF", lhs |-> n, ty |-> t]
Assign(l, r) == [kind |-> "ND_ASSIGN", lhs |-> l, rhs |-> new_cast(r, l.ty), ty |-> l.ty]

Cond(c, t, e) ==
  IF "void" \in {t.ty, e.ty}
  THEN [kind |-> "ND_COND", cond |-> c, then |-> t, els |-> e, ty |-> "void"]
  ELSE LET u == get_common_type(t.ty, e.ty)
       IN  [kind |-> "ND_COND", cond |-> c, then |-> new_cast(t, u), els |-> new_cast(e, u), ty |-> u]

Operation(kind, l, r) ==
  IF kind \in {"ND_SHL", "ND_SHR"} THEN Shift(kind, l, r) ELSE Arith(kind, l, r)

From(source, n) == [x \in DOMAIN n \cup {"source"} |-> IF x = "source" THEN source ELSE n[x]]

\* A op= B, with a fresh pointer tmp.
to_assign(kind, a, b, tmp) ==
  LET p == Var(tmp, "ptr")
  IN  From([op |-> kind, lhs |-> a, rhs |-> b, old |-> FALSE],
        Comma(Assign(p, AddrOf(a)),
              Assign(Deref(p, a.ty), Operation(kind, Deref(p, a.ty), b))))

\* A++, whose value is computed back from the new one.
new_inc_dec(a, addend, tmp) ==
  LET p == Var(tmp, "ptr")
  IN  From([op |-> "ND_ADD", lhs |-> a, rhs |-> Num(addend), old |-> TRUE],
        Comma(Assign(p, AddrOf(a)),
          Comma(Assign(Deref(p, a.ty), Arith("ND_ADD", Deref(p, a.ty), Num(addend))),
                new_cast(Arith("ND_ADD", Deref(p, a.ty), Num(-addend)), a.ty))))

\* The arguments are assigned to fresh variables before the call.
funcall(f, args, tmps, t) ==
  LET tmp(i) == Var(tmps[i], args[i].ty)
      assigned[i \in 0 .. Len(args)] ==
        IF i = 0 THEN [kind |-> "ND_NULL_EXPR", ty |-> "void"]
        ELSE Comma(assigned[i - 1], Assign(tmp(i), args[i]))
  IN  From([op |-> "call", f |-> f, args |-> args],
        Comma(assigned[Len(args)],
            [kind |-> "ND_FUNCALL", lhs |-> Var(f, "func"), args |-> [i \in DOMAIN args |-> tmp(i)], ty |-> t]))

ExprStmt(n) == [kind |-> "ND_EXPR_STMT", lhs |-> n]
Block(ss) == [kind |-> "ND_BLOCK", body |-> ss]
StmtExprOf(ss) == [kind |-> "ND_STMT_EXPR", body |-> ss, ty |-> ss[Len(ss)].lhs.ty]
If(c, t, e) == [kind |-> "ND_IF", cond |-> c, then |-> t, els |-> e]
While(c, s) == [kind |-> "ND_WHILE", cond |-> c, then |-> s]
Do(s, c) == [kind |-> "ND_DO", cond |-> c, then |-> s]
For(i, c, j, s) ==
  [kind |-> "ND_FOR", init |-> i, cond |-> IF c = None THEN Num(1) ELSE c, inc |-> j, then |-> s]
Break == [kind |-> "ND_BREAK"]
Continue == [kind |-> "ND_CONTINUE"]
Goto(l) == [kind |-> "ND_GOTO", label_name |-> l]
Labeled(l, s) == [kind |-> "ND_LABEL", label_name |-> l, lhs |-> s]
Return(n) == [kind |-> "ND_RETURN", lhs |-> IF n = None THEN None ELSE new_cast(n, "long")]
\* The value of a case is kept in an int.
Case(i, e, s) ==
  [kind |-> "ND_CASE", id |-> i, default |-> FALSE, val |-> SignExtended(eval(e), 4), lhs |-> s,
   source |-> e]
Default(i, s) == [kind |-> "ND_CASE", id |-> i, default |-> TRUE, val |-> 0, lhs |-> s]

\* The cases a statement adds to the list of the switch it is read in: a case
\* is put in front of the list when the statement behind it has been read, and
\* a switch inside keeps its own.  The last default wins.
RECURSIVE CasesOf(_)
CasesOf(s) ==
  CASE s.kind = "ND_CASE" -> CasesOf(s.lhs) \o <<s>>
    [] s.kind = "ND_LABEL" -> CasesOf(s.lhs)
    [] s.kind = "ND_BLOCK" ->
         LET upto[i \in 0 .. Len(s.body)] ==
               IF i = 0 THEN <<>> ELSE upto[i - 1] \o CasesOf(s.body[i])
         IN  upto[Len(s.body)]
    [] s.kind = "ND_IF" -> CasesOf(s.then) \o CasesOf(s.els)
    [] s.kind \in {"ND_WHILE", "ND_DO", "ND_FOR"} -> CasesOf(s.then)
    [] OTHER -> <<>>

Switch(c, s) ==
  LET read == CasesOf(s)
      cases == SelectSeq(read, LAMBDA n : ~n.default)
      defaults == SelectSeq(read, LAMBDA n : n.default)
  IN  [kind |-> "ND_SWITCH", cond |-> c, then |-> s,
       case_next |-> [i \in 1 .. Len(cases) |-> cases[Len(cases) + 1 - i]],
       default_case |-> IF defaults = <<>> THEN None ELSE defaults[Len(defaults)]]
=============================================================================

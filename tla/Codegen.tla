------------------------------ MODULE Codegen ------------------------------
(***************************************************************************)
(* The code generator of codegen.c: gen_stmt, gen_expr and gen_addr for    *)
(* one function body.                                                      *)
(*                                                                         *)
(* The three functions call each other; what they still have to do, in the *)
(* order they do it, is the sequence todo.  A step takes its first item: a *)
(* node is replaced by what the function does for it, an instruction is    *)
(* written out.  Registers in an item are named relative to top, as in     *)
(* reg(top - 1).  A value is an integer in an s register or a double in an *)
(* fs register.                                                            *)
(***************************************************************************)
EXTENDS Types, SequencesExt

CONSTANTS
  Nodes,     \* the nodes the parser made; Null among them
  Programs,  \* function bodies: sequences of statement nodes
  NRegs      \* entries of the register tables

ASSUME CodegenAssumption == NRegs \in Nat \ {0}

VARIABLES
  fn,          \* the function body
  todo,        \* what the running calls still have to do
  top, labelseq, brkseq, contseq,
  case_label,  \* the labels the cases of a switch were given
  code,        \* the instructions written
  status       \* "gen", "done", "error", "assert"

vars == <<fn, todo, top, labelseq, brkseq, contseq, case_label, code, status>>
-----------------------------------------------------------------------------
(* Items.                                                                  *)

Null == [kind |-> "NULL"]

Expr(n) == [do |-> "expr", n |-> n]
Addr(n) == [do |-> "addr", n |-> n]
Stmt(n) == [do |-> "stmt", n |-> n]
OptStmt(n) == IF n = Null THEN <<>> ELSE <<Stmt(n)>>

R(k) == <<"s", k>>   \* reg(top + k)
F(k) == <<"fs", k>>  \* freg(top + k)

\* An instruction, and by how much top changes with it.
Ins(op, regs, arg, d) == [do |-> "ins", op |-> op, regs |-> regs, arg |-> arg, d |-> d]
Label(name, seq) == Ins("label", <<>>, <<name, seq>>, 0)
Jump(name, seq) == Ins("j", <<>>, <<name, seq>>, 0)
Branch(op, r, name, seq) == Ins(op, <<r>>, <<name, seq>>, 0)
Top(d) == Ins("none", <<>>, <<>>, d)
Restore(brk, cont) == [do |-> "restore", brk |-> brk, cont |-> cont]
AssertTop == [do |-> "assert"]

Of(ty, k) == IF IsFlo(ty) THEN F(k) ELSE R(k)

\* The result is 1 if the value is zero, in the register top has left.
cmp_zero(ty) ==
  IF IsFlo(ty)
  THEN <<Ins("feqz", <<R(-1), F(-1)>>, <<>>, -1)>>
  ELSE <<Ins("seqz", <<R(-1), R(-1)>>, <<>>, -1)>>

load(ty) ==
  CASE ty = "func" -> <<>>
    [] IsFlo(ty) -> <<Ins("fld", <<F(-1), R(-1)>>, <<>>, 0)>>
    [] OTHER -> <<Ins("load", <<R(-1), R(-1)>>, <<size[ty], is_unsigned(ty)>>, 0)>>

store(ty) ==
  IF IsFlo(ty) THEN <<Ins("fsd", <<F(-2), R(-1)>>, <<>>, -1)>>
               ELSE <<Ins("store", <<R(-2), R(-1)>>, <<size[ty]>>, -1)>>

\* A narrower integer goes over the stack and comes back with its sign.
cast(from, to) ==
  CASE to = "void" -> <<>>
    [] to = "bool" -> cmp_zero(from) \o <<Ins("seqz", <<R(0), R(0)>>, <<>>, 1)>>
    [] to \notin {"void", "bool"} /\ IsFlo(from) ->
         IF IsFlo(to) THEN <<>> ELSE <<Ins("fcvt.l.d", <<R(-1), F(-1)>>, <<>>, 0)>>
    [] ~IsFlo(from) /\ IsFlo(to) -> <<Ins("fcvt.d.l", <<F(-1), R(-1)>>, <<>>, 0)>>
    [] OTHER ->
         IF size[to] = 8 THEN <<>>
         ELSE <<Ins("extend", <<R(-1), R(-1)>>, <<size[to], is_unsigned(to)>>, 0)>>

\* The instructions of a binary operator, by the operator and its types.
\* rem and remu are in each other's place.
Plainly ==
  [ND_ADD |-> "add", ND_SUB |-> "sub", ND_MUL |-> "mul", ND_BITAND |-> "and", ND_BITOR |-> "or",
   ND_BITXOR |-> "xor", ND_SHL |-> "sll"]
Floating ==
  [ND_ADD |-> "fadd", ND_SUB |-> "fsub", ND_MUL |-> "fmul", ND_DIV |-> "fdiv",
   ND_EQ |-> "feq", ND_NE |-> "feq", ND_LT |-> "flt", ND_LE |-> "fle"]
Binary == DOMAIN Plainly \cup DOMAIN Floating \cup {"ND_MOD", "ND_SHR"}

\* The nodes code is generated for on behalf of n.
Parts(n) ==
  CASE n.kind \in Binary \cup {"ND_ASSIGN", "ND_COMMA", "ND_LOGAND", "ND_LOGOR"} -> <<n.lhs, n.rhs>>
    [] n.kind \in {"ND_ADDR", "ND_DEREF", "ND_CAST", "ND_NOT", "ND_BITNOT", "ND_FUNCALL", "ND_CASE",
                   "ND_LABEL", "ND_RETURN", "ND_EXPR_STMT"} -> <<n.lhs>>
    [] n.kind \in {"ND_COND", "ND_IF"} -> <<n.cond, n.then, n.els>>
    [] n.kind \in {"ND_WHILE", "ND_DO", "ND_SWITCH"} -> <<n.cond, n.then>>
    [] n.kind = "ND_FOR" -> <<n.init, n.cond, n.then, n.inc>>
    [] n.kind \in {"ND_STMT_EXPR", "ND_BLOCK"} -> n.body
    [] OTHER -> <<>>

all_cases(n) ==
  IF n.default_case = Null THEN n.case_next ELSE Append(n.case_next, n.default_case)

\* S holds, with a node, the nodes it is made of.
Closed(S) ==
  \A n \in S :
    /\ Parts(n) \in Seq(S)
    /\ n.kind = "ND_FUNCALL" => n.args \in Seq(S)
    /\ n.kind = "ND_SWITCH" => n.case_next \in Seq(S)

ASSUME NodesAssumption == Closed(Nodes) /\ Programs \subseteq Seq(Nodes)

\* The labels a node and its parts define by name, and those they jump to.
Labels[n \in Nodes] ==
  (IF n.kind = "ND_LABEL" THEN {n.label_name} ELSE {}) \cup UNION {Labels[m] : m \in Range(Parts(n))}
Gotos[n \in Nodes] ==
  (IF n.kind = "ND_GOTO" THEN {n.label_name} ELSE {}) \cup UNION {Gotos[m] : m \in Range(Parts(n))}

\* The cases in n of the switch around n, and those of the switches in n.
OwnCases[n \in Nodes] ==
  LET parts == IF n.kind = "ND_SWITCH" THEN <<n.cond>> ELSE Parts(n)
  IN  (IF n.kind = "ND_CASE" THEN {n.id} ELSE {}) \cup UNION {OwnCases[m] : m \in Range(parts)}
InnerCases[n \in Nodes] ==
  (IF n.kind = "ND_SWITCH" THEN OwnCases[n.then] ELSE {}) \cup UNION {InnerCases[m] : m \in Range(Parts(n))}
Cases(n) == OwnCases[n] \cup InnerCases[n]

\* What one node defines no other of ns does.
Apart(ns) ==
  \A i, j \in DOMAIN ns : i < j =>
    Labels[ns[i]] \cap Labels[ns[j]] = {} /\ Cases(ns[i]) \cap Cases(ns[j]) = {}

\* A case is in one place, and in the list of the switch it is in, which is what
\* current_switch is for.  That labels have different names, that the target of a
\* goto exists and that a switch has one default, C demands of the program.
ASSUME LabelsAssumption ==
  /\ \A n \in Nodes :
       /\ Apart(Parts(n))
       /\ n.kind = "ND_LABEL" => n.label_name \notin Labels[n.lhs]
       /\ n.kind = "ND_CASE" => n.id \notin Cases(n.lhs)
       /\ n.kind = "ND_SWITCH" =>
            LET all == all_cases(n)
            IN  /\ \A i, j \in DOMAIN all : all[i].id = all[j].id => i = j
                /\ {all[i].id : i \in DOMAIN all} = OwnCases[n.then]
                /\ OwnCases[n.then] \cap InnerCases[n.then] = {}
  /\ \A body \in Programs :
       /\ Apart(body)
       /\ \A i \in DOMAIN body :
            /\ "return" \notin Labels[body[i]] /\ OwnCases[body[i]] = {}
            /\ Gotos[body[i]] \subseteq UNION {Labels[body[j]] : j \in DOMAIN body}

binary(n) ==
  LET flo == IsFlo(n.lhs.ty) /\ n.kind \in DOMAIN Floating
      uns == is_unsigned(n.lhs.ty)
      three(op, a, b) == Ins(op, <<R(-2), a, b>>, <<>>, 0)
      same(op) == <<three(op, R(-2), R(-1))>>
      test(op) == <<Ins(op, <<R(-2), R(-2)>>, <<>>, 0)>>
      less == IF uns THEN "sltu" ELSE "slt"
  IN  CASE flo ->
             <<Ins(Floating[n.kind], <<Of(n.ty, -2), F(-2), F(-1)>>, <<>>, 0)>>
               \o (IF n.kind = "ND_NE" THEN test("seqz") ELSE <<>>)
        [] ~flo /\ n.kind \in DOMAIN Plainly -> same(Plainly[n.kind])
        [] ~flo /\ n.kind = "ND_DIV" -> same(IF is_unsigned(n.ty) THEN "divu" ELSE "div")
        [] n.kind = "ND_MOD" -> same(IF is_unsigned(n.ty) THEN "rem" ELSE "remu")
        [] n.kind = "ND_SHR" -> same(IF uns THEN "srl" ELSE "sra")
        [] ~flo /\ n.kind = "ND_EQ" -> same("sub") \o test("seqz")
        [] ~flo /\ n.kind = "ND_NE" -> same("sub") \o test("snez")
        [] ~flo /\ n.kind = "ND_LT" -> same(less)
        [] ~flo /\ n.kind = "ND_LE" -> <<three(less, R(-1), R(-2))>> \o test("seqz")
-----------------------------------------------------------------------------
Init ==
  /\ fn \in Programs
  /\ todo = FlattenSeq([i \in DOMAIN fn |-> <<Stmt(fn[i]), AssertTop>>])
  /\ top = 0 /\ labelseq = 1 /\ brkseq = 0 /\ contseq = 0
  /\ case_label = <<>>
  /\ code = <<>> /\ status = "gen"

At(do) == status = "gen" /\ todo # <<>> /\ Head(todo).do = do
N == Head(todo).n
AtNode(do, kind) == At(do) /\ N.kind = kind

Become(items) ==
  /\ todo' = items \o Tail(todo)
  /\ UNCHANGED <<fn, top, case_label, code, status>>

\* A node that takes no label.
Plain(items) == Become(items) /\ UNCHANGED <<labelseq, brkseq, contseq>>
\* A node that takes the label number seq.
Labelled(items) == Become(items) /\ labelseq' = labelseq + 1 /\ UNCHANGED <<brkseq, contseq>>
Fail == status' = "error" /\ UNCHANGED <<fn, todo, top, labelseq, brkseq, contseq, case_label, code>>

seq == labelseq

\* println(); reg() reports an error for a register it does not have.
Emit ==
  /\ At("ins")
  /\ LET i == Head(todo)
         abs == [k \in DOMAIN i.regs |-> <<i.regs[k][1], top + i.regs[k][2]>>]
     IN  IF \E k \in DOMAIN abs : abs[k][2] \notin 0 .. NRegs - 1
         THEN Fail
         ELSE /\ code' = IF i.op = "none" THEN code
                         ELSE Append(code, [op |-> i.op, regs |-> abs, arg |-> i.arg])
              /\ top' = top + i.d
              /\ todo' = Tail(todo)
              /\ UNCHANGED <<fn, labelseq, brkseq, contseq, case_label, status>>

RestoreLabels ==
  /\ At("restore")
  /\ brkseq' = Head(todo).brk /\ contseq' = Head(todo).cont
  /\ todo' = Tail(todo)
  /\ UNCHANGED <<fn, top, labelseq, case_label, code, status>>

\* assert(top == 0)
CheckTop ==
  /\ At("assert")
  /\ IF top = 0 THEN Plain(<<>>)
     ELSE status' = "assert"
          /\ UNCHANGED <<fn, todo, top, labelseq, brkseq, contseq, case_label, code>>

Finish ==
  /\ status = "gen" /\ todo = <<>>
  /\ code' = Append(code, [op |-> "label", regs |-> <<>>, arg |-> <<"return", 0>>])
  /\ status' = "done"
  /\ UNCHANGED <<fn, todo, top, labelseq, brkseq, contseq, case_label>>
-----------------------------------------------------------------------------
(* gen_addr.                                                               *)

AddrVar ==
  /\ AtNode("addr", "ND_VAR")
  /\ Plain(<<Ins("addr", <<R(0)>>, <<N.var>>, 1)>>)

AddrDeref == AtNode("addr", "ND_DEREF") /\ Plain(<<Expr(N.lhs)>>)

AddrComma == AtNode("addr", "ND_COMMA") /\ Plain(<<Expr(N.lhs), Top(-1), Addr(N.rhs)>>)

AddrOther ==
  /\ At("addr") /\ N.kind \notin {"ND_VAR", "ND_DEREF", "ND_COMMA"}
  /\ Fail
-----------------------------------------------------------------------------
(* gen_expr.                                                               *)

ExprNum == AtNode("expr", "ND_NUM") /\ Plain(<<Ins("li", <<Of(N.ty, 0)>>, <<N.val>>, 1)>>)

ExprVar == AtNode("expr", "ND_VAR") /\ Plain(<<Addr(N)>> \o load(N.ty))

ExprAssign ==
  /\ AtNode("expr", "ND_ASSIGN")
  /\ Plain(<<Expr(N.rhs), Addr(N.lhs)>> \o store(N.ty))

ExprAddr == AtNode("expr", "ND_ADDR") /\ Plain(<<Addr(N.lhs)>>)

ExprDeref == AtNode("expr", "ND_DEREF") /\ Plain(<<Expr(N.lhs)>> \o load(N.ty))

\* Mutant: the register of the last statement's value is not counted.
ExprStmtExprDropped ==
  AtNode("expr", "ND_STMT_EXPR") /\ Plain([i \in DOMAIN N.body |-> Stmt(N.body[i])])

\* The last statement is an expression, whose value is still in its register.
ExprStmtExpr ==
  /\ AtNode("expr", "ND_STMT_EXPR")
  /\ Plain([i \in DOMAIN N.body |-> Stmt(N.body[i])] \o <<Top(1)>>)

ExprNull == AtNode("expr", "ND_NULL_EXPR") /\ Plain(<<Top(1)>>)

ExprComma == AtNode("expr", "ND_COMMA") /\ Plain(<<Expr(N.lhs), Top(-1), Expr(N.rhs)>>)

ExprCast == AtNode("expr", "ND_CAST") /\ Plain(<<Expr(N.lhs)>> \o cast(N.lhs.ty, N.ty))

ExprCond ==
  /\ AtNode("expr", "ND_COND")
  /\ Labelled(<<Expr(N.cond)>> \o cmp_zero(N.cond.ty)
       \o <<Branch("bnez", R(0), "else", seq), Expr(N.then), Top(-1), Jump("end", seq),
            Label("else", seq), Expr(N.els), Label("end", seq)>>)

ExprNot ==
  /\ AtNode("expr", "ND_NOT")
  /\ Plain(<<Expr(N.lhs)>> \o cmp_zero(N.lhs.ty) \o <<Ins("snez", <<R(0), R(0)>>, <<>>, 1)>>)

\* Mutant: the label number is that of the expression before.
ExprLogAndSameLabel ==
  /\ AtNode("expr", "ND_LOGAND")
  /\ Plain(<<Expr(N.lhs)>> \o cmp_zero(N.lhs.ty) \o <<Branch("bnez", R(0), "false", seq)>>
       \o <<Expr(N.rhs)>> \o cmp_zero(N.rhs.ty) \o <<Branch("bnez", R(0), "false", seq)>>
       \o <<Ins("li", <<R(0)>>, <<1>>, 0), Jump("end", seq), Label("false", seq),
            Ins("li", <<R(0)>>, <<0>>, 1), Label("end", seq)>>)

ExprLogAnd ==
  /\ AtNode("expr", "ND_LOGAND")
  /\ Labelled(<<Expr(N.lhs)>> \o cmp_zero(N.lhs.ty) \o <<Branch("bnez", R(0), "false", seq)>>
       \o <<Expr(N.rhs)>> \o cmp_zero(N.rhs.ty) \o <<Branch("bnez", R(0), "false", seq)>>
       \o <<Ins("li", <<R(0)>>, <<1>>, 0), Jump("end", seq), Label("false", seq),
            Ins("li", <<R(0)>>, <<0>>, 1), Label("end", seq)>>)

ExprLogOr ==
  /\ AtNode("expr", "ND_LOGOR")
  /\ Labelled(<<Expr(N.lhs)>> \o cmp_zero(N.lhs.ty) \o <<Branch("beqz", R(0), "true", seq)>>
       \o <<Expr(N.rhs)>> \o cmp_zero(N.rhs.ty) \o <<Branch("beqz", R(0), "true", seq)>>
       \o <<Ins("li", <<R(0)>>, <<0>>, 0), Jump("end", seq), Label("true", seq),
            Ins("li", <<R(0)>>, <<1>>, 1), Label("end", seq)>>)

\* The arguments are in variables of their own; ra is kept on the stack.  Of a
\* bool the low byte of a0 is taken.
ExprFuncall ==
  /\ AtNode("expr", "ND_FUNCALL")
  /\ Plain(<<Ins("push ra", <<>>, <<>>, 0), Expr(N.lhs)>>
       \o [i \in DOMAIN N.args |->
             LET t == N.args[i].ty IN Ins("arg", <<>>, <<i, N.args[i].var, size[t], is_unsigned(t)>>, 0)]
       \o <<Ins("jalr", <<R(-1)>>, <<Len(N.args)>>, -1)>>
       \o (IF N.ty = "bool" THEN <<Ins("andi a0", <<>>, <<>>, 0)>> ELSE <<>>)
       \o <<Ins("pop ra", <<>>, <<>>, 0), Ins("mv result", <<Of(N.ty, 0)>>, <<>>, 1)>>)

ExprBitNot ==
  /\ AtNode("expr", "ND_BITNOT")
  /\ Plain(<<Expr(N.lhs), Ins("not", <<R(-1), R(-1)>>, <<>>, 0)>>)

\* Both registers are asked for, whether or not the operands are in them.
ExprBinary ==
  /\ At("expr") /\ N.kind \in Binary
  /\ Plain(<<Expr(N.lhs), Expr(N.rhs), Ins("none", <<R(-2), R(-1)>>, <<>>, 0)>>
           \o binary(N) \o <<Top(-1)>>)
-----------------------------------------------------------------------------
(* gen_stmt.                                                               *)

StmtIf ==
  /\ AtNode("stmt", "ND_IF")
  /\ Labelled(<<Expr(N.cond)>> \o cmp_zero(N.cond.ty)
       \o IF N.els = Null
          THEN <<Branch("bnez", R(0), "end", seq), Stmt(N.then), Label("end", seq)>>
          ELSE <<Branch("bnez", R(0), "else", seq), Stmt(N.then), Jump("end", seq),
                 Label("else", seq), Stmt(N.els), Label("end", seq)>>)

Loop(items) ==
  /\ Become(items \o <<Label("break", seq), Restore(brkseq, contseq)>>)
  /\ labelseq' = labelseq + 1
  /\ brkseq' = seq /\ contseq' = seq

StmtWhile ==
  /\ AtNode("stmt", "ND_WHILE")
  /\ Loop(<<Label("begin", seq), Expr(N.cond), Ins("beqz", <<R(-1)>>, <<"break", seq>>, -1)>>
       \o OptStmt(N.then) \o <<Label("continue", seq), Jump("begin", seq)>>)

StmtDo ==
  /\ AtNode("stmt", "ND_DO")
  /\ Loop(<<Label("begin", seq), Stmt(N.then), Label("continue", seq), Expr(N.cond)>>
       \o cmp_zero(N.cond.ty) \o <<Branch("beqz", R(0), "begin", seq)>>)

\* The parser gives a loop without condition the condition 1.
StmtFor ==
  /\ AtNode("stmt", "ND_FOR")
  /\ Loop(OptStmt(N.init)
       \o <<Label("begin", seq), Expr(N.cond), Ins("beqz", <<R(-1)>>, <<"break", seq>>, -1)>>
       \o OptStmt(N.then) \o <<Label("continue", seq)>> \o OptStmt(N.inc)
       \o <<Jump("begin", seq)>>)

\* Mutant: a switch is taken for the target of continue.
StmtSwitchLoop ==
  /\ AtNode("stmt", "ND_SWITCH")
  /\ Become(<<Expr(N.cond), [do |-> "cases", n |-> N, seq |-> seq], Stmt(N.then),
              Label("continue", seq), Label("break", seq), Restore(brkseq, contseq)>>)
  /\ labelseq' = labelseq + 1
  /\ brkseq' = seq /\ contseq' = seq

\* The cases get their labels after the condition is generated.
StmtSwitch ==
  /\ AtNode("stmt", "ND_SWITCH")
  /\ Become(<<Expr(N.cond), [do |-> "cases", n |-> N, seq |-> seq], Stmt(N.then),
              Label("break", seq), Restore(brkseq, contseq)>>)
  /\ labelseq' = labelseq + 1
  /\ brkseq' = seq /\ UNCHANGED contseq

StmtSwitchCases ==
  /\ At("cases")
  /\ LET cases == N.case_next
         all == all_cases(N)
         number(c) == labelseq - 1 + CHOOSE i \in DOMAIN all : all[i].id = c
         ids == {all[i].id : i \in DOMAIN all}
     IN  /\ case_label' = [c \in DOMAIN case_label \cup ids |->
                             IF c \in ids THEN number(c) ELSE case_label[c]]
         /\ labelseq' = labelseq + Len(all)
         /\ todo' = FlattenSeq([i \in DOMAIN cases |->
                       <<Ins("li a0", <<>>, <<cases[i].val>>, 0),
                         Branch("beq a0", R(-1), "case", number(cases[i].id))>>])
              \o <<Top(-1)>>
              \o (IF N.default_case = Null THEN <<>> ELSE <<Jump("case", number(N.default_case.id))>>)
              \o <<Jump("break", Head(todo).seq)>> \o Tail(todo)
         /\ UNCHANGED <<fn, top, brkseq, contseq, code, status>>

StmtCase ==
  /\ AtNode("stmt", "ND_CASE")
  /\ Plain(<<Label("case", case_label[N.id]), Stmt(N.lhs)>>)

StmtBlock == AtNode("stmt", "ND_BLOCK") /\ Plain([i \in DOMAIN N.body |-> Stmt(N.body[i])])

StmtBreak ==
  /\ AtNode("stmt", "ND_BREAK")
  /\ IF brkseq = 0 THEN Fail ELSE Plain(<<Jump("break", brkseq)>>)

StmtContinue ==
  /\ AtNode("stmt", "ND_CONTINUE")
  /\ IF contseq = 0 THEN Fail ELSE Plain(<<Jump("continue", contseq)>>)

StmtGoto == AtNode("stmt", "ND_GOTO") /\ Plain(<<Jump(N.label_name, 0)>>)

StmtLabel == AtNode("stmt", "ND_LABEL") /\ Plain(<<Label(N.label_name, 0), Stmt(N.lhs)>>)

StmtReturn ==
  /\ AtNode("stmt", "ND_RETURN")
  /\ Plain((IF N.lhs = Null THEN <<>>
            ELSE <<Expr(N.lhs), Ins("mv a0", <<Of(N.lhs.ty, -1)>>, <<>>, -1)>>)
           \o <<Jump("return", 0)>>)

StmtExpr == AtNode("stmt", "ND_EXPR_STMT") /\ Plain(<<Expr(N.lhs), Top(-1)>>)

GenAddr == AddrVar \/ AddrDeref \/ AddrComma \/ AddrOther

GenExpr ==
  \/ ExprNum \/ ExprVar \/ ExprAssign \/ ExprAddr \/ ExprDeref \/ ExprStmtExpr \/ ExprNull
  \/ ExprComma \/ ExprCast \/ ExprCond \/ ExprNot \/ ExprLogAnd \/ ExprLogOr
  \/ ExprBitNot \/ ExprFuncall \/ ExprBinary

GenStmt ==
  \/ StmtIf \/ StmtWhile \/ StmtDo \/ StmtFor \/ StmtSwitch \/ StmtSwitchCases \/ StmtCase
  \/ StmtBlock \/ StmtBreak \/ StmtContinue \/ StmtGoto \/ StmtLabel \/ StmtReturn \/ StmtExpr

Next == GenAddr \/ GenExpr \/ GenStmt \/ Emit \/ RestoreLabels \/ CheckTop \/ Finish

Spec == Init /\ [][Next]_vars
-----------------------------------------------------------------------------
(***************************************************************************)
(* assert(top == 0) after a statement of the body never fails, and no      *)
(* register below the first is ever left.                                  *)
(***************************************************************************)
TopBalanced == top >= 0 /\ status # "assert"

(***************************************************************************)
(* Every jump has one place to go to: no label is defined twice, whatever  *)
(* is nested in what, and none that is jumped to is missing.               *)
(***************************************************************************)
Places(l) == {k \in DOMAIN code : code[k].op = "label" /\ code[k].arg = l}
Targets == {code[k].arg : k \in {j \in DOMAIN code : code[j].op \in {"j", "beqz", "bnez", "beq a0"}}}
JumpsResolved ==
  /\ \A k \in DOMAIN code : code[k].op = "label" => Places(code[k].arg) = {k}
  /\ status = "done" => \A l \in Targets : Places(l) # {}
=============================================================================

----------------------------- MODULE ConstExpr -----------------------------
(***************************************************************************)
(* Constant expressions: eval() and eval_double() of parse.c, over the     *)
(* nodes Ast builds.  They compute in the host's long, which is as wide as *)
(* the target's registers, and in its double.                              *)
(***************************************************************************)
EXTENDS Types
LOCAL INSTANCE Bitwise

BitAnd(a, b) == Reg(Low(a, 8) & Low(b, 8))
BitOr(a, b) == Reg(Low(a, 8) | Low(b, 8))
BitXor(a, b) == Reg(Low(a, 8) ^^ Low(b, 8))
ShiftLeft(a, n) == Reg(a * 2 ^ n)
ShiftRight(a, n, uns) == Reg((IF uns THEN Low(a, 8) ELSE a) \div 2 ^ n)
Divide(a, b, uns) == Reg(IF uns THEN Low(a, 8) \div Low(b, 8) ELSE Quotient(a, b))

RECURSIVE eval(_), eval_double(_)

eval_double(n) ==
  IF is_integer(n.ty) THEN ToDouble(eval(n))
  ELSE CASE n.kind = "ND_ADD" -> eval_double(n.lhs) + eval_double(n.rhs)
         [] n.kind = "ND_SUB" -> eval_double(n.lhs) - eval_double(n.rhs)
         [] n.kind = "ND_MUL" -> TimesDouble(eval_double(n.lhs), eval_double(n.rhs))
         [] n.kind = "ND_DIV" -> OverDouble(eval_double(n.lhs), eval_double(n.rhs))
         [] n.kind = "ND_COND" -> eval_double(IF eval_double(n.cond) # 0 THEN n.then ELSE n.els)
         [] n.kind = "ND_COMMA" -> eval_double(n.rhs)
         [] n.kind = "ND_CAST" -> eval_double(n.lhs)
         [] n.kind = "ND_NUM" -> n.val

\* Mutant: a cast to a narrower type takes the low bytes without their sign.
eval_castZeroExtends(n) ==
  IF size[n.ty] = 8 THEN eval(n.lhs) ELSE Low(eval(n.lhs), size[n.ty])

eval_cast(n) ==
  IF size[n.ty] = 8 THEN eval(n.lhs)
  ELSE Extended(eval(n.lhs), size[n.ty], is_unsigned(n.ty))

eval(n) ==
  IF IsFlo(n.ty) THEN Reg(ToInteger(eval_double(n)))
  ELSE CASE n.kind = "ND_ADD" -> Reg(eval(n.lhs) + eval(n.rhs))
         [] n.kind = "ND_SUB" -> Reg(eval(n.lhs) - eval(n.rhs))
         [] n.kind = "ND_MUL" -> Reg(eval(n.lhs) * eval(n.rhs))
         [] n.kind = "ND_DIV" -> Divide(eval(n.lhs), eval(n.rhs), is_unsigned(n.ty))
         [] n.kind = "ND_BITAND" -> BitAnd(eval(n.lhs), eval(n.rhs))
         [] n.kind = "ND_BITOR" -> BitOr(eval(n.lhs), eval(n.rhs))
         [] n.kind = "ND_BITXOR" -> BitXor(eval(n.lhs), eval(n.rhs))
         [] n.kind = "ND_SHL" -> ShiftLeft(eval(n.lhs), eval(n.rhs))
         [] n.kind = "ND_SHR" -> ShiftRight(eval(n.lhs), eval(n.rhs), is_unsigned(n.ty))
         [] n.kind = "ND_EQ" -> Truth(eval(n.lhs) = eval(n.rhs))
         [] n.kind = "ND_NE" -> Truth(eval(n.lhs) # eval(n.rhs))
         \* The type asked for its sign is the comparison's own, an int.
         [] n.kind = "ND_LT" ->
              Truth(IF is_unsigned(n.ty) THEN Low(eval(n.lhs), 8) < Low(eval(n.rhs), 8)
                                         ELSE eval(n.lhs) < eval(n.rhs))
         [] n.kind = "ND_LE" ->
              Truth(IF is_unsigned(n.ty) THEN Low(eval(n.lhs), 8) < Low(eval(n.rhs), 8)
                                         ELSE eval(n.lhs) <= eval(n.rhs))
         [] n.kind = "ND_COND" -> eval(IF eval(n.cond) # 0 THEN n.then ELSE n.els)
         [] n.kind = "ND_COMMA" -> eval(n.rhs)
         [] n.kind = "ND_NOT" -> Truth(eval(n.lhs) = 0)
         [] n.kind = "ND_BITNOT" -> -1 - eval(n.lhs)
         [] n.kind = "ND_LOGAND" -> Truth(eval(n.lhs) # 0 /\ eval(n.rhs) # 0)
         [] n.kind = "ND_LOGOR" -> Truth(eval(n.lhs) # 0 \/ eval(n.rhs) # 0)
         [] n.kind = "ND_CAST" -> eval_cast(n)
         [] n.kind = "ND_NUM" -> n.val

\* Every other kind of node on the way is reported.
RECURSIVE Folds(_)
Folds(n) ==
  LET both == Folds(n.lhs) /\ Folds(n.rhs)
  IN  CASE n.kind = "ND_NUM" -> TRUE
        [] n.kind \in {"ND_ADD", "ND_SUB", "ND_MUL", "ND_DIV"} -> both
        [] n.kind = "ND_COMMA" -> Folds(n.rhs)
        [] n.kind = "ND_CAST" -> Folds(n.lhs)
        [] n.kind = "ND_COND" ->
             Folds(n.cond) /\ Folds(IF eval(n.cond) # 0 THEN n.then ELSE n.els)
        [] n.kind \in {"ND_BITAND", "ND_BITOR", "ND_BITXOR", "ND_SHL", "ND_SHR",
                       "ND_EQ", "ND_NE", "ND_LT", "ND_LE"} -> ~IsFlo(n.ty) /\ both
        [] n.kind \in {"ND_NOT", "ND_BITNOT"} -> ~IsFlo(n.ty) /\ Folds(n.lhs)
        [] n.kind = "ND_LOGAND" -> Folds(n.lhs) /\ (eval(n.lhs) # 0 => Folds(n.rhs))
        [] n.kind = "ND_LOGOR" -> Folds(n.lhs) /\ (eval(n.lhs) = 0 => Folds(n.rhs))
        [] OTHER -> FALSE

\* The bytes a static variable of type t starts with, as a signed number.
write_gvar_data(t, n) ==
  IF IsFlo(t) THEN eval_double(n) ELSE SignExtended(eval(n), size[t])
=============================================================================

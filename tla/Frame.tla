------------------------------- MODULE Frame -------------------------------
(***************************************************************************)
(* The stack frame of a function: funcdef() collects its parameters and    *)
(* local variables, main() gives each an offset below the frame pointer.   *)
(* Both treat every function alike, so there is one.                       *)
(***************************************************************************)
EXTENDS Integers, Sequences

CONSTANTS
  Types,      \* types of variables: [size, align, flonum]
  MaxParams,  \* bound: parameters
  MaxLocals   \* bound: parameters, variables and temporaries together

ASSUME FrameAssumption ==
  /\ Types \subseteq [size : Nat \ {0}, align : Nat \ {0}, flonum : BOOLEAN]
  /\ MaxParams \in 0 .. 8 /\ MaxLocals \in Nat

VARIABLES
  locals,      \* fn->locals, the variable made last in front
  nparams,     \* fn->params is the end of that list: its last nparams members
  is_variadic,
  offset,      \* the running offset of main()
  place,       \* the variable the loop in main() has reached
  stack_size,
  stage        \* "params" and "body" are parsed, "layout" in main(), "run"

frameVars == <<locals, nparams, is_variadic, offset, place, stack_size, stage>>

Locals == DOMAIN locals
Params == {k \in Locals : k > Len(locals) - nparams}

\* Mutant: rounds down.
align_to_down(n, a) == n - (n % a)

align_to(n, a) == (n + a - 1) - ((n + a - 1) % a)

Var == [size : Nat \ {0}, align : Nat \ {0}, flonum : BOOLEAN, offset : Nat]

NewVar(t) == [size |-> t.size, align |-> t.align, flonum |-> t.flonum, offset |-> 0]
-----------------------------------------------------------------------------
FrameInit ==
  /\ locals = <<>> /\ nparams = 0
  /\ is_variadic \in BOOLEAN
  /\ offset = 0 /\ place = 1 /\ stack_size = 0
  /\ stage = "params"

new_lvar ==
  /\ Len(locals) < MaxLocals
  /\ \E t \in Types : locals' = <<NewVar(t)>> \o locals

\* A variadic function has a named parameter.
Param ==
  /\ stage = "params" /\ nparams < MaxParams
  /\ new_lvar
  /\ nparams' = nparams + 1
  /\ UNCHANGED <<is_variadic, offset, place, stack_size, stage>>

EndParams ==
  /\ stage = "params" /\ (is_variadic => nparams > 0)
  /\ stage' = "body"
  /\ UNCHANGED <<locals, nparams, is_variadic, offset, place, stack_size>>

\* compound_stmt(): declarations, and the temporaries of calls
Local ==
  /\ stage = "body"
  /\ new_lvar
  /\ UNCHANGED <<nparams, is_variadic, offset, place, stack_size, stage>>

\* Mutant: the argument registers of a variadic function have no room.
SavedRegistersOnly == 184

\* The callee-saved registers, and the argument registers of a variadic function
SavedRegisters == IF is_variadic THEN 248 ELSE 184

BeginLayout ==
  /\ stage = "body"
  /\ stage' = "layout"
  /\ offset' = SavedRegisters
  /\ UNCHANGED <<locals, nparams, is_variadic, place, stack_size>>

LayoutLocal ==
  /\ stage = "layout" /\ place \in Locals
  /\ offset' = align_to(offset, locals[place].align) + locals[place].size
  /\ locals' = [locals EXCEPT ![place].offset = offset']
  /\ place' = place + 1
  /\ UNCHANGED <<nparams, is_variadic, stack_size, stage>>

\* Mutant: the frame is aligned as its variables are.
EndLayoutNarrow ==
  /\ stage = "layout" /\ place \notin Locals
  /\ stack_size' = align_to(offset, 8)
  /\ stage' = "run"
  /\ UNCHANGED <<locals, nparams, is_variadic, offset, place>>

EndLayout ==
  /\ stage = "layout" /\ place \notin Locals
  /\ stack_size' = align_to(offset, 16)
  /\ stage' = "run"
  /\ UNCHANGED <<locals, nparams, is_variadic, offset, place>>

FrameNext == Param \/ EndParams \/ Local \/ BeginLayout \/ LayoutLocal \/ EndLayout

FrameSpec == FrameInit /\ [][FrameNext]_frameVars
-----------------------------------------------------------------------------
FrameTypeOK ==
  /\ locals \in Seq(Var)
  /\ nparams \in 0 .. Len(locals) /\ nparams <= MaxParams
  /\ is_variadic \in BOOLEAN
  /\ offset \in Nat /\ place \in 1 .. Len(locals) + 1 /\ stack_size \in Nat
  /\ stage \in {"params", "body", "layout", "run"}

\* Variable k occupies the bytes from offset - size up to offset below the
\* frame pointer.  No variable lies over a saved register or over another
\* variable, and the frame has room for all (main, main.c:267).
FrameDisjoint ==
  stage = "run" =>
    /\ stack_size % 16 = 0 /\ SavedRegisters <= stack_size
    /\ \A k \in Locals : /\ SavedRegisters <= locals[k].offset - locals[k].size
                         /\ locals[k].offset <= stack_size
    /\ \A i, j \in Locals : i < j => locals[i].offset <= locals[j].offset - locals[j].size
=============================================================================

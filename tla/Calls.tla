------------------------------- MODULE Calls -------------------------------
(***************************************************************************)
(* The generated code of a function of the frame that Frame lays out,      *)
(* running: it calls itself, and is called first by code outside.          *)
(*                                                                         *)
(* Memory is a set of cells, what was stored at an address in one piece;   *)
(* a store drops the cells it overlaps.                                    *)
(***************************************************************************)
EXTENDS Frame, FiniteSets

CONSTANTS
  MaxDepth,   \* bound: activations of the function
  MaxArgs,    \* bound: arguments of a call
  MaxWrites,  \* bound: variables assigned to in an activation
  RunLocals,  \* bound: variables of the function that is run
  Programs    \* constructs the program uses although they are miscompiled

\* Integer or variadic arguments behind a floating parameter; va_start of a
\* variable that is not the one made last
Miscompiled == {"float_first", "late_va_start"}

\* A pointer is aligned to its size.
ASSUME CallsAssumption ==
  /\ \A t \in Types : t.size = 8 /\ ~ t.flonum => t.align = 8
  /\ MaxDepth \in Nat /\ MaxWrites \in Nat /\ RunLocals \in Nat
  /\ MaxArgs \in MaxParams .. 8
  /\ Programs \subseteq Miscompiled

VARIABLES
  memory, sp, s0, ra,
  sregs,      \* s1 to s11 and fs0 to fs11
  aregs,      \* a0 to a7 and fa0 to fa7
  frames      \* history: the activations, with what each variable was given

machineVars == <<memory, sp, s0, ra, sregs, aregs, frames>>
vars == <<frameVars, machineVars>>

Saved == 1 .. 23
ArgRegs == 0 .. 7

\* A value is its origin: the activation and the number of a variable, an
\* argument or a register; or it is an address.
Of(kind, d, n) == <<kind, d, n>>
Address(a) == Of("address", 0, a)
Garbage == Of("garbage", 0, 0)
Unknown == Of("unknown", 0, 0)

store(mm, a, n, v) ==
  {c \in mm : c.at + c.n <= a \/ a + n <= c.at} \cup {[at |-> a, n |-> n, v |-> v]}

\* Registers are stored one after the other.
storeAll(mm, a, rs, val(_)) ==
  {c \in mm : \A r \in rs : c.at + c.n <= a - 8 * r \/ a - 8 * r + 8 <= c.at}
    \cup {[at |-> a - 8 * r, n |-> 8, v |-> val(r)] : r \in rs}

\* A load may take the lower part of what was stored.
load(mm, a, n) ==
  IF \E c \in mm : c.at = a /\ c.n >= n
  THEN (CHOOSE c \in mm : c.at = a /\ c.n >= n).v ELSE Garbage

Depth == Len(frames)
Top == frames[Depth]
-----------------------------------------------------------------------------
(***************************************************************************)
(* ND_FUNCALL and the prologue.  An argument is [flonum, v].               *)
(***************************************************************************)
Activation(args) ==
  [env |-> [k \in Locals |-> IF k \in Params THEN args[Len(locals) - k + 1].v ELSE Unknown],
   extra |-> [i \in 1 .. Len(args) - nparams |-> args[nparams + i].v],
   writes |-> {}, fp |-> sp - 16, va |-> 0,
   sp |-> sp, s0 |-> s0, ra |-> ra, sregs |-> sregs, back |-> Of("back", Depth, 0)]

\* Every argument goes to the next a register, a floating one to the next fa
\* register too.
LoadArguments(args) ==
  LET floats(i) == Cardinality({j \in 1 .. i - 1 : args[j].flonum})
  IN [a |-> [r \in ArgRegs |-> IF r < Len(args) THEN args[r + 1].v ELSE Garbage],
      fa |-> [r \in ArgRegs |->
                LET at == {i \in DOMAIN args : args[i].flonum /\ floats(i) = r}
                IN IF at = {} THEN Garbage ELSE args[CHOOSE i \in at : TRUE].v]]

\* Mutant: the list of parameters is taken for one in source order.
IncomingForwards(regs, k) ==
  LET index == Cardinality({j \in Params : j < k /\ locals[j].flonum = locals[k].flonum})
  IN IF locals[k].flonum THEN regs.fa[index] ELSE regs.a[index]

\* The parameters, the last one in front, take the registers counting down.
Incoming(regs, k) ==
  LET index == Cardinality({j \in Params : j > k /\ locals[j].flonum = locals[k].flonum})
  IN IF locals[k].flonum THEN regs.fa[index] ELSE regs.a[index]

StoreSaved(mm, fp) == storeAll(mm, fp, Saved, LAMBDA r : sregs[r])

SaveArea(fp) == fp - 248

StoreArguments(mm, fp, regs) ==
  IF is_variadic THEN storeAll(mm, SaveArea(fp) + 56, ArgRegs, LAMBDA r : regs.a[7 - r]) ELSE mm

StoreParams(mm, fp, regs) ==
  LET after[k \in Len(locals) - nparams .. Len(locals)] ==
        IF k \notin Params THEN mm
        ELSE store(after[k - 1], fp - locals[k].offset, locals[k].size, Incoming(regs, k))
  IN after[Len(locals)]

\* The caller saves ra, loads the arguments and jumps; the prologue saves s0,
\* makes the frame and saves the registers and the parameters.
EnterFunction(args) ==
  LET regs == LoadArguments(args)
      fp == sp - 16
      pushed == store(store(memory, sp - 8, 8, ra), fp, 8, Address(s0))
  IN /\ memory' = StoreParams(StoreArguments(StoreSaved(pushed, fp), fp, regs), fp, regs)
     /\ aregs' = regs
     /\ ra' = Of("back", Depth, 0)
     /\ s0' = fp /\ sp' = fp - stack_size
     /\ frames' = Append(frames, Activation(args))
     /\ UNCHANGED <<frameVars, sregs>>

\* Parameter i of the function
ParamOf(i) == locals[Len(locals) - i + 1]

\* Integer registers are counted apart from floating ones where parameters are
\* stored, together with them where arguments are loaded.
FloatFirst(args) ==
  \E i, j \in DOMAIN args : /\ i < j /\ i <= nparams /\ args[i].flonum
                            /\ j > nparams \/ ~args[j].flonum

MayCall(args) ==
  /\ stage = "run" /\ Depth < MaxDepth /\ Len(locals) <= RunLocals
  /\ IF is_variadic THEN Len(args) >= nparams ELSE Len(args) = nparams
  /\ FloatFirst(args) => "float_first" \in Programs
-----------------------------------------------------------------------------
Init ==
  /\ FrameInit
  /\ memory = {} /\ frames = <<>>
  /\ sp = 8 /\ s0 = 0 /\ ra = Of("back", 0, 1)
  /\ sregs = [r \in Saved |-> Of("register", 0, r)]
  /\ aregs = [a |-> [r \in ArgRegs |-> Garbage], fa |-> [r \in ArgRegs |-> Garbage]]

Layout == FrameNext /\ UNCHANGED machineVars

\* Code outside calls the function with arguments of its parameters' types.
Start ==
  /\ Depth = 0
  /\ \E n \in 0 .. MaxArgs : \E flonums \in [1 .. n -> BOOLEAN] :
       LET args == [i \in 1 .. n |-> [flonum |-> flonums[i], v |-> Of("argument", 0, i)]]
       IN /\ MayCall(args)
          /\ \A i \in 1 .. nparams : flonums[i] = ParamOf(i).flonum
          /\ EnterFunction(args)

Fits(k, i) ==
  IF i <= nparams THEN locals[k].size = ParamOf(i).size /\ locals[k].flonum = ParamOf(i).flonum
  ELSE locals[k].flonum => locals[k].size = 8

\* The arguments are in temporaries, each of the type of its parameter; of
\* those a variadic function takes beside them none is a float.
Call ==
  /\ Depth > 0
  /\ \E n \in 0 .. MaxArgs : \E temps \in [1 .. n -> Locals \ Params] :
       LET args == [i \in 1 .. n |-> [flonum |-> locals[temps[i]].flonum,
                                      v |-> load(memory, s0 - locals[temps[i]].offset,
                                                 locals[temps[i]].size)]]
       IN /\ MayCall(args)
          /\ \A i \in 1 .. n : Fits(temps[i], i) /\ Top.env[temps[i]] # Unknown
          /\ \A i, j \in 1 .. n : i < j => temps[i] > temps[j]
          /\ EnterFunction(args)

\* An assignment to variable k
Assign ==
  /\ Depth > 0 /\ Cardinality(Top.writes) < MaxWrites
  /\ \E k \in Locals \ Top.writes :
       /\ memory' = store(memory, s0 - locals[k].offset, locals[k].size, Of("variable", Depth, k))
       /\ frames' = [frames EXCEPT ![Depth].env[k] = Of("variable", Depth, k),
                                   ![Depth].writes = @ \cup {k}]
  /\ UNCHANGED <<frameVars, sp, s0, ra, sregs, aregs>>

\* Expressions are evaluated in s2 to s11 and fs0 to fs11.
Compute ==
  /\ Depth > 0
  /\ sregs' = [r \in Saved |-> IF r = 1 THEN sregs[r] ELSE Of("register", Depth, r)]
  /\ UNCHANGED <<frameVars, memory, sp, s0, ra, aregs, frames>>

\* Where va_start points
VaList(fp) == SaveArea(fp) + 8 * Cardinality({k \in Params : ~locals[k].flonum})

Pointer(k) == locals[k].size = 8 /\ ~locals[k].flonum

\* va_start(ap, param) is a call with two temporaries; the store goes 8 bytes
\* below the first one's copy of ap.
builtin_va_start ==
  /\ Depth > 0 /\ is_variadic
  /\ \E temp, ap \in Locals \ Params :
       /\ 1 < temp /\ temp < ap /\ Pointer(temp) /\ Pointer(ap)
       /\ ap # temp + 1 => "late_va_start" \in Programs
       /\ memory' = store(memory, s0 - (locals[temp].offset + 8), 8,
                          Address(VaList(s0)))
       /\ frames' = [frames EXCEPT ![Depth].env[ap] = Address(VaList(s0)),
                                   ![Depth].env[temp] = Unknown,
                                   ![Depth].writes = @ \cup {ap, temp},
                                   ![Depth].va = ap]
  /\ UNCHANGED <<frameVars, sp, s0, ra, sregs, aregs>>

\* Mutant: s0 stays the function's own.
RestoreFramePointerKept == s0

RestoreFramePointer == load(memory, s0, 8)[3]

\* The epilogue, and what follows the call in the caller.  What lies below the
\* stack pointer is lost.
Return ==
  /\ Depth > 0
  /\ sregs' = [r \in Saved |-> load(memory, s0 - 8 * r, 8)]
  /\ s0' = RestoreFramePointer
  /\ sp' = s0 + 16
  /\ ra' = load(memory, s0 + 8, 8)
  /\ aregs' = [a |-> [r \in ArgRegs |-> Garbage], fa |-> [r \in ArgRegs |-> Garbage]]
  /\ memory' = {c \in memory : c.at >= s0 + 16}
  /\ frames' = SubSeq(frames, 1, Depth - 1)
  /\ UNCHANGED frameVars

Next == Layout \/ Start \/ Call \/ Assign \/ Compute \/ builtin_va_start \/ Return

Spec == Init /\ [][Next]_vars
-----------------------------------------------------------------------------
\* Every variable of every activation holds what it was given last, a
\* parameter the caller's argument, and not what another variable, a saved
\* register or a called function put there (main, main.c:267; emit_text,
\* codegen.c:965; gen_expr, codegen.c:503).
VariablesKept ==
  \A d \in DOMAIN frames : \A k \in Locals :
    frames[d].env[k] # Unknown =>
      load(memory, frames[d].fp - locals[k].offset, locals[k].size) = frames[d].env[k]

\* A variadic function finds its further arguments one after the other from
\* where va_start made its variable point (emit_text, codegen.c:1000;
\* builtin_va_start, codegen.c:309).
ExtraArgumentsFound ==
  \A d \in DOMAIN frames : frames[d].va # 0 =>
    \A i \in DOMAIN frames[d].extra :
      LET ap == load(memory, frames[d].fp - locals[frames[d].va].offset, 8)[3]
      IN nparams + i <= 8 => load(memory, ap + 8 * (i - 1), 8) = frames[d].extra[i]

\* A function returns to its caller, with the stack, the frame pointer and the
\* callee-saved registers as the caller had them, however many calls and
\* evaluations it made (emit_text, codegen.c:1050; gen_expr, codegen.c:545).
ReturnsProperly ==
  [][Len(frames') < Depth =>
       /\ ra = Top.back /\ ra' = Top.ra
       /\ sp' = Top.sp /\ s0' = Top.s0 /\ sregs' = Top.sregs]_vars

\* The frame lies between sp and s0, and the stack is aligned as the calling
\* convention asks whenever a function is entered (emit_text, codegen.c:967).
StackAligned ==
  Depth > 0 => /\ (sp - 8) % 16 = 0
               /\ sp = s0 - stack_size /\ s0 = Top.fp
=============================================================================

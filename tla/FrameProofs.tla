---------------------------- MODULE FrameProofs ----------------------------
(***************************************************************************)
(* The layout of a frame is right for every list of variables: FrameTypeOK *)
(* and FrameDisjoint are invariants of FrameSpec.  The loop in main() only *)
(* ever moves the running offset up, by at least the size of the variable  *)
(* it places, so what is placed lies between the saved registers and the   *)
(* offset (Placed), and one variable above the other.                      *)
(*                                                                         *)
(* A function with such a frame that runs and calls itself keeps what is   *)
(* in it: the cells that matter are Intact, those of an activation lie     *)
(* above the stack pointer of the ones it calls (Chain), and what the      *)
(* running activation stores meets none of its own.                        *)
(***************************************************************************)
EXTENDS Calls, FiniteSetTheorems, WellFoundedInduction, TLAPS

Placed ==
  stage \in {"layout", "run"} =>
    /\ SavedRegisters <= offset
    /\ \A k \in Locals : k < place => /\ SavedRegisters <= locals[k].offset - locals[k].size
                                      /\ locals[k].offset <= offset
    /\ \A i, j \in Locals :
         (i < j /\ j < place) => locals[i].offset <= locals[j].offset - locals[j].size

Covered == stage = "run" => /\ place = Len(locals) + 1
                            /\ offset <= stack_size /\ stack_size % 16 = 0

Unplaced == stage \in {"params", "body"} => place = 1

IInv == FrameTypeOK /\ Unplaced /\ Placed /\ Covered
-----------------------------------------------------------------------------
\* The fields of a variable.
LEMMA VarFields ==
  ASSUME NEW v \in Var
  PROVE  /\ v.size \in Nat \ {0} /\ v.align \in Nat \ {0} /\ v.offset \in Nat
         /\ \A n \in Nat : [v EXCEPT !.offset = n] \in Var
  BY DEF Var

\* align_to rounds up (align_to, type.c:59).
LEMMA AlignToBounds ==
  ASSUME NEW n \in Nat, NEW a \in Nat \ {0}
  PROVE  align_to(n, a) \in Nat /\ n <= align_to(n, a)
  <1>1. (n + a - 1) % a \in 0 .. a - 1
    OBVIOUS
  <1>. QED BY <1>1 DEF align_to

\* The size of a frame is a multiple of 16 (main, main.c:280).
LEMMA AlignTo16 ==
  ASSUME NEW n \in Nat
  PROVE  align_to(n, 16) % 16 = 0
  BY DEF align_to

\* A new variable goes in front of the list (new_lvar, parse.c).
LEMMA NewVariable ==
  ASSUME FrameTypeOK, new_lvar
  PROVE  locals' \in Seq(Var) /\ Len(locals') = Len(locals) + 1
  <1>1. PICK t \in Types : locals' = <<NewVar(t)>> \o locals
    BY DEF new_lvar
  <1>2. NewVar(t) \in Var
    BY FrameAssumption DEF NewVar, Var
  <1>3. <<NewVar(t)>> \in Seq(Var) /\ Len(<<NewVar(t)>>) = 1 /\ locals \in Seq(Var)
    BY <1>2 DEF FrameTypeOK
  <1>. QED BY <1>1, <1>3

\* The loop places one variable above what it has placed (main, main.c:274).
LEMMA LayoutLocalStep ==
  ASSUME IInv, LayoutLocal
  PROVE  IInv'
  <1>1. /\ locals \in Seq(Var) /\ Len(locals) \in Nat /\ offset \in Nat
        /\ place \in 1 .. Len(locals) /\ locals[place] \in Var
        /\ \A k \in Locals : k \in Nat /\ locals[k] \in Var
    <2>1. locals \in Seq(Var) /\ offset \in Nat /\ place \in DOMAIN locals
      BY DEF IInv, FrameTypeOK, LayoutLocal, Locals
    <2>. QED BY <2>1 DEF Locals
  <1>2. /\ offset' \in Nat /\ locals[place].size \in Nat
        /\ offset <= offset' - locals[place].size /\ offset <= offset'
    <2>1. locals[place].align \in Nat \ {0} /\ locals[place].size \in Nat \ {0}
      BY <1>1, VarFields
    <2>2. /\ align_to(offset, locals[place].align) \in Nat
          /\ offset <= align_to(offset, locals[place].align)
      BY <1>1, <2>1, AlignToBounds
    <2>3. offset' = align_to(offset, locals[place].align) + locals[place].size
      BY DEF LayoutLocal
    <2>. QED BY <1>1, <2>1, <2>2, <2>3
  <1>3. /\ locals' \in Seq(Var) /\ Len(locals') = Len(locals) /\ Locals' = Locals
        /\ \A k \in Locals : k # place => locals'[k] = locals[k]
        /\ locals'[place].offset = offset' /\ locals'[place].size = locals[place].size
    <2>1. locals' = [locals EXCEPT ![place] = [locals[place] EXCEPT !.offset = offset']]
      BY DEF LayoutLocal
    <2>2. [locals[place] EXCEPT !.offset = offset'] \in Var
      BY <1>1, <1>2, VarFields
    <2>3. /\ [locals[place] EXCEPT !.offset = offset'].offset = offset'
          /\ [locals[place] EXCEPT !.offset = offset'].size = locals[place].size
      BY <1>1 DEF Var
    <2>. QED BY <1>1, <2>1, <2>2, <2>3 DEF Locals
  <1>4. FrameTypeOK'
    <2>1. /\ nparams' = nparams /\ is_variadic' = is_variadic /\ stage' = stage
          /\ stack_size' = stack_size /\ place' = place + 1
      BY DEF LayoutLocal
    <2>2. /\ nparams \in 0 .. Len(locals) /\ nparams <= MaxParams /\ is_variadic \in BOOLEAN
          /\ stack_size \in Nat /\ stage \in {"params", "body", "layout", "run"}
      BY DEF IInv, FrameTypeOK
    <2>3. place + 1 \in 1 .. Len(locals) + 1
      BY <1>1
    <2>. QED BY <1>2, <1>3, <2>1, <2>2, <2>3 DEF FrameTypeOK
  <1>5. Placed'
    <2>1. /\ SavedRegisters' = SavedRegisters /\ SavedRegisters \in Nat
          /\ SavedRegisters <= offset /\ place' = place + 1
      BY DEF IInv, Placed, LayoutLocal, SavedRegisters
    <2>2. ASSUME NEW k \in Locals
          PROVE  locals[k].size \in Nat /\ locals[k].offset \in Nat /\ k \in Nat
      BY <1>1, VarFields
    <2>3. ASSUME NEW k \in Locals, k < place'
          PROVE  /\ SavedRegisters <= locals'[k].offset - locals'[k].size
                 /\ locals'[k].offset <= offset'
      <3>1. CASE k = place
        BY <1>1, <1>2, <1>3, <2>1, <2>2, <3>1
      <3>2. CASE k # place
        <4>1. k < place
          BY <1>1, <2>1, <2>2, <2>3, <3>2
        <4>2. /\ SavedRegisters <= locals[k].offset - locals[k].size
              /\ locals[k].offset <= offset
          BY <4>1 DEF IInv, Placed, LayoutLocal
        <4>. QED BY <1>1, <1>2, <1>3, <2>1, <2>2, <3>2, <4>2
      <3>. QED BY <3>1, <3>2
    <2>4. ASSUME NEW i \in Locals, NEW j \in Locals, i < j, j < place'
          PROVE  locals'[i].offset <= locals'[j].offset - locals'[j].size
      <3>1. i < place /\ i # place
        BY <1>1, <2>1, <2>2, <2>4
      <3>2. locals[i].offset <= offset
        BY <3>1 DEF IInv, Placed, LayoutLocal
      <3>3. CASE j = place
        BY <1>1, <1>2, <1>3, <2>2, <3>1, <3>2, <3>3
      <3>4. CASE j # place
        <4>1. j < place
          BY <1>1, <2>1, <2>2, <2>4, <3>4
        <4>2. locals[i].offset <= locals[j].offset - locals[j].size
          BY <2>4, <4>1 DEF IInv, Placed, LayoutLocal
        <4>. QED BY <1>3, <3>1, <3>4, <4>2
      <3>. QED BY <3>3, <3>4
    <2>5. SavedRegisters <= offset'
      BY <1>1, <1>2, <2>1
    <2>. QED BY <1>3, <2>1, <2>3, <2>4, <2>5 DEF Placed
  <1>6. Covered' /\ Unplaced'
    BY DEF LayoutLocal, Covered, Unplaced
  <1>. QED BY <1>4, <1>5, <1>6 DEF IInv

LEMMA Bounds == MaxParams \in Nat /\ MaxLocals \in Nat
  BY FrameAssumption

LEMMA InitIInv == FrameInit => IInv
  <1>. SUFFICES ASSUME FrameInit
                PROVE  IInv
    OBVIOUS
  <1>1. FrameTypeOK
    <2>1. locals \in Seq(Var) /\ Len(locals) = 0
      BY DEF FrameInit
    <2>. QED BY <2>1, Bounds DEF FrameInit, FrameTypeOK
  <1>. QED BY <1>1 DEF IInv, FrameInit, Placed, Covered, Unplaced

LEMMA NextIInv == IInv /\ [FrameNext]_frameVars => IInv'
  <1>. SUFFICES ASSUME IInv, [FrameNext]_frameVars
                PROVE  IInv'
    OBVIOUS
  <1>0. /\ FrameTypeOK /\ Len(locals) \in Nat /\ offset \in Nat /\ place \in Nat
        /\ nparams \in Nat /\ nparams <= Len(locals) /\ nparams <= MaxParams
        /\ place <= Len(locals) + 1
    BY DEF IInv, FrameTypeOK
  <1>1. CASE Param
    <2>1. locals' \in Seq(Var) /\ Len(locals') = Len(locals) + 1
      BY <1>0, <1>1, NewVariable DEF Param
    <2>2. nparams' = nparams + 1 /\ nparams < MaxParams
      BY <1>1 DEF Param
    <2>3. FrameTypeOK'
      BY <1>0, <1>1, <2>1, <2>2, Bounds DEF FrameTypeOK, Param
    <2>. QED BY <1>1, <2>3 DEF IInv, Placed, Covered, Unplaced, Param
  <1>2. CASE EndParams
    BY <1>2 DEF IInv, FrameTypeOK, Placed, Covered, Unplaced, EndParams
  <1>3. CASE Local
    <2>1. locals' \in Seq(Var) /\ Len(locals') = Len(locals) + 1
      BY <1>0, <1>3, NewVariable DEF Local
    <2>2. FrameTypeOK'
      BY <1>0, <1>3, <2>1 DEF FrameTypeOK, Local
    <2>. QED BY <1>3, <2>2 DEF IInv, Placed, Covered, Unplaced, Local
  <1>4. CASE BeginLayout
    <2>1. FrameTypeOK' /\ SavedRegisters' = SavedRegisters /\ offset' = SavedRegisters
      BY <1>0, <1>4 DEF FrameTypeOK, BeginLayout, SavedRegisters
    <2>2. stage' = "layout" /\ locals' = locals /\ SavedRegisters \in Nat
      BY <1>4 DEF BeginLayout, SavedRegisters
    <2>3. place = 1
      BY <1>4 DEF BeginLayout, IInv, Unplaced
    <2>4. ASSUME NEW k \in Locals
          PROVE  ~(k < 1)
      BY <1>0, <2>4 DEF Locals, FrameTypeOK
    <2>5. Placed'
      BY <1>4, <2>1, <2>2, <2>3, <2>4 DEF Placed, BeginLayout, Locals
    <2>. QED BY <1>4, <2>1, <2>2, <2>5 DEF IInv, Covered, Unplaced
  <1>5. CASE LayoutLocal
    BY <1>5, LayoutLocalStep
  <1>6. CASE EndLayout
    <2>1. stack_size' \in Nat /\ offset <= stack_size' /\ stack_size' % 16 = 0
      BY <1>0, <1>6, AlignTo16, AlignToBounds DEF EndLayout
    <2>2. place = Len(locals) + 1
      BY <1>0, <1>6 DEF EndLayout, Locals, FrameTypeOK
    <2>3. FrameTypeOK' /\ Placed'
      BY <1>0, <1>6, <2>1 DEF IInv, FrameTypeOK, Placed, EndLayout, SavedRegisters, Locals
    <2>. QED BY <1>6, <2>1, <2>2, <2>3 DEF IInv, Covered, EndLayout, Unplaced
  <1>7. CASE UNCHANGED frameVars
    BY <1>7 DEF IInv, FrameTypeOK, Placed, Covered, Unplaced, frameVars, SavedRegisters, Locals
  <1>. QED BY <1>1, <1>2, <1>3, <1>4, <1>5, <1>6, <1>7 DEF FrameNext

LEMMA InvariantHolds == FrameSpec => []IInv
  BY InitIInv, NextIInv, PTL DEF FrameSpec

\* Every reachable list of variables and every offset is well formed (funcdef,
\* parse.c:602; main, main.c:267).
THEOREM FrameTyped == FrameSpec => []FrameTypeOK
  <1>1. IInv => FrameTypeOK
    BY DEF IInv
  <1>. QED BY InvariantHolds, <1>1, PTL

\* What the loop has placed when it ends is disjoint.
LEMMA InvariantDisjoint == IInv => FrameDisjoint
  <1>. SUFFICES ASSUME IInv, stage = "run"
                PROVE  /\ stack_size % 16 = 0 /\ SavedRegisters <= stack_size
                       /\ \A k \in Locals : /\ SavedRegisters <= locals[k].offset - locals[k].size
                                            /\ locals[k].offset <= stack_size
                       /\ \A i, j \in Locals :
                            i < j => locals[i].offset <= locals[j].offset - locals[j].size
    BY DEF FrameDisjoint
  <1>1. /\ offset \in Nat /\ stack_size \in Nat /\ SavedRegisters \in Nat
        /\ offset <= stack_size /\ stack_size % 16 = 0 /\ place = Len(locals) + 1
    BY DEF IInv, FrameTypeOK, Covered, SavedRegisters
  <1>2. ASSUME NEW k \in Locals
        PROVE  k \in Nat /\ k < place /\ locals[k].offset \in Nat
    <2>1. locals \in Seq(Var) /\ Len(locals) \in Nat /\ k \in 1 .. Len(locals)
      BY DEF IInv, FrameTypeOK, Locals
    <2>. QED BY <1>1, <2>1, VarFields
  <1>. QED BY <1>1, <1>2 DEF IInv, Placed

\* Whatever the number, sizes and alignments of the variables, no two of them
\* overlap, none lies over a saved register, and the frame holds all of them
\* (main, main.c:267).
THEOREM FrameIsDisjoint == FrameSpec => []FrameDisjoint
  BY InvariantHolds, InvariantDisjoint, PTL

\* The running program lays its frame out as FrameSpec does.
LEMMA RunsInFrame == Spec => FrameSpec
  <1>1. Init => FrameInit
    BY DEF Init
  <1>2. [Next]_vars => [FrameNext]_frameVars
    BY DEF Next, vars, Layout, Start, Call, EnterFunction, Assign, Compute,
           builtin_va_start, Return
  <1>. QED BY <1>1, <1>2, PTL DEF Spec, FrameSpec

\* The same of the frame of a function that runs, calls itself and returns
\* (emit_text, codegen.c:955).
THEOREM RunningFrameIsDisjoint == Spec => []FrameDisjoint
  BY RunsInFrame, FrameIsDisjoint, PTL
-----------------------------------------------------------------------------
(* Memory: what a store leaves intact, and what a load then finds.         *)

Cell(a, n, v) == [at |-> a, n |-> n, v |-> v]

MemoryOK(mm) == \A e \in mm : e.at \in Int /\ e.n \in Nat \ {0}

\* The cell c is there and no other piece of memory meets it.
Intact(mm, c) == c \in mm /\ \A e \in mm : e = c \/ e.at + e.n <= c.at \/ c.at + c.n <= e.at

LEMMA LoadIntact ==
  ASSUME NEW mm, MemoryOK(mm), NEW a \in Int, NEW n \in Nat \ {0}, NEW v,
         Intact(mm, Cell(a, n, v))
  PROVE  load(mm, a, n) = v
  <1>1. /\ Cell(a, n, v) \in mm /\ Cell(a, n, v).at = a /\ Cell(a, n, v).n = n
        /\ Cell(a, n, v).v = v
    BY DEF Intact, Cell
  <1>2. ASSUME NEW e \in mm, e.at = a, e.n >= n
        PROVE  e = Cell(a, n, v)
    BY <1>1, <1>2 DEF Intact, MemoryOK
  <1>3. (CHOOSE e \in mm : e.at = a /\ e.n >= n) = Cell(a, n, v)
    BY <1>1, <1>2
  <1>4. \E e \in mm : e.at = a /\ e.n >= n
    BY <1>1
  <1>5. load(mm, a, n) = (CHOOSE e \in mm : e.at = a /\ e.n >= n).v
    BY <1>4, Zenon DEF load
  <1>. QED BY <1>1, <1>3, <1>5

LEMMA StoreIntact ==
  ASSUME NEW mm, MemoryOK(mm), NEW a \in Int, NEW n \in Nat \ {0}, NEW v
  PROVE  /\ MemoryOK(store(mm, a, n, v))
         /\ Intact(store(mm, a, n, v), Cell(a, n, v))
  BY DEF MemoryOK, Intact, Cell, store

LEMMA StoreKeeps ==
  ASSUME NEW mm, MemoryOK(mm), NEW a \in Int, NEW n \in Nat \ {0}, NEW v,
         NEW c, Intact(mm, c), a + n <= c.at \/ c.at + c.n <= a
  PROVE  Intact(store(mm, a, n, v), c)
  BY DEF MemoryOK, Intact, store

\* The prologue's stores of s1 to s11 and fs0 to fs11
LEMMA SavedStored ==
  ASSUME NEW mm, MemoryOK(mm), NEW fp \in Int
  PROVE  /\ MemoryOK(StoreSaved(mm, fp))
         /\ \A r \in Saved : Intact(StoreSaved(mm, fp), Cell(fp - 8 * r, 8, sregs[r]))
         /\ \A c : Intact(mm, c) /\ fp <= c.at => Intact(StoreSaved(mm, fp), c)
  <1> DEFINE kept == {c \in mm : \A r \in Saved : c.at + c.n <= fp - 8 * r \/ fp - 8 * r + 8 <= c.at}
             new == {[at |-> fp - 8 * r, n |-> 8, v |-> sregs[r]] : r \in Saved}
  <1>1. StoreSaved(mm, fp) = kept \cup new
    BY DEF StoreSaved, storeAll
  <1>2. \A r \in Saved : r \in 1 .. 23
    BY DEF Saved
  <1>3. MemoryOK(kept \cup new)
    BY <1>2 DEF MemoryOK
  <1>4. ASSUME NEW r \in Saved
        PROVE  Intact(kept \cup new, Cell(fp - 8 * r, 8, sregs[r]))
    <2>1. Cell(fp - 8 * r, 8, sregs[r]) \in new
      BY DEF Cell
    <2>2. ASSUME NEW e \in new
          PROVE  e = Cell(fp - 8 * r, 8, sregs[r]) \/ e.at + e.n <= fp - 8 * r \/ fp - 8 * r + 8 <= e.at
      <3>1. PICK q \in Saved : e = [at |-> fp - 8 * q, n |-> 8, v |-> sregs[q]]
        OBVIOUS
      <3>2. e.at = fp - 8 * q /\ e.n = 8
        BY <3>1
      <3>3. CASE q = r
        BY <3>1, <3>3 DEF Cell
      <3>4. CASE q # r
        BY <1>2, <3>2, <3>4
      <3>. QED BY <3>3, <3>4
    <2>3. ASSUME NEW e \in kept
          PROVE  e.at + e.n <= fp - 8 * r \/ fp - 8 * r + 8 <= e.at
      OBVIOUS
    <2>4. Cell(fp - 8 * r, 8, sregs[r]).at = fp - 8 * r /\ Cell(fp - 8 * r, 8, sregs[r]).n = 8
      BY DEF Cell
    <2>. HIDE DEF kept, new
    <2>. QED BY <2>1, <2>2, <2>3, <2>4 DEF Intact
  <1>5. ASSUME NEW c, Intact(mm, c), fp <= c.at
        PROVE  Intact(kept \cup new, c)
    <2>1. c \in kept
      BY <1>2, <1>5 DEF Intact, MemoryOK
    <2>2. ASSUME NEW e \in new
          PROVE  e.at + e.n <= c.at
      BY <1>2, <1>5 DEF Intact, MemoryOK
    <2>. QED BY <1>5, <2>1, <2>2 DEF Intact
  <1>. HIDE DEF kept, new
  <1>. QED BY <1>1, <1>3, <1>4, <1>5

\* A variadic function's stores of a7 to a0
LEMMA ArgumentsStored ==
  ASSUME NEW mm, MemoryOK(mm), NEW fp \in Int, NEW regs
  PROVE  /\ MemoryOK(StoreArguments(mm, fp, regs))
         /\ is_variadic => \A q \in ArgRegs :
              Intact(StoreArguments(mm, fp, regs), Cell(SaveArea(fp) + 8 * q, 8, regs.a[q]))
         /\ \A c : Intact(mm, c) /\ fp - 184 <= c.at => Intact(StoreArguments(mm, fp, regs), c)
  <1> DEFINE base == SaveArea(fp) + 56
             at(r) == base - 8 * r
             kept == {c \in mm : \A r \in ArgRegs : c.at + c.n <= base - 8 * r \/ base - 8 * r + 8 <= c.at}
             new == {[at |-> base - 8 * r, n |-> 8, v |-> regs.a[7 - r]] : r \in ArgRegs}
  <1>0. CASE ~is_variadic
    BY <1>0 DEF StoreArguments
  <1>1. is_variadic => StoreArguments(mm, fp, regs) = kept \cup new
    <2>1. storeAll(mm, base, ArgRegs, LAMBDA r : regs.a[7 - r]) = kept \cup new
      <3>. HIDE DEF base
      <3>. QED BY DEF storeAll
    <2>. QED BY <2>1, Zenon DEF StoreArguments
  <1>2. \A r \in ArgRegs : r \in 0 .. 7 /\ 7 - r \in ArgRegs /\ at(r) = fp - 192 - 8 * r
    BY DEF ArgRegs, SaveArea
  <1>3. MemoryOK(kept \cup new)
    BY <1>2 DEF MemoryOK
  <1>4. ASSUME NEW q \in ArgRegs
        PROVE  Intact(kept \cup new, Cell(SaveArea(fp) + 8 * q, 8, regs.a[q]))
    <2> DEFINE r == 7 - q
    <2>1. r \in ArgRegs /\ 7 - r = q /\ at(r) = SaveArea(fp) + 8 * q
      BY <1>2 DEF SaveArea
    <2>2. Cell(at(r), 8, regs.a[q]) \in new
      BY <2>1 DEF Cell
    <2>3. ASSUME NEW e \in new
          PROVE  e = Cell(at(r), 8, regs.a[q]) \/ e.at + e.n <= at(r) \/ at(r) + 8 <= e.at
      <3>1. PICK t \in ArgRegs : e = [at |-> at(t), n |-> 8, v |-> regs.a[7 - t]]
        OBVIOUS
      <3>2. e.at = at(t) /\ e.n = 8
        BY <3>1
      <3>3. CASE t = r
        BY <2>1, <3>1, <3>3 DEF Cell
      <3>4. CASE t # r
        BY <1>2, <2>1, <3>2, <3>4
      <3>. QED BY <3>3, <3>4
    <2>4. ASSUME NEW e \in kept
          PROVE  e.at + e.n <= at(r) \/ at(r) + 8 <= e.at
      BY <2>1
    <2>5. Cell(at(r), 8, regs.a[q]).at = at(r) /\ Cell(at(r), 8, regs.a[q]).n = 8
      BY DEF Cell
    <2>6. Intact(kept \cup new, Cell(at(r), 8, regs.a[q]))
      <3>. HIDE DEF kept, new, at, r
      <3>. QED BY <2>2, <2>3, <2>4, <2>5 DEF Intact
    <2>. QED BY <2>1, <2>6
  <1>5. ASSUME NEW c, Intact(mm, c), fp - 184 <= c.at
        PROVE  Intact(kept \cup new, c)
    <2>1. c \in kept
      BY <1>2, <1>5 DEF Intact, MemoryOK
    <2>2. ASSUME NEW e \in new
          PROVE  e.at + e.n <= c.at
      <3>1. PICK t \in ArgRegs : e = [at |-> at(t), n |-> 8, v |-> regs.a[7 - t]]
        OBVIOUS
      <3>. QED BY <1>2, <1>5, <3>1 DEF Intact, MemoryOK
    <2>. QED BY <1>5, <2>1, <2>2 DEF Intact
  <1>6. CASE is_variadic
    <2>. HIDE DEF kept, new
    <2>. QED BY <1>1, <1>3, <1>4, <1>5, <1>6
  <1>. QED BY <1>0, <1>6
-----------------------------------------------------------------------------
(* The parameters are stored one after the other.                          *)

LEMMA NatLess == IsWellFoundedOn({p \in Nat \X Nat : p[1] < p[2]}, Nat)
  BY NatLessThanWellFounded DEF OpToRel

LEMMA LeastNat ==
  ASSUME NEW S, S \subseteq Nat, S # {}
  PROVE  \E m \in S : \A k \in S : m <= k
  <1> DEFINE R == {p \in Nat \X Nat : p[1] < p[2]}
  <1>1. PICK m \in S : \A k \in S : ~ (<<k, m>> \in R)
    BY NatLess, WFMin
  <1>2. \A k \in S : ~ (k < m)
    BY <1>1
  <1>. QED BY <1>2

\* The frame of a function that runs
LEMMA LaidOut ==
  ASSUME IInv, stage = "run"
  PROVE  /\ Len(locals) \in Nat /\ Locals = 1 .. Len(locals)
         /\ nparams \in Nat /\ nparams <= Len(locals) /\ nparams <= 8
         /\ Params = Len(locals) - nparams + 1 .. Len(locals)
         /\ SavedRegisters \in Nat /\ 184 <= SavedRegisters
         /\ is_variadic => SavedRegisters = 248
         /\ stack_size \in Nat /\ stack_size % 16 = 0 /\ SavedRegisters <= stack_size
         /\ \A k \in Locals : /\ locals[k].size \in Nat \ {0} /\ locals[k].offset \in Nat
                              /\ SavedRegisters <= locals[k].offset - locals[k].size
                              /\ locals[k].offset <= stack_size
         /\ \A i, j \in Locals : i < j => locals[i].offset <= locals[j].offset - locals[j].size
  <1>1. /\ locals \in Seq(Var) /\ nparams \in 0 .. Len(locals) /\ nparams <= MaxParams
        /\ stack_size \in Nat
    BY DEF IInv, FrameTypeOK
  <1>2. Len(locals) \in Nat /\ Locals = 1 .. Len(locals)
    BY <1>1 DEF Locals
  <1>3. MaxParams <= 8 /\ MaxParams \in Nat
    BY FrameAssumption
  <1>4. /\ SavedRegisters \in Nat /\ 184 <= SavedRegisters
        /\ is_variadic => SavedRegisters = 248
    BY DEF SavedRegisters
  <1>5. \A k \in Locals : locals[k].size \in Nat \ {0} /\ locals[k].offset \in Nat
    BY <1>1, <1>2, VarFields
  <1>6. Params = Len(locals) - nparams + 1 .. Len(locals)
    BY <1>1, <1>2 DEF Params
  <1>7. /\ stack_size % 16 = 0 /\ SavedRegisters <= stack_size
        /\ \A k \in Locals : /\ SavedRegisters <= locals[k].offset - locals[k].size
                              /\ locals[k].offset <= stack_size
        /\ \A i, j \in Locals : i < j => locals[i].offset <= locals[j].offset - locals[j].size
    BY InvariantDisjoint, Zenon DEF FrameDisjoint
  <1>8. nparams \in Nat /\ nparams <= Len(locals) /\ nparams <= 8
    BY <1>1, <1>2, <1>3
  <1>. QED BY <1>1, <1>2, <1>4, <1>5, <1>6, <1>7, <1>8, Zenon

VariableCell(fp, k, v) == Cell(fp - locals[k].offset, locals[k].size, v)

\* The memory after each parameter up to n, by the number of the parameter
Stores(f, mm, fp, regs, n) ==
  f = [k \in Len(locals) - nparams .. n |->
         IF k \notin Params THEN mm
         ELSE store(f[k - 1], fp - locals[k].offset, locals[k].size, Incoming(regs, k))]

LEMMA StoresExist ==
  ASSUME IInv, stage = "run", NEW mm, NEW fp, NEW regs
  PROVE  \E f : Stores(f, mm, fp, regs, Len(locals))
  <1> DEFINE lo == Len(locals) - nparams
             None == {n \in lo .. Len(locals) : ~ \E f : Stores(f, mm, fp, regs, n)}
             put(f, k) == IF k \notin Params THEN mm
                          ELSE store(f[k - 1], fp - locals[k].offset, locals[k].size, Incoming(regs, k))
  <1>1. lo \in Nat /\ Len(locals) \in Nat /\ lo <= Len(locals) /\ None \subseteq Nat
    BY LaidOut
  <1>2. ASSUME None # {} PROVE FALSE
    <2>1. PICK n \in None : \A m \in None : n <= m
      <3>. HIDE DEF None
      <3>. QED BY <1>1, <1>2, LeastNat
    <2>2. n \in lo .. Len(locals) /\ ~ \E f : Stores(f, mm, fp, regs, n)
      BY <2>1
    <2>3. \A k \in Params : lo < k
      BY <1>1, LaidOut
    <2>4. CASE n = lo
      <3> DEFINE f == [k \in lo .. n |-> mm]
      <3>1. \A k \in lo .. n : k \notin Params
        BY <1>1, <2>3, <2>4
      <3>2. Stores(f, mm, fp, regs, n)
        BY <3>1 DEF Stores
      <3>. QED BY <2>2, <3>2
    <2>5. CASE n # lo
      <3>1. n - 1 \in lo .. Len(locals) /\ n - 1 \notin None
        BY <1>1, <2>1, <2>2, <2>5
      <3>2. PICK f : Stores(f, mm, fp, regs, n - 1)
        BY <3>1
      <3> DEFINE g == [k \in lo .. n |-> put(f, k)]
      <3>3. \A k \in lo .. n : k \in Params => k - 1 \in lo .. n - 1 /\ k - 1 \in lo .. n
        BY <1>1, <2>2, <2>3
      <3>4. \A k \in lo .. n - 1 : f[k] = put(f, k)
        BY <3>2, Zenon DEF Stores
      <3>5. \A k \in lo .. n : k \in Params => g[k - 1] = f[k - 1]
        <4>. SUFFICES ASSUME NEW k \in lo .. n, k \in Params
                      PROVE  g[k - 1] = f[k - 1]
          OBVIOUS
        <4>1. k - 1 \in lo .. n - 1 /\ k - 1 \in lo .. n
          BY <3>3
        <4>2. g[k - 1] = put(f, k - 1)
          BY <4>1, Zenon
        <4>. QED BY <3>4, <4>1, <4>2, Zenon
      <3>6. \A k \in lo .. n : put(f, k) = put(g, k)
        BY <3>5, Zenon
      <3>7. Stores(g, mm, fp, regs, n)
        <4>1. g = [k \in lo .. n |-> put(g, k)]
          <5>. HIDE DEF put
          <5>. QED BY <3>6
        <4>. QED BY <4>1, Zenon DEF Stores
      <3>. QED BY <2>2, <3>7
    <2>. QED BY <2>4, <2>5
  <1>3. Len(locals) \in lo .. Len(locals)
    BY <1>1
  <1>. QED BY <1>2, <1>3

\* Storing a parameter keeps what was stored, other parameters included.
LEMMA StoresKeep ==
  ASSUME IInv, stage = "run", NEW mm, MemoryOK(mm), NEW fp \in Int, NEW regs,
         NEW f, Stores(f, mm, fp, regs, Len(locals)),
         NEW k \in Len(locals) - nparams .. Len(locals)
  PROVE  /\ MemoryOK(f[k])
         /\ \A j \in Params : j <= k => Intact(f[k], VariableCell(fp, j, Incoming(regs, j)))
         /\ \A c : Intact(mm, c) /\ fp - SavedRegisters <= c.at => Intact(f[k], c)
  <1> DEFINE lo == Len(locals) - nparams
             Good(m) == /\ MemoryOK(f[m])
                        /\ \A j \in Params : j <= m => Intact(f[m], VariableCell(fp, j, Incoming(regs, j)))
                        /\ \A c : Intact(mm, c) /\ fp - SavedRegisters <= c.at => Intact(f[m], c)
             Bad == {m \in lo .. Len(locals) : ~ Good(m)}
  <1>0. /\ \A j \in Locals : /\ locals[j].size \in Nat \ {0} /\ locals[j].offset \in Nat
                             /\ SavedRegisters <= locals[j].offset - locals[j].size
        /\ \A i, j \in Locals : i < j => locals[i].offset <= locals[j].offset - locals[j].size
    BY LaidOut
  <1>1. /\ lo \in Nat /\ Len(locals) \in Nat /\ lo <= Len(locals) /\ Bad \subseteq Nat
        /\ SavedRegisters \in Nat
        /\ \A j \in Params : j \in lo + 1 .. Len(locals) /\ j \in Locals
    BY LaidOut
  <1>2. \A m \in lo .. Len(locals) :
          f[m] = IF m \notin Params THEN mm
                 ELSE store(f[m - 1], fp - locals[m].offset, locals[m].size, Incoming(regs, m))
    BY Zenon DEF Stores
  <1>3. ASSUME Bad # {} PROVE FALSE
    <2>1. PICK m \in Bad : \A i \in Bad : m <= i
      <3>. HIDE DEF Bad
      <3>. QED BY <1>1, <1>3, LeastNat
    <2>2. m \in lo .. Len(locals) /\ ~ Good(m)
      BY <2>1
    <2>3. CASE m = lo
      <3>1. m \notin Params /\ \A j \in Params : ~ (j <= m)
        BY <1>1, <2>3
      <3>2. f[m] = mm
        BY <1>2, <2>2, <3>1
      <3>. QED BY <2>2, <3>1, <3>2
    <2>4. CASE m # lo
      <3> DEFINE a == fp - locals[m].offset
                 v == Incoming(regs, m)
      <3>1. m - 1 \in lo .. Len(locals) /\ m - 1 \notin Bad /\ m \in Params
        BY <1>1, <2>1, <2>2, <2>4, LaidOut
      <3>2. Good(m - 1)
        BY <3>1
      <3>3. f[m] = store(f[m - 1], a, locals[m].size, v)
        BY <1>2, <2>2, <3>1
      <3>4. /\ a \in Int /\ locals[m].size \in Nat \ {0}
            /\ a + locals[m].size <= fp - SavedRegisters
        <4>1. /\ locals[m].size \in Nat \ {0} /\ locals[m].offset \in Nat
              /\ SavedRegisters <= locals[m].offset - locals[m].size
          BY <1>0, <1>1, <3>1
        <4>2. fp \in Int /\ SavedRegisters \in Nat
          BY <1>1
        <4>3. \A s, o, z, p \in Int : s <= o - z => (p - o) + z <= p - s
          OBVIOUS
        <4>. QED BY <4>1, <4>2, <4>3
      <3>5. MemoryOK(f[m]) /\ Intact(f[m], VariableCell(fp, m, v))
        BY <3>2, <3>3, <3>4, StoreIntact DEF VariableCell
      <3>6. ASSUME NEW j \in Params, j <= m
            PROVE  Intact(f[m], VariableCell(fp, j, Incoming(regs, j)))
        <4>1. CASE j = m
          BY <3>5, <4>1
        <4>2. CASE j # m
          <5>1. j <= m - 1 /\ j < m
            BY <1>1, <2>2, <3>6, <4>2
          <5>2. Intact(f[m - 1], VariableCell(fp, j, Incoming(regs, j)))
            BY <3>2, <5>1
          <5>3. a + locals[m].size <= VariableCell(fp, j, Incoming(regs, j)).at
            <6>1. /\ locals[m].size \in Nat /\ locals[m].offset \in Nat /\ locals[j].offset \in Nat
                  /\ locals[j].offset <= locals[m].offset - locals[m].size
              BY <1>0, <1>1, <3>1, <5>1
            <6>2. VariableCell(fp, j, Incoming(regs, j)).at = fp - locals[j].offset
              BY DEF VariableCell, Cell
            <6>3. a + locals[m].size <= fp - locals[j].offset
              <7>1. PICK o \in Nat : o = locals[m].offset
                BY <6>1
              <7>2. PICK g \in Nat : g = locals[j].offset
                BY <6>1
              <7>3. PICK z \in Nat : z = locals[m].size
                BY <6>1
              <7>4. g <= o - z /\ a = fp - o
                BY <6>1, <7>1, <7>2, <7>3
              <7>. HIDE DEF a, v
              <7>5. a + z <= fp - g
                BY <7>4
              <7>. QED BY <7>2, <7>3, <7>5
            <6>. QED BY <6>2, <6>3
          <5>4. MemoryOK(f[m - 1])
            BY <3>2
          <5>. HIDE DEF a, v
          <5>. QED BY <3>3, <3>4, <5>2, <5>3, <5>4, StoreKeeps
        <4>. QED BY <4>1, <4>2
      <3>7. ASSUME NEW c, Intact(mm, c), fp - SavedRegisters <= c.at
            PROVE  Intact(f[m], c)
        <4>1. Intact(f[m - 1], c) /\ MemoryOK(f[m - 1])
          BY <3>2, <3>7
        <4>2. c.at \in Int
          BY <3>7 DEF Intact, MemoryOK
        <4>3. a + locals[m].size <= c.at
          BY <1>1, <3>4, <3>7, <4>2
        <4>. HIDE DEF a, v
        <4>. QED BY <3>3, <3>4, <4>1, <4>3, StoreKeeps
      <3>8. Good(m)
        BY <3>5, <3>6, <3>7
      <3>. QED BY <2>2, <3>8
    <2>. QED BY <2>3, <2>4
  <1>4. k \notin Bad
    BY <1>3
  <1>. QED BY <1>4

LEMMA ParamsStored ==
  ASSUME IInv, stage = "run", NEW mm, MemoryOK(mm), NEW fp \in Int, NEW regs
  PROVE  /\ MemoryOK(StoreParams(mm, fp, regs))
         /\ \A k \in Params :
              Intact(StoreParams(mm, fp, regs), VariableCell(fp, k, Incoming(regs, k)))
         /\ \A c : Intact(mm, c) /\ fp - SavedRegisters <= c.at
                     => Intact(StoreParams(mm, fp, regs), c)
  <1> DEFINE P(f) == f = [k \in Len(locals) - nparams .. Len(locals) |->
                            IF k \notin Params THEN mm
                            ELSE store(f[k - 1], fp - locals[k].offset, locals[k].size,
                                       Incoming(regs, k))]
             after == CHOOSE f : P(f)
  <1>1. StoreParams(mm, fp, regs) = after[Len(locals)]
    BY DEF StoreParams
  <1>2. \A f : P(f) <=> Stores(f, mm, fp, regs, Len(locals))
    BY DEF Stores
  <1>3. P(after)
    <2>1. \E f : P(f)
      <3>. HIDE DEF P
      <3>. QED BY <1>2, StoresExist
    <2>. HIDE DEF P
    <2>. QED BY <2>1
  <1>. HIDE DEF P, after
  <1>4. Stores(after, mm, fp, regs, Len(locals))
    BY <1>2, <1>3
  <1>5. Len(locals) \in Len(locals) - nparams .. Len(locals)
    BY LaidOut
  <1>6. \A k \in Params : k <= Len(locals)
    BY LaidOut
  <1>. QED BY <1>1, <1>4, <1>5, <1>6, StoresKeep
-----------------------------------------------------------------------------
(* The arguments arrive in the registers the parameters are stored from.   *)

\* The number of floating arguments before the i-th
FloatsBefore(args, i) == Cardinality({j \in 1 .. i - 1 : args[j].flonum})

ArgumentsOK(args) ==
  /\ \E S : args \in Seq(S)
  /\ Len(args) <= 8 /\ nparams <= Len(args)
  /\ \A i \in 1 .. nparams : args[i].flonum = ParamOf(i).flonum

LEMMA IntervalSize ==
  ASSUME NEW a \in Int, NEW b \in Int, a <= b + 1
  PROVE  IsFiniteSet(a .. b) /\ Cardinality(a .. b) = b - a + 1
  <1>1. /\ IsFiniteSet(a .. b)
        /\ Cardinality(a .. b) = IF a > b THEN 0 ELSE b - a + 1
    BY FS_Interval
  <1>. QED BY <1>1

LEMMA FloatsBeforeTyped ==
  ASSUME NEW args, NEW i \in Nat \ {0}
  PROVE  /\ IsFiniteSet({j \in 1 .. i - 1 : args[j].flonum})
         /\ FloatsBefore(args, i) \in 0 .. i - 1
  <1> DEFINE T == {j \in 1 .. i - 1 : args[j].flonum}
  <1>1. IsFiniteSet(1 .. i - 1) /\ Cardinality(1 .. i - 1) = i - 1
    <2>1. 1 \in Int /\ i - 1 \in Int /\ 1 <= (i - 1) + 1 /\ (i - 1) - 1 + 1 = i - 1
      OBVIOUS
    <2>. QED BY <2>1, IntervalSize
  <1>2. T \in SUBSET (1 .. i - 1)
    OBVIOUS
  <1>. HIDE DEF T
  <1>3. IsFiniteSet(T) /\ Cardinality(T) <= Cardinality(1 .. i - 1) /\ Cardinality(T) \in Nat
    BY <1>1, <1>2, FS_Subset, FS_CardinalityType
  <1>. QED BY <1>1, <1>3 DEF FloatsBefore, T

\* Two floating arguments do not have the same number before them.
LEMMA FloatsDiffer ==
  ASSUME NEW args, NEW i \in Nat \ {0}, NEW j \in Nat \ {0}, i < j, args[i].flonum
  PROVE  FloatsBefore(args, i) # FloatsBefore(args, j)
  <1> DEFINE T(q) == {m \in 1 .. q - 1 : args[m].flonum}
  <1>1. IsFiniteSet(T(j))
    BY FloatsBeforeTyped
  <1>2. T(i) \in SUBSET T(j)
    OBVIOUS
  <1>3. i \in T(j) /\ i \notin T(i)
    OBVIOUS
  <1>4. FloatsBefore(args, i) = Cardinality(T(i)) /\ FloatsBefore(args, j) = Cardinality(T(j))
    BY DEF FloatsBefore
  <1>. HIDE DEF T
  <1>5. Cardinality(T(j)) = Cardinality(T(i)) => T(j) = T(i)
    BY <1>1, <1>2, FS_Subset
  <1>. QED BY <1>3, <1>4, <1>5

\* The floating argument i is in the register of that number.
LEMMA FloatLoaded ==
  ASSUME NEW args, ArgumentsOK(args), NEW i \in 1 .. Len(args), args[i].flonum
  PROVE  LoadArguments(args).fa[FloatsBefore(args, i)] = args[i].v
  <1> DEFINE r == FloatsBefore(args, i)
             at == {q \in DOMAIN args : args[q].flonum /\ FloatsBefore(args, q) = r}
  <1>1. /\ DOMAIN args = 1 .. Len(args) /\ Len(args) \in Nat /\ Len(args) <= 8
        /\ i \in Nat \ {0} /\ \A q \in DOMAIN args : q \in Nat \ {0}
    BY DEF ArgumentsOK
  <1>2. r \in 0 .. i - 1
    BY <1>1, FloatsBeforeTyped
  <1>3. r \in ArgRegs
    <2>. HIDE DEF r
    <2>. QED BY <1>1, <1>2 DEF ArgRegs
  <1>4. i \in at
    BY <1>1
  <1>5. ASSUME NEW q \in at PROVE q = i
    <2>1. q \in Nat \ {0} /\ args[q].flonum /\ FloatsBefore(args, q) = FloatsBefore(args, i)
      BY <1>1
    <2>2. ~ (q < i) /\ ~ (i < q)
      BY <1>1, <2>1, FloatsDiffer
    <2>. QED BY <1>1, <2>1, <2>2
  <1>6. at # {} /\ (CHOOSE q \in at : TRUE) = i
    <2>. HIDE DEF at
    <2>. QED BY <1>4, <1>5
  <1>7. LoadArguments(args).fa[r] =
          IF at = {} THEN Garbage ELSE args[CHOOSE q \in at : TRUE].v
    <2>. HIDE DEF r
    <2>. QED BY <1>3 DEF LoadArguments, FloatsBefore
  <1>. HIDE DEF at
  <1>. QED BY <1>6, <1>7

\* Parameter k is stored from the register its argument was loaded into.
LEMMA ArgumentArrives ==
  ASSUME IInv, stage = "run", NEW args, ArgumentsOK(args), ~ FloatFirst(args), NEW k \in Params
  PROVE  Incoming(LoadArguments(args), k) = args[Len(locals) - k + 1].v
  <1> DEFINE i == Len(locals) - k + 1
             L == Len(locals)
             S == {j \in Params : j > k /\ locals[j].flonum = locals[k].flonum}
  <1>1. /\ L \in Nat /\ nparams \in Nat /\ nparams <= L /\ nparams <= 8
        /\ Params = L - nparams + 1 .. L /\ k \in Nat
        /\ \A j \in Params : locals[j].flonum \in BOOLEAN
    <2>1. /\ L \in Nat /\ nparams \in Nat /\ nparams <= L /\ nparams <= 8
          /\ Params = L - nparams + 1 .. L
      BY LaidOut
    <2>2. \A j \in Params : locals[j] \in Var
      BY DEF Params, Locals, IInv, FrameTypeOK
    <2>. QED BY <2>1, <2>2 DEF Var
  <1>2. /\ DOMAIN args = 1 .. Len(args) /\ Len(args) \in Nat /\ Len(args) <= 8
        /\ nparams <= Len(args) /\ \A j \in 1 .. nparams : args[j].flonum = ParamOf(j).flonum
    BY DEF ArgumentsOK
  <1>3. /\ i \in 1 .. nparams
        /\ \A j \in Params : /\ L - j + 1 \in 1 .. nparams
                             /\ args[L - j + 1].flonum = locals[j].flonum
    <2>1. \A j \in Params : L - j + 1 \in 1 .. nparams /\ L - (L - j + 1) + 1 = j
      BY <1>1
    <2>2. \A j \in Params : ParamOf(L - j + 1) = locals[j]
      BY <2>1 DEF ParamOf
    <2>. QED BY <1>2, <2>1, <2>2
  <1>4. CASE ~ locals[k].flonum
    <2>1. ASSUME NEW j \in k + 1 .. L
          PROVE  j \in Params /\ ~ locals[j].flonum
      <3>1. j \in Params
        BY <1>1
      <3>2. L - j + 1 < i /\ L - j + 1 \in DOMAIN args /\ i \in DOMAIN args
            /\ L - j + 1 <= nparams
        BY <1>1, <1>2, <1>3, <3>1
      <3>3. ~ args[i].flonum
        BY <1>3, <1>4
      <3>4. ~ args[L - j + 1].flonum
        BY <3>2, <3>3 DEF FloatFirst
      <3>. QED BY <1>3, <3>1, <3>4
    <2>2. S = k + 1 .. L
      BY <1>1, <1>4, <2>1
    <2>3. Cardinality(S) = L - k
      <3>1. k + 1 \in Int /\ L \in Int /\ k + 1 <= L + 1 /\ L - (k + 1) + 1 = L - k
        BY <1>1
      <3>. HIDE DEF L
      <3>. QED BY <2>2, <3>1, IntervalSize
    <2>4. Incoming(LoadArguments(args), k) = LoadArguments(args).a[L - k]
      BY <1>4, <2>3 DEF Incoming
    <2>5. L - k \in ArgRegs /\ L - k < Len(args)
      BY <1>1, <1>2 DEF ArgRegs
    <2>. QED BY <2>4, <2>5 DEF LoadArguments
  <1>5. CASE locals[k].flonum
    <2> DEFINE T == {j \in 1 .. i - 1 : args[j].flonum}
               g == [j \in S |-> L - j + 1]
    <2>1. ASSUME NEW j \in S PROVE L - j + 1 \in T
      <3>1. j \in Params /\ j > k /\ locals[j].flonum
        BY <1>5
      <3>2. L - j + 1 \in 1 .. i - 1
        BY <1>1, <3>1
      <3>3. args[L - j + 1].flonum
        BY <1>3, <3>1
      <3>. QED BY <3>2, <3>3
    <2>2. ASSUME NEW m \in T PROVE L - m + 1 \in S /\ L - (L - m + 1) + 1 = m
      <3>1. L - m + 1 \in Params /\ L - m + 1 > k /\ L - (L - m + 1) + 1 = m
        BY <1>1, <1>3
      <3>2. locals[L - m + 1].flonum
        BY <1>3, <3>1
      <3>. QED BY <1>1, <1>5, <3>1, <3>2
    <2>3. \A j \in S : j \in Nat
      BY <1>1
    <2>4. IsFiniteSet(T)
      <3>1. i \in Nat \ {0}
        BY <1>1, <1>3
      <3>. HIDE DEF i
      <3>. QED BY <3>1, FloatsBeforeTyped
    <2>5. ExistsBijection(T, S)
      <3> DEFINE h == [m \in T |-> L - m + 1]
      <3>1. \A m \in T : m \in Nat
        BY <1>1
      <3>2. h \in [T -> S]
        BY <2>2
      <3>3. \A m, q \in T : h[m] = h[q] => m = q
        BY <2>2
      <3>4. \A j \in S : \E m \in T : h[m] = j
        <4>. SUFFICES ASSUME NEW j \in S PROVE \E m \in T : h[m] = j
          OBVIOUS
        <4>1. L - j + 1 \in T /\ L - (L - j + 1) + 1 = j
          BY <1>1, <2>1, <2>3
        <4>. QED BY <4>1
      <3>. HIDE DEF h, S, T
      <3>. QED BY <3>2, <3>3, <3>4 DEF ExistsBijection, Bijection, Injection, Surjection, IsInjective
    <2>6. Cardinality(S) = Cardinality(T)
      <3>. HIDE DEF S, T
      <3>. QED BY <2>4, <2>5, FS_Bijection
    <2>7. Incoming(LoadArguments(args), k) = LoadArguments(args).fa[FloatsBefore(args, i)]
      BY <1>5, <2>6 DEF Incoming, FloatsBefore
    <2>8. i \in 1 .. Len(args) /\ args[i].flonum
      BY <1>1, <1>2, <1>3, <1>5
    <2>. QED BY <2>7, <2>8, FloatLoaded
  <1>. QED BY <1>4, <1>5

\* A variadic function that is given more arguments than it names has no
\* floating parameter.
LEMMA VariadicParams ==
  ASSUME IInv, stage = "run", NEW args, ArgumentsOK(args), ~ FloatFirst(args),
         nparams < Len(args)
  PROVE  Cardinality({k \in Params : ~ locals[k].flonum}) = nparams
  <1>1. /\ Len(locals) \in Nat /\ nparams \in Nat /\ nparams <= Len(locals)
        /\ Params = Len(locals) - nparams + 1 .. Len(locals)
    BY LaidOut
  <1>2. /\ DOMAIN args = 1 .. Len(args) /\ Len(args) \in Nat
        /\ \A j \in 1 .. nparams : args[j].flonum = ParamOf(j).flonum
    BY DEF ArgumentsOK
  <1>3. ASSUME NEW k \in Params PROVE ~ locals[k].flonum
    <2> DEFINE i == Len(locals) - k + 1
    <2>1. i \in 1 .. nparams /\ Len(locals) - i + 1 = k
      BY <1>1
    <2>2. i \in DOMAIN args /\ nparams + 1 \in DOMAIN args /\ i < nparams + 1 /\ i <= nparams
      BY <1>1, <1>2, <2>1
    <2>3. ~ args[i].flonum
      BY <1>1, <2>2 DEF FloatFirst
    <2>. QED BY <1>2, <2>1, <2>3 DEF ParamOf
  <1>4. {k \in Params : ~ locals[k].flonum} = Len(locals) - nparams + 1 .. Len(locals)
    BY <1>1, <1>3
  <1>5. /\ Len(locals) - nparams + 1 \in Int /\ Len(locals) \in Int
        /\ Len(locals) - nparams + 1 <= Len(locals) + 1
        /\ Len(locals) - (Len(locals) - nparams + 1) + 1 = nparams
    BY <1>1
  <1>. QED BY <1>4, <1>5, IntervalSize
-----------------------------------------------------------------------------
(* Activations and their frames on the stack.                              *)

Fields == {"env", "extra", "writes", "fp", "va", "sp", "s0", "ra", "sregs", "back"}

\* What the prologue saved is where the epilogue loads it from.
SavedIntact(mm, f) ==
  /\ Intact(mm, Cell(f.fp + 8, 8, f.ra))
  /\ Intact(mm, Cell(f.fp, 8, Address(f.s0)))
  /\ \A r \in Saved : Intact(mm, Cell(f.fp - 8 * r, 8, f.sregs[r]))

ActivationOK(f, ks) ==
  /\ DOMAIN f = Fields
  /\ f.sp \in Int /\ (f.sp - 8) % 16 = 0 /\ f.fp = f.sp - 16 /\ f.s0 \in Int
  /\ f.sregs = [r \in Saved |-> f.sregs[r]]
  /\ f.env = [k \in ks |-> f.env[k]]

MachineOK ==
  /\ IInv /\ MemoryOK(memory) /\ \E S : frames \in Seq(S)
  /\ sregs = [r \in Saved |-> sregs[r]]
  /\ sp \in Int /\ s0 \in Int /\ (sp - 8) % 16 = 0
  /\ Depth > 0 => stage = "run"
  /\ \A d \in DOMAIN frames : ActivationOK(frames[d], Locals) /\ SavedIntact(memory, frames[d])

\* Each activation was called by the one before it, and lies below it.
Chain ==
  /\ Depth > 0 => sp = Top.fp - stack_size /\ s0 = Top.fp /\ ra = Top.back
  /\ \A d \in DOMAIN frames : d + 1 \in DOMAIN frames =>
       /\ frames[d + 1].sp = frames[d].fp - stack_size
       /\ frames[d + 1].s0 = frames[d].fp
       /\ frames[d + 1].ra = frames[d].back
  /\ \A d, e \in DOMAIN frames : d < e => frames[e].sp <= frames[d].fp - stack_size

LEMMA FramesTyped ==
  ASSUME MachineOK
  PROVE  Depth \in Nat /\ DOMAIN frames = 1 .. Depth
  BY DEF MachineOK, Depth

\* All that runs lies above the stack pointer.
LEMMA StackBelow ==
  ASSUME MachineOK, Chain, NEW d \in DOMAIN frames
  PROVE  /\ frames[d].fp \in Int /\ frames[d].sp \in Int /\ stage = "run" /\ stack_size \in Nat
         /\ sp <= frames[d].fp - stack_size
         /\ d # Depth => Top.sp <= frames[d].fp - stack_size
  <1>1. Depth \in Nat /\ d \in 1 .. Depth /\ Depth \in DOMAIN frames /\ Depth > 0
    BY FramesTyped
  <1>2. \A e \in DOMAIN frames : /\ frames[e].sp \in Int /\ frames[e].fp = frames[e].sp - 16
                                 /\ frames[e].fp \in Int
    <2>1. \A e \in DOMAIN frames : ActivationOK(frames[e], Locals)
      BY DEF MachineOK
    <2>2. \A e \in DOMAIN frames : frames[e].sp \in Int /\ frames[e].fp = frames[e].sp - 16
      BY <2>1 DEF ActivationOK
    <2>. QED BY <2>2
  <1>3. stage = "run" /\ stack_size \in Nat
    BY <1>1, LaidOut DEF MachineOK
  <1>4. sp = Top.fp - stack_size
    BY <1>1 DEF Chain
  <1>5. Top = frames[Depth]
    BY DEF Top
  <1>6. CASE d = Depth
    BY <1>1, <1>2, <1>3, <1>4, <1>5, <1>6
  <1>7. CASE d # Depth
    <2>1. frames[Depth].sp <= frames[d].fp - stack_size
      BY <1>1, <1>7 DEF Chain
    <2>2. /\ frames[d].fp \in Int /\ frames[Depth].sp \in Int
          /\ frames[Depth].fp = frames[Depth].sp - 16
      BY <1>1, <1>2
    <2>. QED BY <1>2, <1>3, <1>4, <1>5, <1>7, <2>1, <2>2
  <1>. QED BY <1>6, <1>7

\* What the caller's part of a call and the prologue store
LEMMA Entered ==
  ASSUME MachineOK, stage = "run", NEW args, EnterFunction(args)
  PROVE  /\ MemoryOK(memory')
         /\ Intact(memory', Cell(sp - 8, 8, ra))
         /\ Intact(memory', Cell(sp - 16, 8, Address(s0)))
         /\ \A r \in Saved : Intact(memory', Cell(sp - 16 - 8 * r, 8, sregs[r]))
         /\ is_variadic => \A q \in ArgRegs :
              Intact(memory', Cell(SaveArea(sp - 16) + 8 * q, 8, LoadArguments(args).a[q]))
         /\ \A k \in Params :
              Intact(memory', VariableCell(sp - 16, k, Incoming(LoadArguments(args), k)))
         /\ \A c : Intact(memory, c) /\ sp <= c.at => Intact(memory', c)
  <1> DEFINE fp == sp - 16
             regs == LoadArguments(args)
             m1 == store(memory, sp - 8, 8, ra)
             m2 == store(m1, fp, 8, Address(s0))
             m3 == StoreSaved(m2, fp)
             m4 == StoreArguments(m3, fp, regs)
  <1>1. memory' = StoreParams(m4, fp, regs)
    BY DEF EnterFunction
  <1>2. /\ MemoryOK(memory) /\ sp \in Int /\ fp \in Int /\ sp - 8 \in Int /\ IInv
        /\ 8 \in Nat \ {0} /\ SavedRegisters \in Nat /\ 184 <= SavedRegisters
        /\ is_variadic => SavedRegisters = 248
    BY LaidOut DEF MachineOK
  <1>. HIDE DEF regs
  <1>3. MemoryOK(m1) /\ Intact(m1, Cell(sp - 8, 8, ra))
    BY <1>2, StoreIntact
  <1>4. /\ MemoryOK(m2) /\ Intact(m2, Cell(fp, 8, Address(s0)))
        /\ Intact(m2, Cell(sp - 8, 8, ra))
    <2>1. fp + 8 <= Cell(sp - 8, 8, ra).at
      BY <1>2 DEF Cell
    <2>. HIDE DEF m1, fp
    <2>. QED BY <1>2, <1>3, <2>1, StoreIntact, StoreKeeps
  <1>5. ASSUME NEW c, Intact(memory, c), sp <= c.at
        PROVE  Intact(m2, c) /\ c.at \in Int
    <2>1. c.at \in Int
      BY <1>2, <1>5 DEF Intact, MemoryOK
    <2>2. sp - 8 + 8 <= c.at /\ fp + 8 <= c.at
      BY <1>2, <1>5, <2>1
    <2>. HIDE DEF fp
    <2>3. Intact(m1, c)
      BY <1>2, <1>5, <2>2, StoreKeeps
    <2>. HIDE DEF m1
    <2>. QED BY <1>2, <1>3, <2>1, <2>2, <2>3, StoreKeeps
  <1>6. /\ MemoryOK(m3)
        /\ \A r \in Saved : Intact(m3, Cell(fp - 8 * r, 8, sregs[r]))
        /\ \A c : Intact(m2, c) /\ fp <= c.at => Intact(m3, c)
    <2>. HIDE DEF fp, m2
    <2>. QED BY <1>2, <1>4, SavedStored
  <1>7. /\ MemoryOK(m4)
        /\ is_variadic => \A q \in ArgRegs :
             Intact(m4, Cell(SaveArea(fp) + 8 * q, 8, regs.a[q]))
        /\ \A c : Intact(m3, c) /\ fp - 184 <= c.at => Intact(m4, c)
    <2>. HIDE DEF fp, m3
    <2>. QED BY <1>2, <1>6, ArgumentsStored
  <1>8. /\ MemoryOK(memory')
        /\ \A k \in Params : Intact(memory', VariableCell(fp, k, Incoming(regs, k)))
        /\ \A c : Intact(m4, c) /\ fp - SavedRegisters <= c.at => Intact(memory', c)
    <2>. HIDE DEF fp, m4
    <2>. QED BY <1>1, <1>2, <1>7, ParamsStored
  <1>9. ASSUME NEW c, Intact(m3, c), fp - 184 <= c.at, c.at \in Int
        PROVE  Intact(memory', c)
    <2>1. fp - SavedRegisters <= c.at
      BY <1>2, <1>9
    <2>. HIDE DEF fp, m3, m4
    <2>. QED BY <1>7, <1>8, <1>9, <2>1
  <1>10. ASSUME NEW c, Intact(m2, c), fp <= c.at, c.at \in Int
         PROVE  Intact(memory', c)
    <2>1. fp - 184 <= c.at
      BY <1>2, <1>10
    <2>. HIDE DEF fp, m2, m3
    <2>. QED BY <1>6, <1>9, <1>10, <2>1
  <1>11. /\ Intact(memory', Cell(sp - 8, 8, ra))
         /\ Intact(memory', Cell(fp, 8, Address(s0)))
    <2>1. /\ fp <= Cell(sp - 8, 8, ra).at /\ Cell(sp - 8, 8, ra).at \in Int
          /\ fp <= Cell(fp, 8, Address(s0)).at /\ Cell(fp, 8, Address(s0)).at \in Int
      BY <1>2 DEF Cell
    <2>. HIDE DEF fp, m2
    <2>. QED BY <1>4, <1>10, <2>1
  <1>12. ASSUME NEW r \in Saved
         PROVE  Intact(memory', Cell(fp - 8 * r, 8, sregs[r]))
    <2>1. Cell(fp - 8 * r, 8, sregs[r]).at = fp - 8 * r /\ r \in 1 .. 23
      BY DEF Cell, Saved
    <2>2. fp - 184 <= fp - 8 * r /\ fp - 8 * r \in Int
      BY <1>2, <2>1
    <2>. HIDE DEF fp, m3
    <2>. QED BY <1>6, <1>9, <2>1, <2>2
  <1>13. ASSUME is_variadic, NEW q \in ArgRegs
         PROVE  Intact(memory', Cell(SaveArea(fp) + 8 * q, 8, regs.a[q]))
    <2>1. /\ Cell(SaveArea(fp) + 8 * q, 8, regs.a[q]).at = SaveArea(fp) + 8 * q
          /\ q \in 0 .. 7 /\ SaveArea(fp) = fp - 248
      BY DEF Cell, ArgRegs, SaveArea
    <2>2. fp - SavedRegisters <= SaveArea(fp) + 8 * q
      BY <1>2, <1>13, <2>1
    <2>. HIDE DEF fp, m4
    <2>. QED BY <1>7, <1>8, <1>13, <2>1, <2>2
  <1>14. ASSUME NEW c, Intact(memory, c), sp <= c.at
         PROVE  Intact(memory', c)
    <2>1. Intact(m2, c) /\ c.at \in Int
      BY <1>5, <1>14
    <2>2. fp <= c.at
      BY <1>2, <1>14, <2>1
    <2>. HIDE DEF fp, m2
    <2>. QED BY <1>10, <2>1, <2>2
  <1>. QED BY <1>8, <1>11, <1>12, <1>13, <1>14 DEF regs

\* A sequence to which anything is appended
LEMMA Appended ==
  ASSUME NEW s, \E S : s \in Seq(S), NEW x
  PROVE  /\ \E S : Append(s, x) \in Seq(S)
         /\ Len(s) \in Nat /\ Len(Append(s, x)) = Len(s) + 1
         /\ DOMAIN Append(s, x) = 1 .. Len(s) + 1
         /\ \A i \in 1 .. Len(s) : Append(s, x)[i] = s[i]
         /\ Append(s, x)[Len(s) + 1] = x
  <1>1. PICK S : s \in Seq(S)
    OBVIOUS
  <1>2. s \in Seq(S \cup {x}) /\ x \in S \cup {x}
    BY <1>1
  <1>3. Append(s, x) \in Seq(S \cup {x})
    BY <1>2
  <1>. QED BY <1>2, <1>3

LEMMA Cut ==
  ASSUME NEW s, \E S : s \in Seq(S), Len(s) > 0
  PROVE  /\ \E S : SubSeq(s, 1, Len(s) - 1) \in Seq(S)
         /\ Len(s) \in Nat /\ Len(SubSeq(s, 1, Len(s) - 1)) = Len(s) - 1
         /\ \A i \in 1 .. Len(s) - 1 : SubSeq(s, 1, Len(s) - 1)[i] = s[i]
  <1>1. PICK S : s \in Seq(S)
    OBVIOUS
  <1>2. Len(s) \in Nat /\ Len(s) - 1 \in 0 .. Len(s)
    BY <1>1
  <1>3. SubSeq(s, 1, Len(s) - 1) \in Seq(S)
    BY <1>1, <1>2
  <1>4. ASSUME NEW m \in 0 .. Len(s)
        PROVE  Len(SubSeq(s, 1, m)) = m /\ \A i \in 1 .. m : SubSeq(s, 1, m)[i] = s[i]
    BY <1>1, <1>2
  <1>. QED BY <1>2, <1>3, <1>4

\* The stack stays aligned to 16 bytes.
LEMMA Aligned16 ==
  ASSUME NEW a \in Int, (a - 8) % 16 = 0, NEW b \in Int, b % 16 = 0
  PROVE  (a - 16 - b - 8) % 16 = 0
  OBVIOUS

\* What the activations saved lies above the stack pointer, and above the
\* variables of the one that runs.
LEMMA SavedAbove ==
  ASSUME MachineOK, Chain, NEW d \in DOMAIN frames
  PROVE  /\ frames[d].fp \in Int /\ sp <= frames[d].fp - 184
         /\ s0 \in Int /\ SavedRegisters \in Nat /\ s0 - SavedRegisters <= frames[d].fp - 184
  <1>1. /\ frames[d].fp \in Int /\ stack_size \in Nat /\ sp \in Int /\ s0 \in Int
        /\ sp <= frames[d].fp - stack_size
        /\ d # Depth => Top.sp <= frames[d].fp - stack_size
    BY StackBelow DEF MachineOK
  <1>2. 184 <= stack_size /\ SavedRegisters \in Nat /\ 184 <= SavedRegisters
    <2>1. stage = "run" /\ IInv
      BY StackBelow DEF MachineOK
    <2>2. /\ SavedRegisters \in Nat /\ 184 <= SavedRegisters
          /\ SavedRegisters <= stack_size /\ stack_size \in Nat
      BY <2>1, LaidOut
    <2>. QED BY <2>2
  <1>3. Depth \in DOMAIN frames /\ Depth > 0
    BY FramesTyped
  <1>4. s0 = Top.fp /\ Top = frames[Depth]
    BY <1>3 DEF Chain, Top
  <1>5. frames[Depth].sp \in Int /\ frames[Depth].fp = frames[Depth].sp - 16
    <2>1. ActivationOK(frames[Depth], Locals)
      BY <1>3 DEF MachineOK
    <2>. QED BY <2>1 DEF ActivationOK
  <1>6. s0 - SavedRegisters <= frames[d].fp - 184
    <2>1. CASE d = Depth
      BY <1>1, <1>2, <1>4, <2>1
    <2>2. CASE d # Depth
      BY <1>1, <1>2, <1>4, <1>5, <2>2
    <2>. QED BY <2>1, <2>2
  <1>. QED BY <1>1, <1>2, <1>6

LEMMA SavedKept ==
  ASSUME NEW f, f.fp \in Int, NEW b \in Int, b <= f.fp - 184, NEW mm, NEW mm2,
         \A c : Intact(mm, c) /\ b <= c.at => Intact(mm2, c), SavedIntact(mm, f)
  PROVE  SavedIntact(mm2, f)
  <1>1. \A a \in Int : \A v : b <= a /\ Intact(mm, Cell(a, 8, v)) => Intact(mm2, Cell(a, 8, v))
    BY DEF Cell
  <1>2. \A r \in Saved : f.fp - 8 * r \in Int /\ b <= f.fp - 8 * r
    BY DEF Saved
  <1>3. f.fp + 8 \in Int /\ b <= f.fp + 8 /\ b <= f.fp
    OBVIOUS
  <1>. QED BY <1>1, <1>2, <1>3 DEF SavedIntact

LEMMA EnterKeeps ==
  ASSUME MachineOK, Chain, stage = "run", NEW args, EnterFunction(args)
  PROVE  MachineOK' /\ Chain'
  <1> DEFINE f == Activation(args)
  <1>1. /\ frames' = Append(frames, f) /\ sp' = sp - 16 - stack_size /\ s0' = sp - 16
        /\ ra' = Of("back", Depth, 0) /\ sregs' = sregs
        /\ UNCHANGED frameVars
    BY DEF EnterFunction
  <1>2. /\ DOMAIN f = Fields
        /\ f.fp = sp - 16 /\ f.sp = sp /\ f.s0 = s0 /\ f.ra = ra /\ f.sregs = sregs
        /\ f.back = Of("back", Depth, 0)
        /\ f.env = [k \in Locals |-> f.env[k]]
    BY DEF Activation, Fields
  <1>3. /\ sp \in Int /\ s0 \in Int /\ (sp - 8) % 16 = 0 /\ IInv
        /\ sregs = [r \in Saved |-> sregs[r]] /\ \E S : frames \in Seq(S)
    BY DEF MachineOK
  <1>4. stack_size \in Nat /\ stack_size % 16 = 0
    BY <1>3, LaidOut
  <1>5. /\ \E S : frames' \in Seq(S)
        /\ Depth \in Nat /\ Depth' = Depth + 1
        /\ DOMAIN frames = 1 .. Depth /\ DOMAIN frames' = 1 .. Depth + 1
        /\ \A d \in 1 .. Depth : frames'[d] = frames[d]
        /\ frames'[Depth + 1] = f
    <2>1. /\ \E S : Append(frames, f) \in Seq(S)
          /\ Len(frames) \in Nat /\ Len(Append(frames, f)) = Len(frames) + 1
          /\ DOMAIN Append(frames, f) = 1 .. Len(frames) + 1
          /\ \A i \in 1 .. Len(frames) : Append(frames, f)[i] = frames[i]
          /\ Append(frames, f)[Len(frames) + 1] = f
      <3>. HIDE DEF f
      <3>. QED BY <1>3, Appended
    <2>. HIDE DEF f
    <2>. QED BY <1>1, <2>1, FramesTyped DEF Depth
  <1>6. IInv' /\ Locals' = Locals /\ stack_size' = stack_size /\ stage' = stage
    BY <1>1, <1>3, NextIInv DEF frameVars, Locals
  <1>7. /\ MemoryOK(memory') /\ SavedIntact(memory', f)
        /\ \A d \in 1 .. Depth : SavedIntact(memory', frames[d])
    <2>1. SavedIntact(memory', f)
      <3>1. /\ Intact(memory', Cell(sp - 8, 8, ra))
            /\ Intact(memory', Cell(sp - 16, 8, Address(s0)))
            /\ \A r \in Saved : Intact(memory', Cell(sp - 16 - 8 * r, 8, sregs[r]))
        BY Entered
      <3>2. sp - 16 + 8 = sp - 8
        BY <1>3
      <3>. HIDE DEF f
      <3>. QED BY <1>2, <3>1, <3>2 DEF SavedIntact
    <2>2. MemoryOK(memory') /\ \A c : Intact(memory, c) /\ sp <= c.at => Intact(memory', c)
      BY Entered
    <2>3. ASSUME NEW d \in 1 .. Depth PROVE SavedIntact(memory', frames[d])
      <3>1. frames[d].fp \in Int /\ sp <= frames[d].fp - 184 /\ SavedIntact(memory, frames[d])
        BY <1>5, SavedAbove DEF MachineOK
      <3>. QED BY <1>3, <2>2, <3>1, SavedKept
    <2>. QED BY <2>1, <2>2, <2>3
  <1>8. /\ ActivationOK(f, Locals')
        /\ \A d \in 1 .. Depth : ActivationOK(frames[d], Locals')
    <2>1. ActivationOK(f, Locals)
      <3>. HIDE DEF f
      <3>. QED BY <1>2, <1>3 DEF ActivationOK
    <2>2. \A d \in 1 .. Depth : ActivationOK(frames[d], Locals)
      BY <1>5 DEF MachineOK
    <2>. QED BY <1>6, <2>1, <2>2
  <1>. HIDE DEF f
  <1>9. \A d \in DOMAIN frames' :
          ActivationOK(frames'[d], Locals') /\ SavedIntact(memory', frames'[d])
    <2>. SUFFICES ASSUME NEW d \in DOMAIN frames'
                  PROVE  ActivationOK(frames'[d], Locals') /\ SavedIntact(memory', frames'[d])
      OBVIOUS
    <2>1. CASE d = Depth + 1
      BY <1>5, <1>7, <1>8, <2>1
    <2>2. CASE d # Depth + 1
      <3>1. d \in 1 .. Depth
        BY <1>5, <2>2
      <3>. QED BY <1>5, <1>7, <1>8, <3>1
    <2>. QED BY <2>1, <2>2
  <1>10. MachineOK'
    <2>1. sp' \in Int /\ s0' \in Int /\ (sp' - 8) % 16 = 0
      <3>1. (sp - 16 - stack_size - 8) % 16 = 0
        BY <1>3, <1>4, Aligned16
      <3>. QED BY <1>1, <1>3, <1>4, <3>1
    <2>. QED BY <1>1, <1>3, <1>5, <1>6, <1>7, <1>9, <2>1 DEF MachineOK
  <1>11. Chain'
    <2>1. Top' = f
      BY <1>5 DEF Top
    <2>2. sp' = Top'.fp - stack_size' /\ s0' = Top'.fp /\ ra' = Top'.back
      BY <1>1, <1>2, <1>6, <2>1
    <2>3. ASSUME NEW d \in DOMAIN frames', d + 1 \in DOMAIN frames'
          PROVE  /\ frames'[d + 1].sp = frames'[d].fp - stack_size'
                 /\ frames'[d + 1].s0 = frames'[d].fp
                 /\ frames'[d + 1].ra = frames'[d].back
      <3>1. d \in 1 .. Depth /\ d \in DOMAIN frames /\ frames'[d] = frames[d] /\ Depth > 0
        BY <1>5, <2>3
      <3>2. CASE d = Depth
        <4>1. frames'[d] = Top /\ frames'[d + 1] = f
          BY <1>5, <3>1, <3>2 DEF Top
        <4>2. sp = Top.fp - stack_size /\ s0 = Top.fp /\ ra = Top.back
          BY <3>1 DEF Chain
        <4>. QED BY <1>2, <1>6, <4>1, <4>2
      <3>3. CASE d # Depth
        <4>1. d + 1 \in 1 .. Depth
          BY <1>5, <3>1, <3>3
        <4>2. d + 1 \in DOMAIN frames /\ frames'[d + 1] = frames[d + 1]
          BY <1>5, <4>1
        <4>. QED BY <1>6, <3>1, <4>2 DEF Chain
      <3>. QED BY <3>2, <3>3
    <2>4. ASSUME NEW d \in DOMAIN frames', NEW e \in DOMAIN frames', d < e
          PROVE  frames'[e].sp <= frames'[d].fp - stack_size'
      <3>1. d \in DOMAIN frames /\ frames'[d] = frames[d]
        BY <1>5, <2>4
      <3>2. CASE e = Depth + 1
        BY <1>2, <1>5, <1>6, <3>1, <3>2, StackBelow
      <3>3. CASE e # Depth + 1
        <4>1. e \in DOMAIN frames /\ frames'[e] = frames[e]
          BY <1>5, <3>3
        <4>. QED BY <1>6, <2>4, <3>1, <4>1 DEF Chain
      <3>. QED BY <3>2, <3>3
    <2>. QED BY <2>2, <2>3, <2>4 DEF Chain
  <1>. QED BY <1>10, <1>11

\* The activation that runs is replaced by x.
LEMMA TopReplaced ==
  ASSUME MachineOK, Depth > 0, NEW x, frames' = [frames EXCEPT ![Depth] = x]
  PROVE  /\ \E S : frames' \in Seq(S)
         /\ Depth' = Depth /\ frames'[Depth] = x
         /\ \A d \in 1 .. Depth - 1 : frames'[d] = frames[d]
  <1>1. PICK S : frames \in Seq(S)
    BY DEF MachineOK
  <1>2. Depth \in Nat /\ Depth \in 1 .. Len(frames) /\ Depth \in DOMAIN frames
    BY FramesTyped DEF Depth
  <1>3. /\ \E R : frames' \in Seq(R)
        /\ Len(frames') = Len(frames) /\ frames'[Depth] = x
        /\ \A j \in DOMAIN frames : j # Depth => frames'[j] = frames[j]
    <2> DEFINE R == S \cup {x}
    <2>1. frames \in Seq(R) /\ x \in R
      BY <1>1
    <2>. HIDE DEF R
    <2>2. frames' \in Seq(R) /\ Len(frames') = Len(frames)
      BY <1>2, <2>1
    <2>3. frames'[Depth] = x /\ \A j \in DOMAIN frames : j # Depth => frames'[j] = frames[j]
      BY <1>2
    <2>. QED BY <2>2, <2>3
  <1>4. \A d \in 1 .. Depth - 1 : d \in DOMAIN frames /\ d # Depth
    BY <1>2, FramesTyped
  <1>. QED BY <1>3, <1>4 DEF Depth

LEMMA TopOK ==
  ASSUME MachineOK, Chain, Depth > 0
  PROVE  /\ Depth \in DOMAIN frames /\ Top = frames[Depth] /\ ActivationOK(Top, Locals)
         /\ SavedIntact(memory, Top) /\ stage = "run" /\ IInv /\ s0 \in Int /\ s0 = Top.fp
  <1>1. Depth \in DOMAIN frames
    BY FramesTyped
  <1>. QED BY <1>1 DEF MachineOK, Top, Chain

\* What an assignment may change of an activation
SameCall(f, g) ==
  /\ DOMAIN f = DOMAIN g /\ f.fp = g.fp /\ f.sp = g.sp /\ f.s0 = g.s0 /\ f.ra = g.ra
  /\ f.sregs = g.sregs /\ f.back = g.back /\ f.extra = g.extra

\* A store below the saved registers of the activation that runs
LEMMA WriteKeeps ==
  ASSUME MachineOK, Chain, Depth > 0,
         NEW a \in Int, NEW n \in Nat \ {0}, NEW v, a + n <= s0 - SavedRegisters,
         memory' = store(memory, a, n, v),
         UNCHANGED <<frameVars, sp, s0, ra, sregs>>,
         NEW x, frames' = [frames EXCEPT ![Depth] = x],
         SameCall(x, Top), x.env = [k \in Locals |-> x.env[k]]
  PROVE  MachineOK' /\ Chain'
  <1>0. /\ \E S : frames' \in Seq(S)
        /\ Depth' = Depth /\ frames'[Depth] = x /\ Top = frames[Depth]
        /\ \A d \in 1 .. Depth - 1 : frames'[d] = frames[d]
    BY TopReplaced DEF Top
  <1>1. /\ MemoryOK(memory) /\ sp \in Int /\ s0 \in Int /\ (sp - 8) % 16 = 0 /\ IInv
        /\ sregs = [r \in Saved |-> sregs[r]] /\ stage = "run"
    BY DEF MachineOK
  <1>2. /\ DOMAIN frames = 1 .. Depth /\ DOMAIN frames' = 1 .. Depth /\ Depth \in Nat
        /\ \A d \in 1 .. Depth : SameCall(frames'[d], frames[d])
    <2>1. Depth \in Nat /\ DOMAIN frames = 1 .. Depth
      BY FramesTyped
    <2>2. DOMAIN frames' = 1 .. Depth
      <3>1. PICK S : frames' \in Seq(S)
        BY <1>0
      <3>2. Len(frames') = Depth
        BY <1>0 DEF Depth
      <3>. QED BY <3>1, <3>2
    <2>3. \A d \in 1 .. Depth : d = Depth \/ d \in 1 .. Depth - 1
      BY <2>1
    <2>. QED BY <1>0, <2>1, <2>2, <2>3 DEF SameCall
  <1>3. IInv' /\ Locals' = Locals /\ stack_size' = stack_size /\ stage' = stage
    BY <1>1, NextIInv DEF frameVars, Locals
  <1>4. SavedRegisters \in Nat
    BY <1>1, LaidOut
  <1>5. /\ MemoryOK(memory')
        /\ \A c : Intact(memory, c) /\ s0 - SavedRegisters <= c.at => Intact(memory', c)
    <2>1. ASSUME NEW c, Intact(memory, c), s0 - SavedRegisters <= c.at
          PROVE  Intact(memory', c)
      <3>1. c.at \in Int
        BY <1>1, <2>1 DEF Intact, MemoryOK
      <3>2. a + n <= c.at
        BY <1>1, <1>4, <2>1, <3>1
      <3>. QED BY <1>1, <2>1, <3>2, StoreKeeps
    <2>. QED BY <1>1, <2>1, StoreIntact
  <1>6. ASSUME NEW d \in 1 .. Depth
        PROVE  ActivationOK(frames'[d], Locals) /\ SavedIntact(memory', frames'[d])
    <2>1. ActivationOK(frames[d], Locals) /\ SavedIntact(memory, frames[d])
      BY <1>2 DEF MachineOK
    <2>2. frames[d].fp \in Int /\ s0 - SavedRegisters \in Int /\ s0 - SavedRegisters <= frames[d].fp - 184
      BY <1>1, <1>2, <1>4, SavedAbove
    <2>3. SavedIntact(memory', frames[d])
      BY <1>5, <2>1, <2>2, SavedKept
    <2>4. SavedIntact(memory', frames'[d])
      BY <1>2, <2>3 DEF SavedIntact, SameCall
    <2>5. frames'[d].env = [k \in Locals |-> frames'[d].env[k]]
      <3>1. CASE d = Depth
        BY <1>0, <3>1
      <3>2. CASE d # Depth
        <4>1. frames'[d] = frames[d]
          BY <1>0, <1>2, <3>2
        <4>. QED BY <2>1, <4>1 DEF ActivationOK
      <3>. QED BY <3>1, <3>2
    <2>6. SameCall(frames'[d], frames[d])
      BY <1>2
    <2>7. ActivationOK(frames'[d], Locals)
      BY <2>1, <2>5, <2>6 DEF ActivationOK, SameCall
    <2>. QED BY <2>4, <2>7
  <1>7. MachineOK'
    BY <1>0, <1>1, <1>2, <1>3, <1>5, <1>6 DEF MachineOK
  <1>8. \A d \in 1 .. Depth : /\ frames'[d].sp = frames[d].sp /\ frames'[d].fp = frames[d].fp
                              /\ frames'[d].s0 = frames[d].s0 /\ frames'[d].ra = frames[d].ra
                              /\ frames'[d].back = frames[d].back
    BY <1>2 DEF SameCall
  <1>9. Chain'
    <2>1. Top' = frames'[Depth] /\ Top = frames[Depth] /\ Depth \in 1 .. Depth
      BY <1>0, <1>2 DEF Top
    <2>2. sp = Top.fp - stack_size /\ s0 = Top.fp /\ ra = Top.back
      BY DEF Chain
    <2>3. sp' = Top'.fp - stack_size' /\ s0' = Top'.fp /\ ra' = Top'.back
      BY <1>3, <1>8, <2>1, <2>2
    <2>4. \A d \in DOMAIN frames' : d + 1 \in DOMAIN frames' =>
            /\ frames'[d + 1].sp = frames'[d].fp - stack_size'
            /\ frames'[d + 1].s0 = frames'[d].fp
            /\ frames'[d + 1].ra = frames'[d].back
      BY <1>2, <1>3, <1>8 DEF Chain
    <2>5. \A d, e \in DOMAIN frames' : d < e => frames'[e].sp <= frames'[d].fp - stack_size'
      BY <1>2, <1>3, <1>8 DEF Chain
    <2>. QED BY <2>3, <2>4, <2>5 DEF Chain
  <1>. QED BY <1>7, <1>9

\* The state behind an assignment to variable k
AssignedFrame(k, v) == [Top EXCEPT !.env = [Top.env EXCEPT ![k] = v],
                                   !.writes = Top.writes \cup {k}]

LEMMA Assigned ==
  ASSUME MachineOK, Chain, Assign
  PROVE  /\ Depth > 0 /\ UNCHANGED <<frameVars, sp, s0, ra, sregs>>
         /\ \E k \in Locals \ Top.writes :
              /\ memory' = store(memory, s0 - locals[k].offset, locals[k].size, Of("variable", Depth, k))
              /\ frames' = [frames EXCEPT ![Depth] = AssignedFrame(k, Of("variable", Depth, k))]
  <1>1. /\ Depth > 0 /\ UNCHANGED <<frameVars, sp, s0, ra, sregs>>
    BY DEF Assign
  <1>2. PICK k \in Locals \ Top.writes :
          /\ memory' = store(memory, s0 - locals[k].offset, locals[k].size, Of("variable", Depth, k))
          /\ frames' = [frames EXCEPT ![Depth].env[k] = Of("variable", Depth, k),
                                      ![Depth].writes = @ \cup {k}]
    BY DEF Assign
  <1>3. /\ Depth \in DOMAIN frames /\ Top = frames[Depth] /\ ActivationOK(Top, Locals)
    BY <1>1, TopOK
  <1>4. frames' = [frames EXCEPT ![Depth] = AssignedFrame(k, Of("variable", Depth, k))]
    BY <1>2, <1>3 DEF AssignedFrame, ActivationOK, Fields
  <1>. QED BY <1>1, <1>2, <1>4

LEMMA AssignKeeps ==
  ASSUME MachineOK, Chain, Assign
  PROVE  MachineOK' /\ Chain'
  <1>1. Depth > 0 /\ UNCHANGED <<frameVars, sp, s0, ra, sregs>>
    BY Assigned
  <1>2. PICK k \in Locals \ Top.writes :
          /\ memory' = store(memory, s0 - locals[k].offset, locals[k].size, Of("variable", Depth, k))
          /\ frames' = [frames EXCEPT ![Depth] = AssignedFrame(k, Of("variable", Depth, k))]
    BY Assigned
  <1>3. /\ Depth \in DOMAIN frames /\ Top = frames[Depth] /\ ActivationOK(Top, Locals)
        /\ stage = "run" /\ IInv /\ s0 \in Int
    BY <1>1, TopOK
  <1> DEFINE x == AssignedFrame(k, Of("variable", Depth, k))
  <1>4. /\ SameCall(x, Top) /\ x.env = [j \in Locals |-> x.env[j]]
    BY <1>3 DEF AssignedFrame, ActivationOK, Fields, SameCall
  <1>5. /\ locals[k].size \in Nat \ {0} /\ locals[k].offset \in Nat /\ SavedRegisters \in Nat
        /\ SavedRegisters <= locals[k].offset - locals[k].size
    BY <1>3, LaidOut
  <1>6. /\ s0 - locals[k].offset \in Int
        /\ s0 - locals[k].offset + locals[k].size <= s0 - SavedRegisters
    BY <1>3, <1>5
  <1>. HIDE DEF x
  <1>. QED BY <1>1, <1>2, <1>4, <1>5, <1>6, WriteKeeps DEF x

\* The state behind va_start of ap, through temp
StartedFrame(temp, ap) ==
  [Top EXCEPT !.env = [[Top.env EXCEPT ![ap] = Address(VaList(s0))] EXCEPT ![temp] = Unknown],
              !.writes = Top.writes \cup {ap, temp}, !.va = ap]

LEMMA VaStarted ==
  ASSUME MachineOK, Chain, builtin_va_start
  PROVE  /\ Depth > 0 /\ is_variadic /\ UNCHANGED <<frameVars, sp, s0, ra, sregs>>
         /\ \E temp, ap \in Locals \ Params :
              /\ 1 < temp /\ temp < ap /\ Pointer(temp) /\ Pointer(ap)
              /\ ap # temp + 1 => "late_va_start" \in Programs
              /\ memory' = store(memory, s0 - (locals[temp].offset + 8), 8, Address(VaList(s0)))
              /\ frames' = [frames EXCEPT ![Depth] = StartedFrame(temp, ap)]
  <1>1. Depth > 0 /\ is_variadic /\ UNCHANGED <<frameVars, sp, s0, ra, sregs>>
    BY DEF builtin_va_start
  <1>2. PICK temp \in Locals \ Params, ap \in Locals \ Params :
          /\ 1 < temp /\ temp < ap /\ Pointer(temp) /\ Pointer(ap)
          /\ ap # temp + 1 => "late_va_start" \in Programs
          /\ memory' = store(memory, s0 - (locals[temp].offset + 8), 8, Address(VaList(s0)))
          /\ frames' = [frames EXCEPT ![Depth].env[ap] = Address(VaList(s0)),
                                      ![Depth].env[temp] = Unknown,
                                      ![Depth].writes = @ \cup {ap, temp},
                                      ![Depth].va = ap]
    BY DEF builtin_va_start
  <1>3. /\ Depth \in DOMAIN frames /\ Top = frames[Depth] /\ ActivationOK(Top, Locals)
    BY <1>1, TopOK
  <1>4. frames' = [frames EXCEPT ![Depth] = StartedFrame(temp, ap)]
    <2> DEFINE v == Address(VaList(s0))
               x == StartedFrame(temp, ap)
    <2>1. frames' = [frames EXCEPT ![Depth].env[ap] = v,
                                   ![Depth].env[temp] = Unknown,
                                   ![Depth].writes = @ \cup {ap, temp},
                                   ![Depth].va = ap]
      BY <1>2
    <2>2. x = [Top EXCEPT !.env = [[Top.env EXCEPT ![ap] = v] EXCEPT ![temp] = Unknown],
                          !.writes = Top.writes \cup {ap, temp}, !.va = ap]
      BY DEF StartedFrame
    <2>. HIDE DEF v, x
    <2>3. frames' = [frames EXCEPT ![Depth] = x]
      BY <1>3, <2>1, <2>2 DEF ActivationOK, Fields
    <2>. QED BY <2>3 DEF x
  <1>. QED BY <1>1, <1>2, <1>4

LEMMA VaStartKeeps ==
  ASSUME MachineOK, Chain, builtin_va_start
  PROVE  MachineOK' /\ Chain'
  <1>1. Depth > 0 /\ UNCHANGED <<frameVars, sp, s0, ra, sregs>>
    BY VaStarted
  <1>2. PICK temp \in Locals \ Params, ap \in Locals \ Params :
          /\ memory' = store(memory, s0 - (locals[temp].offset + 8), 8, Address(VaList(s0)))
          /\ frames' = [frames EXCEPT ![Depth] = StartedFrame(temp, ap)]
    BY VaStarted
  <1>3. /\ Depth \in DOMAIN frames /\ Top = frames[Depth] /\ ActivationOK(Top, Locals)
        /\ stage = "run" /\ IInv /\ s0 \in Int
    BY <1>1, TopOK
  <1> DEFINE x == StartedFrame(temp, ap)
  <1>4. /\ SameCall(x, Top) /\ x.env = [j \in Locals |-> x.env[j]]
    BY <1>3 DEF StartedFrame, ActivationOK, Fields, SameCall
  <1>5. /\ locals[temp].size \in Nat \ {0} /\ locals[temp].offset \in Nat /\ SavedRegisters \in Nat
        /\ SavedRegisters <= locals[temp].offset - locals[temp].size
    BY <1>3, LaidOut
  <1>6. /\ s0 - (locals[temp].offset + 8) \in Int /\ 8 \in Nat \ {0}
        /\ s0 - (locals[temp].offset + 8) + 8 <= s0 - SavedRegisters
    BY <1>3, <1>5
  <1>. HIDE DEF x
  <1>. QED BY <1>1, <1>2, <1>4, <1>6, WriteKeeps DEF x

LEMMA ComputeKeeps ==
  ASSUME MachineOK, Chain, Compute
  PROVE  MachineOK' /\ Chain'
  <1>1. /\ UNCHANGED <<frameVars, memory, sp, s0, ra, aregs, frames>>
        /\ sregs' = [r \in Saved |-> sregs'[r]]
    BY DEF Compute
  <1>2. IInv' /\ Locals' = Locals /\ stack_size' = stack_size /\ stage' = stage
    BY <1>1, NextIInv DEF MachineOK, frameVars, Locals
  <1>3. Depth' = Depth /\ Top' = Top
    BY <1>1 DEF Depth, Top
  <1>4. MachineOK'
    BY <1>1, <1>2, <1>3 DEF MachineOK
  <1>5. Chain'
    BY <1>1, <1>2, <1>3 DEF Chain
  <1>. QED BY <1>4, <1>5

\* What the epilogue loads is what the prologue saved.
LEMMA Restored ==
  ASSUME MachineOK, Chain, Depth > 0
  PROVE  /\ \A r \in Saved : load(memory, s0 - 8 * r, 8) = Top.sregs[r]
         /\ RestoreFramePointer = Top.s0
         /\ s0 + 16 = Top.sp /\ load(memory, s0 + 8, 8) = Top.ra
  <1>1. /\ ActivationOK(Top, Locals) /\ SavedIntact(memory, Top) /\ s0 = Top.fp /\ s0 \in Int
        /\ MemoryOK(memory) /\ 8 \in Nat \ {0}
    BY TopOK DEF MachineOK
  <1>2. s0 + 16 = Top.sp
    BY <1>1 DEF ActivationOK
  <1>3. \A r \in Saved : s0 - 8 * r \in Int
    BY <1>1 DEF Saved
  <1>4. \A r \in Saved : load(memory, s0 - 8 * r, 8) = Top.sregs[r]
    BY <1>1, <1>3, LoadIntact DEF SavedIntact
  <1>5. load(memory, s0, 8) = Address(Top.s0)
    BY <1>1, LoadIntact DEF SavedIntact
  <1>6. load(memory, s0 + 8, 8) = Top.ra
    BY <1>1, LoadIntact DEF SavedIntact
  <1>7. RestoreFramePointer = Top.s0
    BY <1>5 DEF RestoreFramePointer, Address, Of
  <1>. QED BY <1>2, <1>4, <1>6, <1>7

\* An activation that ends leaves those above it as they are.
LEMMA ReturnKeeps ==
  ASSUME MachineOK, Chain, Return
  PROVE  MachineOK' /\ Chain'
  <1>1. /\ Depth > 0 /\ UNCHANGED frameVars
        /\ sregs' = [r \in Saved |-> load(memory, s0 - 8 * r, 8)]
        /\ s0' = RestoreFramePointer /\ sp' = s0 + 16 /\ ra' = load(memory, s0 + 8, 8)
        /\ memory' = {c \in memory : c.at >= s0 + 16}
        /\ frames' = SubSeq(frames, 1, Depth - 1)
    BY DEF Return
  <1>2. /\ s0' = Top.s0 /\ sp' = Top.sp /\ ra' = Top.ra
    BY <1>1, Restored
  <1>3. /\ Depth \in DOMAIN frames /\ Top = frames[Depth] /\ ActivationOK(Top, Locals)
        /\ stage = "run" /\ IInv
    BY <1>1, TopOK
  <1>4. IInv' /\ Locals' = Locals /\ stack_size' = stack_size /\ stage' = stage
    BY <1>1, <1>3, NextIInv DEF frameVars, Locals
  <1>5. Depth \in Nat /\ DOMAIN frames = 1 .. Depth
    BY FramesTyped
  <1>6. /\ \E S : frames' \in Seq(S)
        /\ Depth' = Depth - 1
        /\ \A i \in 1 .. Depth - 1 : frames'[i] = frames[i]
    BY <1>1, Cut DEF MachineOK, Depth
  <1>7. DOMAIN frames' = 1 .. Depth - 1
    <2>1. PICK S : frames' \in Seq(S)
      BY <1>6
    <2>2. Len(frames') = Depth - 1
      BY <1>6 DEF Depth
    <2>. QED BY <2>1, <2>2
  <1>8. Top.sp \in Int /\ (Top.sp - 8) % 16 = 0 /\ Top.s0 \in Int
    BY <1>3 DEF ActivationOK
  <1>9. /\ MemoryOK(memory) /\ MemoryOK(memory')
        /\ \A c : Intact(memory, c) /\ Top.sp <= c.at => Intact(memory', c)
    <2>1. MemoryOK(memory)
      BY DEF MachineOK
    <2>2. memory' = {c \in memory : c.at >= Top.sp}
      BY <1>1, Restored
    <2>. QED BY <1>8, <2>1, <2>2 DEF Intact, MemoryOK
  <1>10. \A d \in DOMAIN frames' : /\ d \in DOMAIN frames /\ d # Depth /\ frames'[d] = frames[d]
    BY <1>5, <1>6, <1>7
  <1>11. ASSUME NEW d \in DOMAIN frames'
         PROVE  ActivationOK(frames'[d], Locals) /\ SavedIntact(memory', frames'[d])
    <2>1. ActivationOK(frames[d], Locals) /\ SavedIntact(memory, frames[d])
      BY <1>10 DEF MachineOK
    <2>2. /\ frames[d].fp \in Int /\ stack_size \in Nat /\ 184 <= stack_size
          /\ Top.sp <= frames[d].fp - stack_size
      <3>1. /\ SavedRegisters \in Nat /\ 184 <= SavedRegisters
            /\ SavedRegisters <= stack_size /\ stack_size \in Nat
        BY <1>3, LaidOut
      <3>2. frames[d].fp \in Int /\ Top.sp <= frames[d].fp - stack_size
        BY <1>10, StackBelow
      <3>. QED BY <3>1, <3>2
    <2>3. Top.sp <= frames[d].fp - 184
      BY <1>8, <2>2
    <2>4. SavedIntact(memory', frames[d])
      BY <1>8, <1>9, <2>1, <2>2, <2>3, SavedKept
    <2>. QED BY <1>10, <2>1, <2>4
  <1>12. MachineOK'
    BY <1>1, <1>2, <1>3, <1>4, <1>6, <1>8, <1>9, <1>11 DEF MachineOK
  <1>13. Chain'
    <2>1. ASSUME Depth' > 0
          PROVE  sp' = Top'.fp - stack_size' /\ s0' = Top'.fp /\ ra' = Top'.back
      <3>1. /\ Depth - 1 \in DOMAIN frames /\ (Depth - 1) + 1 \in DOMAIN frames
            /\ (Depth - 1) + 1 = Depth
        BY <1>5, <1>6, <2>1
      <3>2. Top' = frames[Depth - 1]
        BY <1>5, <1>6, <2>1 DEF Top
      <3>3. /\ frames[(Depth - 1) + 1].sp = frames[Depth - 1].fp - stack_size
            /\ frames[(Depth - 1) + 1].s0 = frames[Depth - 1].fp
            /\ frames[(Depth - 1) + 1].ra = frames[Depth - 1].back
        BY <3>1 DEF Chain
      <3>. QED BY <1>2, <1>3, <1>4, <3>1, <3>2, <3>3
    <2>2. ASSUME NEW d \in DOMAIN frames', d + 1 \in DOMAIN frames'
          PROVE  /\ frames'[d + 1].sp = frames'[d].fp - stack_size'
                 /\ frames'[d + 1].s0 = frames'[d].fp
                 /\ frames'[d + 1].ra = frames'[d].back
      BY <1>4, <1>10, <2>2 DEF Chain
    <2>3. \A d, e \in DOMAIN frames' : d < e => frames'[e].sp <= frames'[d].fp - stack_size'
      BY <1>4, <1>10 DEF Chain
    <2>. QED BY <2>1, <2>2, <2>3 DEF Chain
  <1>. QED BY <1>12, <1>13

\* Frames are laid out before the program runs.
LEMMA LayoutKeeps ==
  ASSUME MachineOK, Chain, Layout
  PROVE  MachineOK' /\ Chain'
  <1>1. stage # "run"
    BY DEF Layout, FrameNext, Param, EndParams, Local, BeginLayout, LayoutLocal, EndLayout
  <1>2. Depth \in Nat /\ ~ (Depth > 0) /\ DOMAIN frames = 1 .. Depth
    BY <1>1, FramesTyped DEF MachineOK
  <1>3. DOMAIN frames = {} /\ UNCHANGED machineVars /\ FrameNext
    BY <1>2 DEF Layout
  <1>4. frames' = frames /\ memory' = memory /\ sregs' = sregs /\ sp' = sp /\ s0' = s0 /\ Depth' = Depth
    BY <1>3 DEF machineVars, Depth
  <1>5. IInv'
    BY <1>3, NextIInv DEF MachineOK
  <1>6. MachineOK'
    BY <1>2, <1>3, <1>4, <1>5 DEF MachineOK
  <1>7. Chain'
    BY <1>2, <1>3, <1>4 DEF Chain
  <1>. QED BY <1>6, <1>7

LEMMA MachineInit == Init => MachineOK /\ Chain
  <1>. SUFFICES ASSUME Init PROVE MachineOK /\ Chain
    OBVIOUS
  <1>1. /\ IInv /\ memory = {} /\ frames = <<>> /\ sp = 8 /\ s0 = 0
        /\ sregs = [r \in Saved |-> Of("register", 0, r)]
    BY InitIInv DEF Init
  <1>2. Depth = 0 /\ DOMAIN frames = {} /\ \E S : frames \in Seq(S)
    BY <1>1 DEF Depth
  <1>. QED BY <1>1, <1>2 DEF MachineOK, Chain, MemoryOK

LEMMA MachineNext == MachineOK /\ Chain /\ [Next]_vars => MachineOK' /\ Chain'
  <1>. SUFFICES ASSUME MachineOK, Chain, [Next]_vars PROVE MachineOK' /\ Chain'
    OBVIOUS
  <1>1. ASSUME Start \/ Call PROVE MachineOK' /\ Chain'
    <2>1. stage = "run" /\ \E args : EnterFunction(args)
      BY <1>1 DEF Start, Call, MayCall
    <2>. QED BY <2>1, EnterKeeps
  <1>2. CASE UNCHANGED vars
    <2>1. UNCHANGED <<frameVars, memory, sp, s0, ra, sregs, frames>>
      BY <1>2 DEF vars, machineVars
    <2>2. /\ IInv' /\ Locals' = Locals /\ stack_size' = stack_size /\ stage' = stage
          /\ Depth' = Depth /\ Top' = Top
      BY <2>1, NextIInv DEF MachineOK, frameVars, Locals, Depth, Top
    <2>3. MachineOK'
      BY <2>1, <2>2 DEF MachineOK
    <2>4. Chain'
      BY <2>1, <2>2 DEF Chain
    <2>. QED BY <2>3, <2>4
  <1>. QED BY <1>1, <1>2, LayoutKeeps, AssignKeeps, ComputeKeeps, VaStartKeeps, ReturnKeeps DEF Next

LEMMA MachineHolds == Spec => [](MachineOK /\ Chain)
  BY MachineInit, MachineNext, PTL DEF Spec

\* Whatever a function keeps in its frame and however often it calls itself,
\* the stack pointer is aligned when it is entered and the frame lies between
\* it and the frame pointer (emit_text, codegen.c:967).
THEOREM StackStaysAligned == Spec => []StackAligned
  <1>1. MachineOK /\ Chain => StackAligned
    <2>. SUFFICES ASSUME MachineOK, Chain, Depth > 0
                  PROVE  (sp - 8) % 16 = 0 /\ sp = s0 - stack_size /\ s0 = Top.fp
      BY DEF StackAligned
    <2>1. (sp - 8) % 16 = 0
      BY DEF MachineOK
    <2>2. sp = Top.fp - stack_size /\ s0 = Top.fp
      BY DEF Chain
    <2>. QED BY <2>1, <2>2
  <1>. QED BY MachineHolds, <1>1, PTL

\* A function returns to its caller, with the stack, the frame pointer and the
\* callee-saved registers as they were, at any depth and for any frame
\* (emit_text, codegen.c:1050; gen_expr, codegen.c:545).
THEOREM CallersRestored == Spec => ReturnsProperly
  <1> DEFINE Back == Len(frames') < Depth =>
                       /\ ra = Top.back /\ ra' = Top.ra
                       /\ sp' = Top.sp /\ s0' = Top.s0 /\ sregs' = Top.sregs
  <1>1. MachineOK /\ Chain /\ [Next]_vars => [Back]_vars
    <2>. SUFFICES ASSUME MachineOK, Chain, Next, Len(frames') < Depth
                  PROVE  /\ ra = Top.back /\ ra' = Top.ra
                         /\ sp' = Top.sp /\ s0' = Top.s0 /\ sregs' = Top.sregs
      OBVIOUS
    <2>1. Return
      <3>1. Depth \in Nat /\ Depth = Len(frames)
        BY FramesTyped DEF Depth
      <3>2. \E S : frames \in Seq(S)
        BY DEF MachineOK
      <3>3. ASSUME NEW x, frames' = Append(frames, x) PROVE FALSE
        BY <3>1, <3>2, <3>3, Appended
      <3>4. ~ Start /\ ~ Call
        BY <3>3 DEF Start, Call, EnterFunction
      <3>5. ASSUME Assign \/ builtin_va_start PROVE FALSE
        <4>1. Depth > 0 /\ \E x : frames' = [frames EXCEPT ![Depth] = x]
          BY <3>5, Assigned, VaStarted
        <4>2. Depth' = Depth
          BY <4>1, TopReplaced
        <4>. QED BY <3>1, <4>2 DEF Depth
      <3>6. ASSUME Compute \/ Layout PROVE FALSE
        <4>1. frames' = frames
          BY <3>6 DEF Compute, Layout, machineVars
        <4>. QED BY <3>1, <4>1
      <3>. QED BY <3>4, <3>5, <3>6 DEF Next
    <2>2. /\ Depth > 0 /\ sregs' = [r \in Saved |-> load(memory, s0 - 8 * r, 8)]
          /\ s0' = RestoreFramePointer /\ sp' = s0 + 16 /\ ra' = load(memory, s0 + 8, 8)
      BY <2>1 DEF Return
    <2>3. ra = Top.back /\ Top.sregs = [r \in Saved |-> Top.sregs[r]]
      BY <2>2, TopOK DEF Chain, ActivationOK
    <2>4. sregs' = Top.sregs
      BY <2>2, <2>3, Restored
    <2>. QED BY <2>2, <2>3, <2>4, Restored
  <1>. QED BY MachineHolds, <1>1, PTL DEF Spec, ReturnsProperly
-----------------------------------------------------------------------------
(* Pointers that are made one after the other stand side by side.          *)

PointersPlaced ==
  /\ \A k \in Locals : Pointer(k) => locals[k].align = 8
  /\ stage \in {"layout", "run"} =>
       /\ place > 1 => offset = locals[place - 1].offset
       /\ \A k \in Locals : Pointer(k) /\ k < place => locals[k].offset % 8 = 0
       /\ \A k \in Locals : k + 1 < place /\ Pointer(k) /\ Pointer(k + 1) =>
            locals[k + 1].offset = locals[k].offset + 8

LEMMA AlignTo8 ==
  ASSUME NEW n \in Nat
  PROVE  (align_to(n, 8) + 8) % 8 = 0 /\ (n % 8 = 0 => align_to(n, 8) = n)
  BY DEF align_to

\* A new variable goes in front; the others keep their order.
LEMMA NewPointer ==
  ASSUME IInv, PointersPlaced, new_lvar
  PROVE  \A k \in Locals' : Pointer(k)' => locals'[k].align = 8
  <1>1. PICK t \in Types : locals' = <<NewVar(t)>> \o locals
    BY DEF new_lvar
  <1>2. /\ locals \in Seq(Var) /\ Locals = 1 .. Len(locals) /\ Len(locals) \in Nat
    BY DEF IInv, FrameTypeOK, Locals
  <1>3. NewVar(t) \in Var
    BY FrameAssumption DEF NewVar, Var
  <1>4. <<NewVar(t)>> \in Seq(Var) /\ Len(<<NewVar(t)>>) = 1 /\ <<NewVar(t)>>[1] = NewVar(t)
    BY <1>3
  <1>5. /\ Len(locals') = Len(locals) + 1 /\ DOMAIN locals' = 1 .. Len(locals) + 1
        /\ locals'[1] = NewVar(t)
        /\ \A k \in 2 .. Len(locals) + 1 : locals'[k] = locals[k - 1]
    <2> DEFINE v == NewVar(t)
    <2>. HIDE DEF v
    <2>1. v \in Var /\ locals' = <<v>> \o locals
      BY <1>1, <1>3 DEF v
    <2>2. /\ Len(locals') = Len(locals) + 1 /\ DOMAIN locals' = 1 .. Len(locals) + 1
          /\ locals'[1] = v
          /\ \A k \in 2 .. Len(locals) + 1 : locals'[k] = locals[k - 1]
      BY <1>2, <2>1
    <2>. QED BY <2>2 DEF v
  <1>. SUFFICES ASSUME NEW k \in Locals', Pointer(k)'
                PROVE  locals'[k].align = 8
    OBVIOUS
  <1>6. k \in 1 .. Len(locals) + 1 /\ locals'[k].size = 8 /\ ~ locals'[k].flonum
    BY <1>5 DEF Locals, Pointer
  <1>7. CASE k = 1
    <2>1. t.size = 8 /\ ~ t.flonum
      BY <1>5, <1>6, <1>7 DEF NewVar
    <2>2. t.align = 8
      BY <2>1, CallsAssumption
    <2>. QED BY <1>5, <1>7, <2>2 DEF NewVar
  <1>8. CASE k # 1
    <2>1. k - 1 \in Locals /\ locals'[k] = locals[k - 1]
      BY <1>2, <1>5, <1>6, <1>8
    <2>2. Pointer(k - 1)
      BY <1>6, <2>1 DEF Pointer
    <2>. QED BY <2>1, <2>2 DEF PointersPlaced
  <1>. QED BY <1>7, <1>8

LEMMA PointersInit == FrameInit => PointersPlaced
  BY DEF FrameInit, PointersPlaced, Locals

LEMMA PointersNext == IInv /\ PointersPlaced /\ [FrameNext]_frameVars => PointersPlaced'
  <1>. SUFFICES ASSUME IInv, PointersPlaced, [FrameNext]_frameVars PROVE PointersPlaced'
    OBVIOUS
  <1>1. CASE Param \/ Local
    <2>1. new_lvar /\ stage' \in {"params", "body"}
      BY <1>1 DEF Param, Local
    <2>. QED BY <2>1, NewPointer DEF PointersPlaced
  <1>2. CASE EndParams
    BY <1>2 DEF EndParams, PointersPlaced, Locals, Pointer
  <1>3. CASE BeginLayout
    <2>1. place' = 1 /\ locals' = locals
      BY <1>3 DEF BeginLayout, IInv, Unplaced
    <2>2. \A k \in Locals : k \in Nat /\ ~ (k < 1) /\ ~ (k + 1 < 1)
      BY DEF IInv, FrameTypeOK, Locals
    <2>. QED BY <2>1, <2>2 DEF PointersPlaced, Locals, Pointer
  <1>4. CASE EndLayout \/ UNCHANGED frameVars
    <2>1. /\ UNCHANGED <<locals, place, offset>>
          /\ stage' \in {"layout", "run"} => stage \in {"layout", "run"}
      BY <1>4 DEF EndLayout, frameVars
    <2>. QED BY <2>1 DEF PointersPlaced, Locals, Pointer
  <1>5. CASE LayoutLocal
    <2>1. /\ locals \in Seq(Var) /\ Len(locals) \in Nat /\ offset \in Nat
          /\ place \in 1 .. Len(locals) /\ Locals = 1 .. Len(locals)
          /\ stage = "layout" /\ stage' = stage /\ place' = place + 1
      BY <1>5 DEF IInv, FrameTypeOK, LayoutLocal, Locals
    <2>2. /\ offset' = align_to(offset, locals[place].align) + locals[place].size
          /\ locals' = [locals EXCEPT ![place].offset = offset']
      BY <1>5 DEF LayoutLocal
    <2>3. \A k \in Locals : locals[k] \in Var
      BY <2>1
    <2>4. /\ Locals' = Locals
          /\ \A k \in Locals : k # place => locals'[k] = locals[k]
          /\ \A k \in Locals : /\ locals'[k].size = locals[k].size
                               /\ locals'[k].align = locals[k].align
                               /\ locals'[k].flonum = locals[k].flonum
          /\ locals'[place].offset = offset'
      BY <2>1, <2>2, <2>3 DEF Locals, Var
    <2>5. \A k \in Locals : Pointer(k)' <=> Pointer(k)
      BY <2>4 DEF Pointer
    <2>6. Pointer(place) => offset' = align_to(offset, 8) + 8
      BY <2>1, <2>2 DEF Pointer, PointersPlaced
    <2>7. Pointer(place) => offset' % 8 = 0 /\ (offset % 8 = 0 => offset' = offset + 8)
      BY <2>1, <2>6, AlignTo8
    <2>8. ASSUME NEW k \in Locals, Pointer(k), k < place'
          PROVE  locals'[k].offset % 8 = 0
      <3>1. CASE k = place
        BY <2>4, <2>7, <2>8, <3>1
      <3>2. CASE k # place
        <4>1. k < place
          BY <2>1, <2>8, <3>2
        <4>. QED BY <2>1, <2>4, <2>8, <3>2, <4>1 DEF PointersPlaced
      <3>. QED BY <3>1, <3>2
    <2>9. ASSUME NEW k \in Locals, k + 1 < place', Pointer(k), Pointer(k + 1)
          PROVE  locals'[k + 1].offset = locals'[k].offset + 8
      <3>1. k < place /\ k + 1 \in Locals /\ k # place
        BY <2>1, <2>9
      <3>2. CASE k + 1 = place
        <4>1. offset = locals[place - 1].offset /\ k = place - 1 /\ place > 1
          BY <2>1, <3>2 DEF PointersPlaced
        <4>2. locals[k].offset % 8 = 0
          BY <2>1, <2>9, <3>1 DEF PointersPlaced
        <4>3. offset' = offset + 8
          BY <2>7, <2>9, <3>2, <4>1, <4>2
        <4>. QED BY <2>4, <3>1, <3>2, <4>1, <4>3
      <3>3. CASE k + 1 # place
        <4>1. k + 1 < place
          BY <2>1, <2>9, <3>3
        <4>2. locals[k + 1].offset = locals[k].offset + 8
          BY <2>1, <2>9, <4>1 DEF PointersPlaced
        <4>. QED BY <2>4, <3>1, <3>3, <4>2
      <3>. QED BY <3>2, <3>3
    <2>10. place' - 1 = place
      BY <2>1
    <2>11. \A k \in Locals : locals[k].size = 8 /\ ~ locals[k].flonum => locals[k].align = 8
      BY DEF PointersPlaced, Pointer
    <2>12. \A k \in Locals' : Pointer(k)' => locals'[k].align = 8
      BY <2>4, <2>5, <2>11 DEF Pointer
    <2>13. \A k \in Locals' : Pointer(k)' /\ k < place' => locals'[k].offset % 8 = 0
      BY <2>4, <2>5, <2>8
    <2>14. \A k \in Locals' : k + 1 < place' /\ Pointer(k)' /\ Pointer(k + 1)' =>
             locals'[k + 1].offset = locals'[k].offset + 8
      <3>1. \A k \in Locals : k + 1 < place' => k + 1 \in Locals
        BY <2>1
      <3>. QED BY <2>4, <2>5, <2>9, <3>1
    <2>. QED BY <2>4, <2>10, <2>12, <2>13, <2>14 DEF PointersPlaced
  <1>. QED BY <1>1, <1>2, <1>3, <1>4, <1>5 DEF FrameNext
-----------------------------------------------------------------------------
(* What an activation keeps in its frame: its variables, the arguments     *)
(* that a variadic function has beside its parameters, and where va_start  *)
(* made its variable point.                                                *)

IntegerParams == {k \in Params : ~locals[k].flonum}

VariablesIntact(mm, f) ==
  \A k \in Locals : f.env[k] # Unknown => Intact(mm, VariableCell(f.fp, k, f.env[k]))

ExtraIntact(mm, f) ==
  \A m \in DOMAIN f.extra :
    /\ m \in Nat \ {0} /\ is_variadic /\ Cardinality(IntegerParams) = nparams
    /\ nparams + m <= 8 =>
         Intact(mm, Cell(SaveArea(f.fp) + 8 * (nparams + m - 1), 8, f.extra[m]))

VaListOK(f) ==
  f.va # 0 => /\ f.va \in Locals /\ Pointer(f.va) /\ f.va \in f.writes
              /\ f.env[f.va] = Address(VaList(f.fp))

ContentsOK(mm, f) == VariablesIntact(mm, f) /\ ExtraIntact(mm, f) /\ VaListOK(f)

Contents == \A d \in DOMAIN frames : ContentsOK(memory, frames[d])

\* The layout of the frame does not change while the function runs.
LEMMA ContentsPrimed ==
  ASSUME UNCHANGED frameVars, \A d \in DOMAIN frames' : ContentsOK(memory', frames'[d])
  PROVE  Contents'
  <1>1. locals' = locals /\ nparams' = nparams /\ is_variadic' = is_variadic
    BY DEF frameVars
  <1>2. Locals' = Locals /\ Params' = Params
    BY <1>1 DEF Locals, Params
  <1>3. IntegerParams' = IntegerParams
    BY <1>1, <1>2 DEF IntegerParams
  <1>4. \A fp : VaList(fp) = SaveArea(fp) + 8 * Cardinality(IntegerParams)
    BY DEF VaList, IntegerParams
  <1>5. \A fp : VaList(fp)' = SaveArea(fp) + 8 * Cardinality(IntegerParams)
    BY <1>3 DEF VaList, IntegerParams, SaveArea
  <1>. QED BY <1>1, <1>2, <1>3, <1>4, <1>5 DEF Contents, ContentsOK, VariablesIntact,
         ExtraIntact, VaListOK, VariableCell, Cell, Intact, Pointer, SaveArea

\* What lies in a frame stays when memory is kept from there up.
LEMMA ContentsKept ==
  ASSUME IInv, stage = "run", NEW f, f.fp \in Int, NEW b \in Int, b <= f.fp - stack_size,
         NEW mm, NEW mm2, \A c : Intact(mm, c) /\ b <= c.at => Intact(mm2, c),
         ContentsOK(mm, f)
  PROVE  ContentsOK(mm2, f)
  <1>1. /\ stack_size \in Nat /\ nparams \in Nat
        /\ is_variadic => 248 <= stack_size
        /\ \A k \in Locals : /\ locals[k].offset \in Nat /\ locals[k].offset <= stack_size
    <2>1. /\ SavedRegisters \in Nat
          /\ is_variadic => SavedRegisters = 248
          /\ stack_size \in Nat /\ nparams \in Nat /\ SavedRegisters <= stack_size
          /\ \A k \in Locals : /\ locals[k].offset \in Nat /\ locals[k].offset <= stack_size
      BY LaidOut
    <2>. QED BY <2>1
  <1>2. \A k \in Locals : \A v : Intact(mm, VariableCell(f.fp, k, v)) => Intact(mm2, VariableCell(f.fp, k, v))
    <2>1. \A k \in Locals : \A v : b <= VariableCell(f.fp, k, v).at
      BY <1>1 DEF VariableCell, Cell
    <2>. QED BY <2>1
  <1>3. VariablesIntact(mm2, f)
    BY <1>2 DEF ContentsOK, VariablesIntact
  <1>4. ASSUME NEW m \in Nat \ {0}, is_variadic, NEW v,
               Intact(mm, Cell(SaveArea(f.fp) + 8 * (nparams + m - 1), 8, v))
        PROVE  Intact(mm2, Cell(SaveArea(f.fp) + 8 * (nparams + m - 1), 8, v))
    <2>1. b <= Cell(SaveArea(f.fp) + 8 * (nparams + m - 1), 8, v).at
      BY <1>1, <1>4 DEF SaveArea, Cell
    <2>. QED BY <1>4, <2>1
  <1>5. ExtraIntact(mm2, f)
    BY <1>4 DEF ContentsOK, ExtraIntact
  <1>. QED BY <1>3, <1>5 DEF ContentsOK

\* A call that is not one of those that are miscompiled.
LEMMA Called ==
  ASSUME Programs = {}, MachineOK, Start \/ Call
  PROVE  /\ stage = "run"
         /\ \E args : /\ ArgumentsOK(args) /\ ~ FloatFirst(args) /\ EnterFunction(args)
                      /\ is_variadic \/ Len(args) = nparams
  <1>1. nparams \in Nat /\ MaxArgs \in Nat /\ MaxArgs <= 8
    <2>1. nparams \in Nat
      BY DEF MachineOK, IInv, FrameTypeOK
    <2>2. MaxArgs \in MaxParams .. 8 /\ MaxParams \in Nat
      BY CallsAssumption, FrameAssumption
    <2>. QED BY <2>1, <2>2
  <1>2. CASE Start
    <2>0. PICK q \in 0 .. MaxArgs : \E flonums \in [1 .. q -> BOOLEAN] :
            LET args == [i \in 1 .. q |-> [flonum |-> flonums[i], v |-> Of("argument", 0, i)]]
            IN /\ MayCall(args)
               /\ \A i \in 1 .. nparams : flonums[i] = ParamOf(i).flonum
               /\ EnterFunction(args)
      BY <1>2 DEF Start
    <2>1. PICK flonums \in [1 .. q -> BOOLEAN] :
            LET args == [i \in 1 .. q |-> [flonum |-> flonums[i], v |-> Of("argument", 0, i)]]
            IN /\ MayCall(args)
               /\ \A i \in 1 .. nparams : flonums[i] = ParamOf(i).flonum
               /\ EnterFunction(args)
      BY <2>0
    <2> DEFINE args == [i \in 1 .. q |-> [flonum |-> flonums[i], v |-> Of("argument", 0, i)]]
    <2>2. \E S : args \in Seq(S)
      <3> DEFINE S == {args[i] : i \in 1 .. q}
      <3>1. args \in [1 .. q -> S] /\ q \in Nat
        BY <1>1
      <3>2. args \in Seq(S)
        <4>. HIDE DEF args, S
        <4>. QED BY <3>1
      <3>. QED BY <3>2
    <2>3. Len(args) = q
      BY <1>1
    <2>4. \A i \in 1 .. q : args[i].flonum = flonums[i]
      OBVIOUS
    <2>5. /\ MayCall(args) /\ EnterFunction(args)
          /\ \A i \in 1 .. nparams : flonums[i] = ParamOf(i).flonum
      BY <2>1
    <2>. HIDE DEF args
    <2>6. /\ stage = "run" /\ ~ FloatFirst(args) /\ nparams <= Len(args)
          /\ is_variadic \/ Len(args) = nparams
      BY <1>1, <2>3, <2>5 DEF MayCall
    <2>7. ArgumentsOK(args)
      BY <1>1, <2>2, <2>3, <2>4, <2>5, <2>6 DEF ArgumentsOK
    <2>. QED BY <2>5, <2>6, <2>7
  <1>3. CASE Call
    <2>0. PICK q \in 0 .. MaxArgs : \E temps \in [1 .. q -> Locals \ Params] :
            LET args == [i \in 1 .. q |-> [flonum |-> locals[temps[i]].flonum,
                                           v |-> load(memory, s0 - locals[temps[i]].offset,
                                                      locals[temps[i]].size)]]
            IN /\ MayCall(args)
               /\ \A i \in 1 .. q : Fits(temps[i], i) /\ Top.env[temps[i]] # Unknown
               /\ EnterFunction(args)
      BY <1>3 DEF Call
    <2>1. PICK temps \in [1 .. q -> Locals \ Params] :
            LET args == [i \in 1 .. q |-> [flonum |-> locals[temps[i]].flonum,
                                           v |-> load(memory, s0 - locals[temps[i]].offset,
                                                      locals[temps[i]].size)]]
            IN /\ MayCall(args)
               /\ \A i \in 1 .. q : Fits(temps[i], i) /\ Top.env[temps[i]] # Unknown
               /\ EnterFunction(args)
      BY <2>0
    <2> DEFINE args == [i \in 1 .. q |-> [flonum |-> locals[temps[i]].flonum,
                                          v |-> load(memory, s0 - locals[temps[i]].offset,
                                                     locals[temps[i]].size)]]
    <2>2. \E S : args \in Seq(S)
      <3> DEFINE S == {args[i] : i \in 1 .. q}
      <3>1. args \in [1 .. q -> S] /\ q \in Nat
        BY <1>1
      <3>2. args \in Seq(S)
        <4>. HIDE DEF args, S
        <4>. QED BY <3>1
      <3>. QED BY <3>2
    <2>3. Len(args) = q
      BY <1>1
    <2>4. \A i \in 1 .. q : args[i].flonum = locals[temps[i]].flonum
      OBVIOUS
    <2>5. /\ MayCall(args) /\ EnterFunction(args)
          /\ \A i \in 1 .. q : Fits(temps[i], i)
      BY <2>1
    <2>. HIDE DEF args
    <2>6. /\ stage = "run" /\ ~ FloatFirst(args) /\ nparams <= Len(args)
          /\ is_variadic \/ Len(args) = nparams
      BY <1>1, <2>3, <2>5 DEF MayCall
    <2>7. \A i \in 1 .. nparams : locals[temps[i]].flonum = ParamOf(i).flonum
      BY <1>1, <2>3, <2>5, <2>6 DEF Fits
    <2>8. ArgumentsOK(args)
      BY <1>1, <2>2, <2>3, <2>4, <2>6, <2>7 DEF ArgumentsOK
    <2>. QED BY <2>5, <2>6, <2>8
  <1>. QED BY <1>2, <1>3

\* The activation that is entered has its parameters and further arguments
\* in its frame; those above it keep what is in theirs.
LEMMA EnterFills ==
  ASSUME MachineOK, Chain, Contents, stage = "run", NEW args, ArgumentsOK(args),
         ~ FloatFirst(args), EnterFunction(args), is_variadic \/ Len(args) = nparams
  PROVE  Contents'
  <1> DEFINE f == Activation(args)
             regs == LoadArguments(args)
  <1>1. frames' = Append(frames, f) /\ UNCHANGED frameVars
    BY DEF EnterFunction
  <1>2. /\ f.fp = sp - 16 /\ f.va = 0
        /\ \A k \in Locals : f.env[k] = IF k \in Params THEN args[Len(locals) - k + 1].v ELSE Unknown
        /\ f.extra = [m \in 1 .. Len(args) - nparams |-> args[nparams + m].v]
    BY DEF Activation
  <1>3. /\ IInv /\ sp \in Int /\ nparams \in Nat /\ Len(args) \in Nat /\ Len(args) <= 8
        /\ nparams <= Len(args)
    BY LaidOut DEF MachineOK, ArgumentsOK
  <1>4. /\ is_variadic => \A q \in ArgRegs :
              Intact(memory', Cell(SaveArea(sp - 16) + 8 * q, 8, regs.a[q]))
        /\ \A k \in Params : Intact(memory', VariableCell(sp - 16, k, Incoming(regs, k)))
        /\ \A c : Intact(memory, c) /\ sp <= c.at => Intact(memory', c)
    BY Entered
  <1>5. \A k \in Params : Incoming(regs, k) = args[Len(locals) - k + 1].v
    BY <1>3, ArgumentArrives
  <1>6. \A q \in ArgRegs : q < Len(args) => regs.a[q] = args[q + 1].v
    BY DEF LoadArguments
  <1>. HIDE DEF f, regs
  <1>7. VariablesIntact(memory', f)
    BY <1>2, <1>4, <1>5 DEF VariablesIntact
  <1>8. ExtraIntact(memory', f)
    <2>1. DOMAIN f.extra = 1 .. Len(args) - nparams
      BY <1>2
    <2>. SUFFICES ASSUME NEW m \in 1 .. Len(args) - nparams
                  PROVE  /\ m \in Nat \ {0} /\ is_variadic /\ Cardinality(IntegerParams) = nparams
                         /\ Intact(memory', Cell(SaveArea(f.fp) + 8 * (nparams + m - 1), 8, f.extra[m]))
      BY <2>1 DEF ExtraIntact
    <2>2. m \in Nat \ {0} /\ nparams < Len(args) /\ is_variadic
      BY <1>3
    <2>3. Cardinality(IntegerParams) = nparams
      BY <1>3, <2>2, VariadicParams DEF IntegerParams
    <2> DEFINE q == nparams + m - 1
    <2>4. q \in ArgRegs /\ q < Len(args) /\ q + 1 = nparams + m
      BY <1>3 DEF ArgRegs
    <2>5. f.extra[m] = args[nparams + m].v
      BY <1>2
    <2>6. regs.a[q] = f.extra[m]
      BY <1>6, <2>4, <2>5
    <2>7. Intact(memory', Cell(SaveArea(sp - 16) + 8 * q, 8, regs.a[q]))
      BY <1>4, <2>2, <2>4
    <2>. QED BY <1>2, <2>2, <2>3, <2>6, <2>7
  <1>9. ContentsOK(memory', f)
    BY <1>2, <1>7, <1>8 DEF ContentsOK, VaListOK
  <1>10. ASSUME NEW d \in DOMAIN frames
         PROVE  ContentsOK(memory', frames[d])
    <2>1. frames[d].fp \in Int /\ sp <= frames[d].fp - stack_size
      BY StackBelow
    <2>2. ContentsOK(memory, frames[d])
      BY DEF Contents
    <2>. QED BY <1>3, <1>4, <2>1, <2>2, ContentsKept
  <1>11. /\ DOMAIN frames = 1 .. Depth /\ DOMAIN frames' = 1 .. Depth + 1 /\ Depth \in Nat
         /\ \A d \in 1 .. Depth : frames'[d] = frames[d]
         /\ frames'[Depth + 1] = f
    BY <1>1, Appended, FramesTyped DEF MachineOK, Depth
  <1>12. \A d \in DOMAIN frames' : d = Depth + 1 \/ d \in 1 .. Depth
    BY <1>11
  <1>13. \A d \in DOMAIN frames' : ContentsOK(memory', frames'[d])
    BY <1>9, <1>10, <1>11, <1>12
  <1>. QED BY <1>1, <1>13, ContentsPrimed

\* The activation that runs is replaced by x: the others keep what is in their
\* frames if memory is kept from above its own.
LEMMA WriteFills ==
  ASSUME MachineOK, Chain, Contents, Depth > 0, UNCHANGED frameVars,
         NEW x, frames' = [frames EXCEPT ![Depth] = x],
         \A c : Intact(memory, c) /\ Top.sp <= c.at => Intact(memory', c),
         ContentsOK(memory', x)
  PROVE  Contents'
  <1>1. /\ Depth' = Depth /\ frames'[Depth] = x /\ \E S : frames' \in Seq(S)
        /\ \A d \in 1 .. Depth - 1 : frames'[d] = frames[d]
    BY TopReplaced
  <1>2. Depth \in Nat /\ DOMAIN frames = 1 .. Depth
    BY FramesTyped
  <1>3. DOMAIN frames' = 1 .. Depth
    <2>1. PICK S : frames' \in Seq(S)
      BY <1>1
    <2>2. Len(frames') = Depth
      BY <1>1 DEF Depth
    <2>. QED BY <2>1, <2>2
  <1>4. Top.sp \in Int /\ IInv /\ stage = "run"
    BY TopOK DEF ActivationOK
  <1>5. ASSUME NEW d \in 1 .. Depth - 1
        PROVE  ContentsOK(memory', frames[d])
    <2>1. frames[d].fp \in Int /\ Top.sp <= frames[d].fp - stack_size
      BY <1>2, StackBelow
    <2>2. ContentsOK(memory, frames[d])
      BY <1>2 DEF Contents
    <2>. QED BY <1>4, <2>1, <2>2, ContentsKept
  <1>6. \A d \in DOMAIN frames' : d = Depth \/ d \in 1 .. Depth - 1
    BY <1>2, <1>3
  <1>7. \A d \in DOMAIN frames' : ContentsOK(memory', frames'[d])
    BY <1>1, <1>5, <1>6
  <1>. QED BY <1>7, ContentsPrimed

\* A store to the place of variable k leaves the others, and the arguments a
\* variadic function saved.
LEMMA VariableStored ==
  ASSUME IInv, stage = "run", NEW mm, MemoryOK(mm), NEW f, f.fp \in Int, ContentsOK(mm, f),
         NEW k \in Locals, NEW v
  PROVE  LET mm2 == store(mm, f.fp - locals[k].offset, locals[k].size, v)
         IN /\ Intact(mm2, VariableCell(f.fp, k, v))
            /\ \A j \in Locals : j # k /\ f.env[j] # Unknown =>
                 Intact(mm2, VariableCell(f.fp, j, f.env[j]))
            /\ ExtraIntact(mm2, f)
            /\ \A c : Intact(mm, c) /\ f.fp <= c.at => Intact(mm2, c)
  <1> DEFINE a == f.fp - locals[k].offset
             mm2 == store(mm, a, locals[k].size, v)
  <1>1. /\ \A j \in Locals : /\ locals[j].size \in Nat \ {0} /\ locals[j].offset \in Nat
                             /\ SavedRegisters <= locals[j].offset - locals[j].size
        /\ \A i, j \in Locals : i < j => locals[i].offset <= locals[j].offset - locals[j].size
        /\ Locals = 1 .. Len(locals) /\ Len(locals) \in Nat /\ nparams \in Nat
        /\ SavedRegisters \in Nat
        /\ is_variadic => SavedRegisters = 248
    BY LaidOut
  <1>2. a \in Int /\ locals[k].size \in Nat \ {0} /\ a + locals[k].size <= f.fp - SavedRegisters
    BY <1>1
  <1>3. Intact(mm2, VariableCell(f.fp, k, v))
    <2>. HIDE DEF a
    <2>1. Intact(mm2, Cell(a, locals[k].size, v))
      BY <1>2, StoreIntact
    <2>. QED BY <2>1 DEF a, VariableCell
  <1>4. ASSUME NEW c, Intact(mm, c), a + locals[k].size <= c.at \/ c.at + c.n <= a
        PROVE  Intact(mm2, c)
    <2>. HIDE DEF a
    <2>. QED BY <1>2, <1>4, StoreKeeps
  <1>5. ASSUME NEW j \in Locals, j # k, f.env[j] # Unknown
        PROVE  Intact(mm2, VariableCell(f.fp, j, f.env[j]))
    <2>1. Intact(mm, VariableCell(f.fp, j, f.env[j]))
      BY <1>5 DEF ContentsOK, VariablesIntact
    <2>2. /\ VariableCell(f.fp, j, f.env[j]).at = f.fp - locals[j].offset
          /\ VariableCell(f.fp, j, f.env[j]).n = locals[j].size
      BY DEF VariableCell, Cell
    <2>3. j < k \/ k < j
      BY <1>1, <1>5
    <2>4. /\ locals[j].size \in Nat \ {0} /\ locals[j].offset \in Nat
          /\ locals[k].size \in Nat \ {0} /\ locals[k].offset \in Nat
          /\ \/ locals[j].offset <= locals[k].offset - locals[k].size
             \/ locals[k].offset <= locals[j].offset - locals[j].size
      BY <1>1, <2>3
    <2>5. \/ a + locals[k].size <= f.fp - locals[j].offset
          \/ f.fp - locals[j].offset + locals[j].size <= a
      BY <2>4
    <2>. HIDE DEF a, mm2
    <2>. QED BY <1>4, <2>1, <2>2, <2>5
  <1>6. ExtraIntact(mm2, f)
    <2>. SUFFICES ASSUME NEW m \in DOMAIN f.extra
                  PROVE  /\ m \in Nat \ {0} /\ is_variadic /\ Cardinality(IntegerParams) = nparams
                         /\ nparams + m <= 8 =>
                              Intact(mm2, Cell(SaveArea(f.fp) + 8 * (nparams + m - 1), 8, f.extra[m]))
      BY DEF ExtraIntact
    <2>1. /\ m \in Nat \ {0} /\ is_variadic /\ Cardinality(IntegerParams) = nparams
          /\ nparams + m <= 8 =>
               Intact(mm, Cell(SaveArea(f.fp) + 8 * (nparams + m - 1), 8, f.extra[m]))
      BY DEF ContentsOK, ExtraIntact
    <2>2. /\ Cell(SaveArea(f.fp) + 8 * (nparams + m - 1), 8, f.extra[m]).at
               = f.fp - 248 + 8 * (nparams + m - 1)
      BY DEF Cell, SaveArea
    <2>3. a + locals[k].size <= f.fp - 248 + 8 * (nparams + m - 1)
      <3>1. m \in Nat \ {0} /\ is_variadic
        BY <2>1
      <3>2. nparams \in Nat /\ f.fp \in Int /\ SavedRegisters = 248
            /\ locals[k].size \in Nat /\ locals[k].offset \in Nat
            /\ SavedRegisters <= locals[k].offset - locals[k].size
        BY <1>1, <3>1
      <3>3. a + locals[k].size <= f.fp - 248
        BY <3>2
      <3>. HIDE DEF a
      <3>4. f.fp - 248 <= f.fp - 248 + 8 * (nparams + m - 1)
        BY <3>1, <3>2
      <3>5. a + locals[k].size \in Int
        BY <3>2 DEF a
      <3>. QED BY <3>1, <3>2, <3>3, <3>4, <3>5
    <2>. HIDE DEF a, mm2
    <2>. QED BY <1>4, <2>1, <2>2, <2>3
  <1>7. ASSUME NEW c, Intact(mm, c), f.fp <= c.at
        PROVE  Intact(mm2, c)
    <2>1. c.at \in Int
      BY <1>7 DEF Intact, MemoryOK
    <2>2. a + locals[k].size <= c.at
      BY <1>1, <1>2, <1>7, <2>1
    <2>. HIDE DEF a, mm2
    <2>. QED BY <1>4, <1>7, <2>2
  <1>. QED BY <1>3, <1>5, <1>6, <1>7

LEMMA AssignFills ==
  ASSUME MachineOK, Chain, Contents, Assign
  PROVE  Contents'
  <1>1. Depth > 0 /\ UNCHANGED <<frameVars, sp, s0, ra, sregs>>
    BY Assigned
  <1>2. PICK k \in Locals \ Top.writes :
          /\ memory' = store(memory, s0 - locals[k].offset, locals[k].size, Of("variable", Depth, k))
          /\ frames' = [frames EXCEPT ![Depth] = AssignedFrame(k, Of("variable", Depth, k))]
    BY Assigned
  <1>3. /\ Depth \in DOMAIN frames /\ Top = frames[Depth] /\ ActivationOK(Top, Locals)
        /\ stage = "run" /\ IInv /\ Top.fp \in Int /\ s0 = Top.fp /\ MemoryOK(memory)
        /\ Top.sp \in Int /\ Top.fp <= Top.sp
    <2>1. /\ Depth \in DOMAIN frames /\ Top = frames[Depth] /\ ActivationOK(Top, Locals)
          /\ stage = "run" /\ IInv /\ s0 \in Int /\ s0 = Top.fp /\ MemoryOK(memory)
      BY <1>1, TopOK DEF MachineOK
    <2>. QED BY <2>1 DEF ActivationOK
  <1>4. ContentsOK(memory, Top)
    BY <1>3 DEF Contents
  <1> DEFINE v == Of("variable", Depth, k)
             x == AssignedFrame(k, v)
  <1>. HIDE DEF v
  <1>5. /\ x.fp = Top.fp /\ x.va = Top.va /\ x.extra = Top.extra
        /\ x.writes = Top.writes \cup {k} /\ x.env[k] = v
        /\ \A j \in Locals : j # k => x.env[j] = Top.env[j]
    BY <1>3 DEF AssignedFrame, ActivationOK, Fields
  <1>6. memory' = store(memory, Top.fp - locals[k].offset, locals[k].size, v)
    BY <1>2, <1>3 DEF v
  <1>. HIDE DEF x
  <1>7. /\ Intact(memory', VariableCell(Top.fp, k, v))
        /\ \A j \in Locals : j # k /\ Top.env[j] # Unknown =>
             Intact(memory', VariableCell(Top.fp, j, Top.env[j]))
        /\ ExtraIntact(memory', Top)
        /\ \A c : Intact(memory, c) /\ Top.fp <= c.at => Intact(memory', c)
    BY <1>3, <1>4, <1>6, VariableStored
  <1>8. VariablesIntact(memory', x)
    <2>. SUFFICES ASSUME NEW j \in Locals, x.env[j] # Unknown
                  PROVE  Intact(memory', VariableCell(x.fp, j, x.env[j]))
      BY DEF VariablesIntact
    <2>1. CASE j = k
      BY <1>5, <1>7, <2>1
    <2>2. CASE j # k
      BY <1>5, <1>7, <2>2
    <2>. QED BY <2>1, <2>2
  <1>9. ExtraIntact(memory', x)
    BY <1>5, <1>7 DEF ExtraIntact
  <1>10. VaListOK(x)
    <2>1. Top.va # 0 => Top.va \in Top.writes /\ Top.va \in Locals
      BY <1>4 DEF ContentsOK, VaListOK
    <2>2. k \notin Top.writes
      BY <1>2
    <2>. QED BY <1>4, <1>5, <2>1, <2>2 DEF ContentsOK, VaListOK
  <1>11. \A c : Intact(memory, c) /\ Top.sp <= c.at => Intact(memory', c)
    <2>1. \A c : Intact(memory, c) => c.at \in Int
      BY <1>3 DEF Intact, MemoryOK
    <2>2. \A c : Intact(memory, c) /\ Top.sp <= c.at => Top.fp <= c.at
      BY <1>3, <2>1
    <2>. QED BY <1>7, <2>2
  <1>12. ContentsOK(memory', x)
    BY <1>8, <1>9, <1>10 DEF ContentsOK
  <1>13. UNCHANGED frameVars /\ frames' = [frames EXCEPT ![Depth] = x]
    BY <1>1, <1>2 DEF x, v
  <1>. QED BY <1>1, <1>11, <1>12, <1>13, WriteFills

\* va_start writes to the variable made just before the first temporary, which
\* stands 8 bytes below it.
LEMMA VaStartFills ==
  ASSUME Programs = {}, PointersPlaced, MachineOK, Chain, Contents, builtin_va_start
  PROVE  Contents'
  <1>1. Depth > 0 /\ UNCHANGED <<frameVars, sp, s0, ra, sregs>>
    BY VaStarted
  <1>2. PICK temp \in Locals \ Params, ap \in Locals \ Params :
          /\ Pointer(temp) /\ Pointer(ap) /\ ap = temp + 1
          /\ memory' = store(memory, s0 - (locals[temp].offset + 8), 8, Address(VaList(s0)))
          /\ frames' = [frames EXCEPT ![Depth] = StartedFrame(temp, ap)]
    BY VaStarted
  <1>3. /\ Depth \in DOMAIN frames /\ Top = frames[Depth] /\ ActivationOK(Top, Locals)
        /\ stage = "run" /\ IInv /\ Top.fp \in Int /\ s0 = Top.fp /\ MemoryOK(memory)
        /\ Top.sp \in Int /\ Top.fp <= Top.sp
    <2>1. /\ Depth \in DOMAIN frames /\ Top = frames[Depth] /\ ActivationOK(Top, Locals)
          /\ stage = "run" /\ IInv /\ s0 \in Int /\ s0 = Top.fp /\ MemoryOK(memory)
      BY <1>1, TopOK DEF MachineOK
    <2>. QED BY <2>1 DEF ActivationOK
  <1>4. ContentsOK(memory, Top)
    BY <1>3 DEF Contents
  <1> DEFINE v == Address(VaList(s0))
             x == StartedFrame(temp, ap)
  <1>5. v = Address(VaList(Top.fp)) /\ temp # ap
    BY <1>2, <1>3, LaidOut
  <1>6. /\ x.fp = Top.fp /\ x.va = ap /\ x.extra = Top.extra
        /\ x.writes = Top.writes \cup {ap, temp} /\ x.env[ap] = v /\ x.env[temp] = Unknown
        /\ \A j \in Locals : j # ap /\ j # temp => x.env[j] = Top.env[j]
    <2>1. x = [Top EXCEPT !.env = [[Top.env EXCEPT ![ap] = v] EXCEPT ![temp] = Unknown],
                          !.writes = Top.writes \cup {ap, temp}, !.va = ap]
      BY DEF StartedFrame
    <2>. HIDE DEF v, x
    <2>. QED BY <1>3, <1>5, <2>1 DEF ActivationOK, Fields
  <1>7. locals[ap].offset = locals[temp].offset + 8 /\ locals[ap].size = 8
    <2>1. place = Len(locals) + 1
      BY <1>3 DEF IInv, Covered
    <2>2. Locals = 1 .. Len(locals) /\ Len(locals) \in Nat
      BY <1>3, LaidOut
    <2>3. temp + 1 < place /\ Pointer(temp + 1) /\ temp \in Locals
      BY <1>2, <2>1, <2>2
    <2>. QED BY <1>2, <1>3, <2>3 DEF PointersPlaced, Pointer
  <1>8. memory' = store(memory, Top.fp - locals[ap].offset, locals[ap].size, v)
    BY <1>2, <1>3, <1>7
  <1>. HIDE DEF v, x
  <1>9. /\ Intact(memory', VariableCell(Top.fp, ap, v))
        /\ \A j \in Locals : j # ap /\ Top.env[j] # Unknown =>
             Intact(memory', VariableCell(Top.fp, j, Top.env[j]))
        /\ ExtraIntact(memory', Top)
        /\ \A c : Intact(memory, c) /\ Top.fp <= c.at => Intact(memory', c)
    <2>1. ap \in Locals
      BY <1>2
    <2>. QED BY <1>3, <1>4, <1>8, <2>1, VariableStored
  <1>10. VariablesIntact(memory', x)
    <2>. SUFFICES ASSUME NEW j \in Locals, x.env[j] # Unknown
                  PROVE  Intact(memory', VariableCell(x.fp, j, x.env[j]))
      BY DEF VariablesIntact
    <2>1. CASE j = ap
      BY <1>6, <1>9, <2>1
    <2>2. CASE j # ap
      BY <1>6, <1>9, <2>2
    <2>. QED BY <2>1, <2>2
  <1>11. ExtraIntact(memory', x)
    BY <1>6, <1>9 DEF ExtraIntact
  <1>12. VaListOK(x)
    BY <1>2, <1>5, <1>6 DEF VaListOK
  <1>13. \A c : Intact(memory, c) /\ Top.sp <= c.at => Intact(memory', c)
    <2>1. \A c : Intact(memory, c) => c.at \in Int
      BY <1>3 DEF Intact, MemoryOK
    <2>2. \A c : Intact(memory, c) /\ Top.sp <= c.at => Top.fp <= c.at
      BY <1>3, <2>1
    <2>. QED BY <1>9, <2>2
  <1>14. ContentsOK(memory', x)
    BY <1>10, <1>11, <1>12 DEF ContentsOK
  <1>15. UNCHANGED frameVars /\ frames' = [frames EXCEPT ![Depth] = x]
    BY <1>1, <1>2 DEF x
  <1>. QED BY <1>1, <1>13, <1>14, <1>15, WriteFills

LEMMA ReturnFills ==
  ASSUME MachineOK, Chain, Contents, Return
  PROVE  Contents'
  <1>1. /\ Depth > 0 /\ UNCHANGED frameVars
        /\ memory' = {c \in memory : c.at >= s0 + 16}
        /\ frames' = SubSeq(frames, 1, Depth - 1)
    BY DEF Return
  <1>2. /\ MemoryOK(memory) /\ s0 + 16 = Top.sp /\ Top.sp \in Int /\ IInv /\ stage = "run"
    BY <1>1, Restored, TopOK DEF MachineOK, ActivationOK
  <1>3. \A c : Intact(memory, c) /\ Top.sp <= c.at => Intact(memory', c)
    BY <1>1, <1>2 DEF Intact, MemoryOK
  <1>4. Depth \in Nat /\ DOMAIN frames = 1 .. Depth
    BY FramesTyped
  <1>5. /\ \E S : frames' \in Seq(S)
        /\ Len(frames') = Depth - 1
        /\ \A i \in 1 .. Depth - 1 : frames'[i] = frames[i]
    BY <1>1, Cut DEF MachineOK, Depth
  <1>6. DOMAIN frames' = 1 .. Depth - 1
    BY <1>5
  <1>7. ASSUME NEW d \in DOMAIN frames'
        PROVE  ContentsOK(memory', frames'[d])
    <2>1. d \in DOMAIN frames /\ d # Depth /\ frames'[d] = frames[d]
      BY <1>4, <1>5, <1>6
    <2>2. frames[d].fp \in Int /\ Top.sp <= frames[d].fp - stack_size
      BY <2>1, StackBelow
    <2>3. ContentsOK(memory, frames[d])
      BY <2>1 DEF Contents
    <2>4. ContentsOK(memory', frames[d])
      BY <1>2, <1>3, <2>2, <2>3, ContentsKept
    <2>. QED BY <2>1, <2>4
  <1>. QED BY <1>1, <1>7, ContentsPrimed

LEMMA ContentsNext ==
  ASSUME Programs = {}
  PROVE  PointersPlaced /\ MachineOK /\ Chain /\ Contents /\ [Next]_vars => Contents'
  <1>. SUFFICES ASSUME PointersPlaced, MachineOK, Chain, Contents, [Next]_vars PROVE Contents'
    OBVIOUS
  <1>1. ASSUME Start \/ Call PROVE Contents'
    BY <1>1, Called, EnterFills
  <1>2. CASE Compute \/ UNCHANGED vars
    <2>1. UNCHANGED <<frameVars, memory, frames>>
      BY <1>2 DEF Compute, vars, machineVars
    <2>. QED BY <2>1, ContentsPrimed DEF Contents
  <1>3. CASE Layout
    <2>1. frames' = frames
      BY <1>3 DEF Layout, machineVars
    <2>2. stage # "run"
      BY <1>3 DEF Layout, FrameNext, Param, EndParams, Local, BeginLayout, LayoutLocal, EndLayout
    <2>3. DOMAIN frames = {}
      BY <2>2, FramesTyped DEF MachineOK
    <2>. QED BY <2>1, <2>3 DEF Contents
  <1>. QED BY <1>1, <1>2, <1>3, AssignFills, VaStartFills, ReturnFills DEF Next

\* The contents of all frames, while the program runs.
LEMMA ContentsHold ==
  ASSUME Programs = {}
  PROVE  Spec => [](MachineOK /\ Chain /\ Contents)
  <1>1. Init => PointersPlaced /\ Contents
    <2>. SUFFICES ASSUME Init PROVE PointersPlaced /\ Contents
      OBVIOUS
    <2>1. DOMAIN frames = {}
      BY DEF Init
    <2>. QED BY <2>1, PointersInit DEF Init, Contents
  <1>2. MachineOK /\ PointersPlaced /\ [Next]_vars => PointersPlaced'
    <2>. SUFFICES ASSUME MachineOK, PointersPlaced, [Next]_vars PROVE PointersPlaced'
      OBVIOUS
    <2>1. [FrameNext]_frameVars
      BY DEF Next, vars, Layout, Start, Call, EnterFunction, Assign, Compute, builtin_va_start, Return
    <2>. QED BY <2>1, PointersNext DEF MachineOK
  <1>3. MachineOK /\ Chain /\ PointersPlaced /\ Contents /\ [Next]_vars => Contents'
    BY ContentsNext
  <1>. QED BY MachineHolds, <1>1, <1>2, <1>3, PTL DEF Spec

\* In a program free of the two constructs that are miscompiled, every variable
\* of every activation holds what it was given last, a parameter the caller's
\* argument (main, main.c:267; emit_text, codegen.c:965; gen_expr,
\* codegen.c:503).
THEOREM VariablesSurvive ==
  ASSUME Programs = {}
  PROVE  Spec => []VariablesKept
  <1>1. MachineOK /\ Chain /\ Contents => VariablesKept
    <2>. SUFFICES ASSUME MachineOK, Chain, Contents, NEW d \in DOMAIN frames, NEW k \in Locals,
                         frames[d].env[k] # Unknown
                  PROVE  load(memory, frames[d].fp - locals[k].offset, locals[k].size)
                           = frames[d].env[k]
      BY DEF VariablesKept
    <2>1. frames[d].fp \in Int /\ stage = "run" /\ IInv /\ MemoryOK(memory)
      BY StackBelow DEF MachineOK
    <2>2. locals[k].size \in Nat \ {0} /\ locals[k].offset \in Nat
      BY <2>1, LaidOut
    <2>3. frames[d].fp - locals[k].offset \in Int
      BY <2>1, <2>2
    <2>4. Intact(memory, Cell(frames[d].fp - locals[k].offset, locals[k].size, frames[d].env[k]))
      BY DEF Contents, ContentsOK, VariablesIntact, VariableCell
    <2>. QED BY <2>1, <2>2, <2>3, <2>4, LoadIntact
  <1>. QED BY ContentsHold, <1>1, PTL

\* In such a program a variadic function finds its further arguments one after
\* the other from where va_start made its variable point (emit_text,
\* codegen.c:1000; builtin_va_start, codegen.c:309).
THEOREM ExtraArgumentsReached ==
  ASSUME Programs = {}
  PROVE  Spec => []ExtraArgumentsFound
  <1>1. MachineOK /\ Chain /\ Contents => ExtraArgumentsFound
    <2>. SUFFICES ASSUME MachineOK, Chain, Contents, NEW d \in DOMAIN frames, frames[d].va # 0,
                         NEW m \in DOMAIN frames[d].extra, nparams + m <= 8
                  PROVE  LET ap == load(memory, frames[d].fp - locals[frames[d].va].offset, 8)[3]
                         IN load(memory, ap + 8 * (m - 1), 8) = frames[d].extra[m]
      BY DEF ExtraArgumentsFound
    <2> DEFINE f == frames[d]
               k == f.va
    <2>1. /\ f.fp \in Int /\ stage = "run" /\ IInv /\ MemoryOK(memory) /\ nparams \in Nat
          /\ ContentsOK(memory, f)
      BY StackBelow, LaidOut DEF MachineOK, Contents
    <2>. HIDE DEF f
    <2>2. k \in Locals /\ locals[k].size = 8 /\ f.env[k] = Address(VaList(f.fp))
      BY <2>1 DEF ContentsOK, VaListOK, Pointer, f
    <2>3. /\ m \in Nat \ {0} /\ Cardinality(IntegerParams) = nparams
          /\ Intact(memory, Cell(SaveArea(f.fp) + 8 * (nparams + m - 1), 8, f.extra[m]))
      BY <2>1 DEF ContentsOK, ExtraIntact, f
    <2>4. locals[k].offset \in Nat
      BY <2>1, <2>2, LaidOut
    <2>5. Intact(memory, Cell(f.fp - locals[k].offset, 8, Address(VaList(f.fp))))
      <3>1. Address(VaList(f.fp)) # Unknown
        BY DEF Address, Of, Unknown
      <3>. QED BY <2>1, <2>2, <3>1 DEF ContentsOK, VariablesIntact, VariableCell
    <2>6. load(memory, f.fp - locals[k].offset, 8) = Address(VaList(f.fp))
      BY <2>1, <2>4, <2>5, LoadIntact
    <2>7. Address(VaList(f.fp))[3] = f.fp - 248 + 8 * nparams
      BY <2>3 DEF Address, Of, VaList, SaveArea, IntegerParams
    <2>8. /\ f.fp - 248 + 8 * nparams + 8 * (m - 1) = SaveArea(f.fp) + 8 * (nparams + m - 1)
          /\ SaveArea(f.fp) + 8 * (nparams + m - 1) \in Int
      BY <2>1, <2>3 DEF SaveArea
    <2>9. load(memory, SaveArea(f.fp) + 8 * (nparams + m - 1), 8) = f.extra[m]
      BY <2>1, <2>3, <2>8, LoadIntact
    <2>. QED BY <2>6, <2>7, <2>8, <2>9 DEF f
  <1>. QED BY ContentsHold, <1>1, PTL
=============================================================================

--------------------------- MODULE CondInclProofs ---------------------------
(***************************************************************************)
(* Proofs about CondIncl, for all macro names, lines and bounds.           *)
(***************************************************************************)
EXTENDS CondIncl, Integers, SequenceTheorems, TLAPS

\* A function on 1 .. n is a sequence of length n.
LEMMA FunctionIsSeq ==
  ASSUME NEW n \in Nat, NEW S, NEW f \in [1 .. n -> S]
  PROVE  f \in Seq(S) /\ Len(f) = n
OBVIOUS

\* The stack without its top entry.
LEMMA PopProperties ==
  ASSUME NEW S, NEW s \in Seq(S), s # <<>>
  PROVE  /\ Len(s) \in Nat \ {0}
         /\ SubSeq(s, 1, Len(s) - 1) \in Seq(S)
         /\ Len(SubSeq(s, 1, Len(s) - 1)) = Len(s) - 1
         /\ \A i \in 1 .. Len(s) - 1 : SubSeq(s, 1, Len(s) - 1)[i] = s[i]
<1> DEFINE f == [i \in 1 .. Len(s) - 1 |-> s[i]]
<1>1. Len(s) \in Nat \ {0}
  OBVIOUS
<1>2. SubSeq(s, 1, Len(s) - 1) = f
  BY <1>1
<1>3. f \in [1 .. Len(s) - 1 -> S] /\ \A i \in 1 .. Len(s) - 1 : f[i] = s[i]
  BY <1>1
<1> HIDE DEF f
<1>4. f \in Seq(S) /\ Len(f) = Len(s) - 1
  BY <1>1, <1>3, FunctionIsSeq
<1> QED
  BY <1>1, <1>2, <1>3, <1>4

\* A sequence that extends s by e is Append(s, e).
LEMMA AppendIs ==
  ASSUME NEW S, NEW s \in Seq(S), NEW e \in S, NEW t \in Seq(S),
         Len(t) = Len(s) + 1, \A i \in 1 .. Len(s) : t[i] = s[i], t[Len(s) + 1] = e
  PROVE  Append(s, e) = t
<1>1. /\ Append(s, e) \in Seq(S)
      /\ Len(Append(s, e)) = Len(s) + 1
      /\ \A i \in 1 .. Len(s) + 1 : Append(s, e)[i] = t[i]
  OBVIOUS
<1> QED
  BY <1>1, SeqEqual
-----------------------------------------------------------------------------

LEMMA FreshNode ==
  ASSUME FreshNodes # {}
  PROVE  /\ Fresh \in Nodes
         /\ \A i \in 1 .. Len(cond_incl) : cond_incl[i].node # Fresh
         /\ \A i \in 1 .. Len(saved) : saved[i] # Fresh
<1>1. \E n \in Nodes : n \in FreshNodes
  BY DEF FreshNodes
<1>2. Fresh \in FreshNodes
  BY <1>1 DEF Fresh
<1> QED
  BY <1>2 DEF FreshNodes

LEMMA TopEntry ==
  ASSUME ProgramTypeOK, cond_incl # <<>>
  PROVE  /\ Len(cond_incl) \in 1 .. Len(cond_incl)
         /\ Top \in CondInclEntry
         /\ Top.node \in Nodes /\ Top.included \in BOOLEAN
<1>1. Len(cond_incl) \in 1 .. Len(cond_incl) /\ Top \in CondInclEntry
  BY DEF ProgramTypeOK, Top
<1> QED
  BY <1>1 DEF CondInclEntry

LEMMA TypeInit == Init => ProgramTypeOK
<1> SUFFICES ASSUME Init PROVE ProgramTypeOK
  OBVIOUS
<1>1. macros \in [Names -> Meanings]
  BY DEF Init, init_macros, Meanings
<1>2. cond_incl \in Seq(CondInclEntry) /\ saved \in Seq(Nodes \cup {NULL}) /\ saved # <<>>
  BY DEF Init
<1> QED
  BY <1>1, <1>2 DEF Init, ProgramTypeOK

\* The steps that change the stack, separated from what chooses them.
LEMMA TypePush ==
  ASSUME ProgramTypeOK, NEW included \in BOOLEAN, push_cond_incl(included)
  PROVE  ProgramTypeOK'
<1> DEFINE e == [node |-> Fresh, ctx |-> "IN_THEN", included |-> included]
<1>1. e \in CondInclEntry
  BY FreshNode DEF push_cond_incl, CondInclEntry
<1>2. cond_incl' = Append(cond_incl, e)
  BY DEF push_cond_incl
<1> HIDE DEF e
<1>3. cond_incl' \in Seq(CondInclEntry)
  BY <1>1, <1>2 DEF ProgramTypeOK
<1> QED
  BY <1>3 DEF ProgramTypeOK, push_cond_incl

LEMMA TypeEnterBranch ==
  ASSUME ProgramTypeOK, NEW c \in {"IN_ELIF", "IN_ELSE"}, NEW included \in BOOLEAN,
         NEW read \in BOOLEAN, cond_incl # <<>>, EnterBranch(c, included, read)
  PROVE  ProgramTypeOK'
<1>1. Len(cond_incl) \in 1 .. Len(cond_incl) /\ Top \in CondInclEntry
  BY TopEntry
<1>2. [Top EXCEPT !.ctx = c, !.included = included] \in CondInclEntry
  BY <1>1 DEF CondInclEntry
<1>3. cond_incl' \in Seq(CondInclEntry)
  BY <1>1, <1>2 DEF ProgramTypeOK, EnterBranch, Top
<1> QED
  BY <1>3 DEF ProgramTypeOK, EnterBranch

LEMMA TypeStep ==
  ASSUME ProgramTypeOK, [Next]_vars
  PROVE  ProgramTypeOK'
<1>1. CASE UNCHANGED vars
  BY <1>1 DEF ProgramTypeOK, vars
<1>2. CASE EndFile
  <2>1. /\ SubSeq(saved, 1, Len(saved) - 1) \in Seq(Nodes \cup {NULL})
        /\ Len(SubSeq(saved, 1, Len(saved) - 1)) = Len(saved) - 1
        /\ Len(saved) \in Nat \ {0}
    BY PopProperties DEF ProgramTypeOK
  <2>2. CASE Ptr # CurrentCondIncl
    BY <1>2, <2>2 DEF ProgramTypeOK, EndFile
  <2>3. CASE Ptr = CurrentCondIncl /\ Len(saved) = 1
    <3>1. skip' \in Nat /\ saved' = saved /\ status' = "done"
      BY <1>2, <2>3 DEF EndFile
    <3> QED
      BY <1>2, <2>3, <3>1 DEF ProgramTypeOK, EndFile
  <2>4. CASE Ptr = CurrentCondIncl /\ Len(saved) # 1
    <3>1. saved' = SubSeq(saved, 1, Len(saved) - 1) /\ skip' = 0
      BY <1>2, <2>4 DEF EndFile
    <3>2. Len(saved') # 0
      BY <2>1, <2>4, <3>1
    <3>3. saved' \in Seq(Nodes \cup {NULL}) /\ saved' # <<>>
      BY <2>1, <3>1, <3>2
    <3> QED
      BY <1>2, <2>4, <3>1, <3>3 DEF ProgramTypeOK, EndFile
  <2> QED
    BY <2>2, <2>3, <2>4
<1>3. ASSUME NEW l \in Lines, ReadLine(l)
      PROVE  ProgramTypeOK'
  <2>0. WellFormedLine(l)
    BY CondInclAssumption
  <2>1. CASE Text(l)
    BY <2>1 DEF ProgramTypeOK, Text
  <2>2. CASE Define(l)
    BY <2>0, <2>2 DEF ProgramTypeOK, Define, WellFormedLine, Meanings
  <2>3. CASE Undef(l)
    BY <2>0, <2>3 DEF ProgramTypeOK, Undef, WellFormedLine, Meanings
  <2>4. CASE If(l)
    BY <2>4, TypePush DEF ProgramTypeOK, If, error_tok
  <2>5. CASE Ifdef(l)
    BY <2>5, TypePush DEF Ifdef
  <2>6. CASE Ifndef(l)
    BY <2>6, TypePush DEF Ifndef
  <2>7. CASE Elif(l)
    <3>1. CASE error_tok
      BY <3>1 DEF ProgramTypeOK, error_tok
    <3>2. CASE cond_incl # <<>> /\ \E taken \in BOOLEAN :
                 EnterBranch("IN_ELIF", Top.included \/ taken, taken)
      <4>1. Top.included \in BOOLEAN
        BY <3>2, TopEntry
      <4> QED
        BY <3>2, <4>1, TypeEnterBranch
    <3> QED
      BY <2>7, <3>1, <3>2 DEF Elif, Stray
  <2>8. CASE Else(l)
    <3>1. CASE error_tok
      BY <3>1 DEF ProgramTypeOK, error_tok
    <3>2. CASE cond_incl # <<>> /\ EnterBranch("IN_ELSE", Top.included, ~Top.included)
      <4>1. Top.included \in BOOLEAN
        BY <3>2, TopEntry
      <4> QED
        BY <3>2, <4>1, TypeEnterBranch
    <3> QED
      BY <2>8, <3>1, <3>2 DEF Else, Stray
  <2>9. CASE Endif(l)
    <3>1. CASE error_tok
      BY <3>1 DEF ProgramTypeOK, error_tok
    <3>2. CASE cond_incl # <<>> /\ ~error_tok
      <4>1. SubSeq(cond_incl, 1, Len(cond_incl) - 1) \in Seq(CondInclEntry)
        BY <3>2, PopProperties DEF ProgramTypeOK
      <4>2. cond_incl' \in Seq(CondInclEntry) /\ skip' = 0
        BY <2>9, <3>2, <4>1 DEF Endif
      <4> QED
        BY <2>9, <3>2, <4>2 DEF ProgramTypeOK, Endif
    <3> QED
      BY <2>9, <3>1, <3>2 DEF Endif
  <2>10. CASE Include(l)
    <3>1. Ptr \in Nodes \cup {NULL}
      BY TopEntry DEF Ptr
    <3>2. saved' \in Seq(Nodes \cup {NULL}) /\ saved' # <<>>
      BY <2>10, <3>1 DEF ProgramTypeOK, Include
    <3>3. macros' \in [Names -> Meanings]
      BY <2>10 DEF ProgramTypeOK, Include, init_macros, Meanings
    <3> QED
      BY <2>10, <3>2, <3>3 DEF ProgramTypeOK, Include
  <2>11. CASE ErrorDirective(l)
    BY <2>11 DEF ProgramTypeOK, ErrorDirective, error_tok
  <2>12. CASE SkipNested(l)
    <3>1. skip' \in Nat
      BY <2>12 DEF ProgramTypeOK, SkipNested
    <3> QED
      BY <2>12, <3>1 DEF ProgramTypeOK, SkipNested
  <2>13. CASE SkipNestedEnd(l)
    <3>1. skip' \in Nat
      BY <2>13 DEF ProgramTypeOK, SkipNestedEnd
    <3> QED
      BY <2>13, <3>1 DEF ProgramTypeOK, SkipNestedEnd
  <2>14. CASE SkipLine(l)
    BY <2>14 DEF ProgramTypeOK, SkipLine
  <2> QED
    BY <1>3, <2>1, <2>2, <2>3, <2>4, <2>5, <2>6, <2>7, <2>8, <2>9, <2>10, <2>11, <2>12,
       <2>13, <2>14 DEF ReadLine
<1> QED
  BY <1>1, <1>2, <1>3 DEF Next

(***************************************************************************)
(* Every reachable state is well typed: the stack holds entries, a saved   *)
(* pointer exists for every open file, and skip never runs below zero.     *)
(***************************************************************************)
THEOREM TypeCorrect == Spec => []TypeOK
<1>1. Init => TypeOK
  BY TypeInit DEF Init, TypeOK
<1>2. TypeOK /\ [Next]_vars => TypeOK'
  <2> SUFFICES ASSUME TypeOK, [Next]_vars PROVE TypeOK'
    OBVIOUS
  <2>1. line' \in Lines \cup {NoLine}
    BY DEF TypeOK, Next, vars
  <2> QED
    BY <2>1, TypeStep DEF TypeOK
<1> QED
  BY <1>1, <1>2, PTL DEF Spec

(***************************************************************************)
(* The inductive invariant.  Whatever an included file closes is its own   *)
(* (~Foreign), so saved pointers stay on the stack.  The predefined macros *)
(* keep their meaning, so that init_macros changes nothing when it runs    *)
(* again for an included file.                                             *)
(***************************************************************************)
PredefinedIntact == \A n \in Predefined : macros[n] = "builtin"
IInv == ProgramTypeOK /\ NestedFiles /\ LiveGroupsTaken /\ PredefinedIntact

LEMMA InvInit == Init => IInv
<1> SUFFICES ASSUME Init PROVE IInv
  OBVIOUS
<1>1. NestedFiles
  BY DEF Init, NestedFiles, Positions, At, CurrentCondIncl
<1>2. LiveGroupsTaken
  BY DEF Init, LiveGroupsTaken
<1>3. PredefinedIntact
  BY CondInclAssumption DEF Init, init_macros, PredefinedIntact
<1> QED
  BY <1>1, <1>2, <1>3, TypeInit DEF IInv

\* If the entry on top is not the current file's saved one, no saved pointer is on top.
LEMMA TopIsOwn ==
  ASSUME ProgramTypeOK, NestedFiles, cond_incl # <<>>, ~At(CurrentCondIncl, Len(cond_incl)),
         NEW k \in 1 .. Len(saved)
  PROVE  ~At(saved[k], Len(cond_incl))
<1>1. Len(saved) \in 1 .. Len(saved) /\ Len(cond_incl) \in Positions
  BY DEF ProgramTypeOK, Positions
<1>2. PICK b \in Positions : At(saved[Len(saved)], b)
  BY <1>1 DEF NestedFiles
<1>3. b # Len(cond_incl) /\ b <= Len(cond_incl)
  BY <1>1, <1>2 DEF CurrentCondIncl, Positions
<1>4. ASSUME At(saved[k], Len(cond_incl)) PROVE FALSE
  <2>1. Len(cond_incl) <= b
    BY <1>1, <1>2, <1>4 DEF NestedFiles
  <2> QED
    BY <1>1, <1>3, <2>1 DEF Positions
<1> QED
  BY <1>4

\* The branches and #endif a file may hold concern an entry of its own.
LEMMA OwnBranch ==
  ASSUME BenignLines, ProgramTypeOK, NestedFiles, cond_incl # <<>>,
         NEW l \in Lines, l.op \in Branches, skip <= 1, Offered(l)
  PROVE  ~At(CurrentCondIncl, Len(cond_incl))
<1>1. Ptr = cond_incl[Len(cond_incl)].node /\ Ptr \in Nodes /\ Len(cond_incl) # 0
  BY TopEntry DEF Ptr, Top
<1>2. CASE Len(saved) > 1
  <2>1. Ptr # CurrentCondIncl
    BY <1>2 DEF Offered, BenignLines
  <2> QED
    BY <1>1, <2>1 DEF At
<1>3. CASE ~(Len(saved) > 1)
  <2>1. Len(saved) = 1
    <3>1. Len(saved) \in Nat /\ Len(saved) # 0
      BY DEF ProgramTypeOK
    <3>2. \A n \in Nat : n # 0 /\ ~(n > 1) => n = 1
      OBVIOUS
    <3> QED
      BY <1>3, <3>1, <3>2
  <2>2. CurrentCondIncl = NULL
    BY <2>1 DEF CurrentCondIncl, NestedFiles
  <2> QED
    BY <1>1, <2>2, CondInclAssumption DEF At
<1> QED
  BY <1>2, <1>3

\* The nesting invariant depends on which nodes are on the stack, and only on those.
LEMMA NestedSame ==
  ASSUME ProgramTypeOK, NestedFiles, saved' = saved, Len(cond_incl') = Len(cond_incl),
         \A i \in 1 .. Len(cond_incl) : cond_incl'[i].node = cond_incl[i].node,
         skip' >= 1 => ~At(CurrentCondIncl, Len(cond_incl))
  PROVE  NestedFiles'
<1>1. \A p, i : At(p, i)' <=> At(p, i)
  BY DEF At
<1>2. Positions' = Positions /\ CurrentCondIncl' = CurrentCondIncl
  BY DEF Positions, CurrentCondIncl
<1> QED
  BY <1>1, <1>2 DEF NestedFiles

LEMMA PushInv ==
  ASSUME IInv, skip = 0, NEW included \in BOOLEAN, push_cond_incl(included)
  PROVE  NestedFiles' /\ LiveGroupsTaken'
<1> DEFINE e == [node |-> Fresh, ctx |-> "IN_THEN", included |-> included]
<1>1. /\ e \in CondInclEntry /\ Fresh \in Nodes
      /\ \A i \in 1 .. Len(cond_incl) : cond_incl[i].node # Fresh
      /\ \A i \in 1 .. Len(saved) : saved[i] # Fresh
  BY FreshNode DEF push_cond_incl, CondInclEntry
<1>2. /\ cond_incl' = Append(cond_incl, e) /\ saved' = saved
      /\ skip' = IF included THEN 0 ELSE 1
  BY DEF push_cond_incl
<1>3. e.node = Fresh /\ e.included = included
  OBVIOUS
<1> HIDE DEF e
<1>4. /\ Len(cond_incl) \in Nat /\ Len(cond_incl') = Len(cond_incl) + 1
      /\ \A i \in 1 .. Len(cond_incl) : cond_incl'[i] = cond_incl[i]
      /\ cond_incl'[Len(cond_incl')] = e
  BY <1>1, <1>2 DEF IInv, ProgramTypeOK
<1>5. \A k \in 1 .. Len(saved) : \A i : At(saved[k], i)' <=> At(saved[k], i)
  BY <1>1, <1>2, <1>3, <1>4 DEF At
<1>6. NestedFiles'
  <2>1. saved'[1] = NULL
    BY <1>2 DEF IInv, NestedFiles
  <2>2. \A i, j \in 1 .. Len(cond_incl') : cond_incl'[i].node = cond_incl'[j].node => i = j
    BY <1>1, <1>3, <1>4 DEF IInv, NestedFiles
  <2>3. \A k \in 1 .. Len(saved') : \E i \in Positions' : At(saved[k], i)'
    <3> SUFFICES ASSUME NEW k \in 1 .. Len(saved)
                 PROVE  \E i \in Positions' : At(saved[k], i)'
      BY <1>2
    <3>1. PICK i \in Positions : At(saved[k], i)
      BY DEF IInv, NestedFiles
    <3>2. i \in Positions'
      BY <1>4 DEF Positions
    <3> QED
      BY <1>5, <3>1, <3>2
  <2>4. \A k \in 1 .. Len(saved) : \A i : At(saved[k], i) => i \in Positions
    BY <1>4 DEF At, Positions
  <2>5. \A j, k \in 1 .. Len(saved'), a, b \in Positions' :
          j <= k /\ At(saved[j], a)' /\ At(saved[k], b)' => a <= b
    BY <1>2, <1>5, <2>4 DEF IInv, NestedFiles
  <2>6. ~At(CurrentCondIncl, Len(cond_incl))'
    <3>1. Len(saved) \in 1 .. Len(saved)
      BY DEF IInv, ProgramTypeOK
    <3>2. ~At(saved[Len(saved)], Len(cond_incl) + 1)
      BY <1>4 DEF At
    <3> QED
      BY <1>2, <1>4, <1>5, <3>1, <3>2 DEF CurrentCondIncl
  <2> QED
    BY <2>1, <2>2, <2>3, <2>5, <2>6 DEF NestedFiles
<1>7. LiveGroupsTaken'
  BY <1>2, <1>3, <1>4 DEF IInv, LiveGroupsTaken
<1> QED
  BY <1>6, <1>7

LEMMA BranchInv ==
  ASSUME BenignLines, IInv, NEW l \in Lines, l.op \in Branches, skip <= 1, Offered(l),
         cond_incl # <<>>, NEW c, NEW included \in BOOLEAN, NEW read \in BOOLEAN,
         read => included \/ c = "IN_ELSE", EnterBranch(c, included, read)
  PROVE  NestedFiles' /\ LiveGroupsTaken'
<1>1. /\ Len(cond_incl) \in 1 .. Len(cond_incl) /\ Top \in CondInclEntry
      /\ ~At(CurrentCondIncl, Len(cond_incl))
  BY TopEntry, OwnBranch DEF IInv
<1> DEFINE e == [Top EXCEPT !.ctx = c, !.included = included]
<1>2. e.node = Top.node /\ e.ctx = c /\ e.included = included
  BY <1>1 DEF CondInclEntry
<1>3. cond_incl' = [cond_incl EXCEPT ![Len(cond_incl)] = e]
  BY DEF EnterBranch, Top
<1> HIDE DEF e
<1>4. /\ Len(cond_incl') = Len(cond_incl)
      /\ \A i \in 1 .. Len(cond_incl) :
            cond_incl'[i] = IF i = Len(cond_incl) THEN e ELSE cond_incl[i]
  BY <1>1, <1>3 DEF IInv, ProgramTypeOK
<1>5. \A i \in 1 .. Len(cond_incl) : cond_incl'[i].node = cond_incl[i].node
  BY <1>2, <1>4 DEF Top
<1>6. NestedFiles'
  BY <1>1, <1>4, <1>5, NestedSame DEF IInv, EnterBranch
<1>7. LiveGroupsTaken'
  BY <1>2, <1>4 DEF IInv, LiveGroupsTaken, EnterBranch
<1> QED
  BY <1>6, <1>7

LEMMA PopInv ==
  ASSUME IInv, cond_incl # <<>>, ~At(CurrentCondIncl, Len(cond_incl)),
         cond_incl' = SubSeq(cond_incl, 1, Len(cond_incl) - 1), saved' = saved, skip' = 0
  PROVE  NestedFiles' /\ LiveGroupsTaken'
<1>1. /\ Len(cond_incl) \in Nat \ {0} /\ Len(cond_incl') = Len(cond_incl) - 1
      /\ \A i \in 1 .. Len(cond_incl) - 1 : cond_incl'[i] = cond_incl[i]
  BY PopProperties DEF IInv, ProgramTypeOK
<1>2. \A k \in 1 .. Len(saved) : ~At(saved[k], Len(cond_incl))
  BY TopIsOwn DEF IInv
<1>3. \A k \in 1 .. Len(saved), i \in Positions :
        /\ At(saved[k], i) => i # Len(cond_incl) /\ i \in Positions' /\ At(saved[k], i)'
        /\ At(saved[k], i)' => At(saved[k], i)
  BY <1>1, <1>2 DEF At, Positions
<1>4. Positions' \subseteq Positions
  BY <1>1 DEF Positions
<1>5. NestedFiles'
  <2>1. \A i, j \in 1 .. Len(cond_incl') : cond_incl'[i].node = cond_incl'[j].node => i = j
    BY <1>1 DEF IInv, NestedFiles
  <2>2. \A k \in 1 .. Len(saved') : \E i \in Positions' : At(saved[k], i)'
    BY <1>3 DEF IInv, NestedFiles
  <2>3. \A j, k \in 1 .. Len(saved'), a, b \in Positions' :
          j <= k /\ At(saved[j], a)' /\ At(saved[k], b)' => a <= b
    BY <1>3, <1>4 DEF IInv, NestedFiles
  <2> QED
    BY <2>1, <2>2, <2>3 DEF IInv, NestedFiles
<1>6. LiveGroupsTaken'
  BY <1>1 DEF IInv, LiveGroupsTaken
<1> QED
  BY <1>5, <1>6

LEMMA IncludeInv ==
  ASSUME IInv, skip = 0, saved' = Append(saved, Ptr), UNCHANGED <<cond_incl, skip>>
  PROVE  NestedFiles' /\ LiveGroupsTaken'
<1>1. Ptr \in Nodes \cup {NULL}
  BY TopEntry DEF IInv, Ptr
<1>2. /\ Len(saved) \in Nat \ {0} /\ Len(saved') = Len(saved) + 1
      /\ \A k \in 1 .. Len(saved) : saved'[k] = saved[k]
      /\ saved'[Len(saved) + 1] = Ptr
  BY <1>1 DEF IInv, ProgramTypeOK
<1>3. Positions' = Positions /\ \A p, i : At(p, i)' <=> At(p, i)
  BY DEF Positions, At
<1>4. /\ Len(cond_incl) \in Positions /\ At(Ptr, Len(cond_incl))
      /\ \A i \in Positions : At(Ptr, i) => i = Len(cond_incl)
  <2>1. CASE cond_incl = <<>>
    BY <2>1 DEF Positions, At, Ptr
  <2>2. CASE cond_incl # <<>>
    <3>1. Len(cond_incl) \in 1 .. Len(cond_incl) /\ Ptr = cond_incl[Len(cond_incl)].node
          /\ Ptr # NULL
      BY <2>2, TopEntry, CondInclAssumption DEF IInv, Ptr, Top
    <3> QED
      BY <3>1 DEF IInv, NestedFiles, Positions, At
  <2> QED
    BY <2>1, <2>2
<1>5. NestedFiles'
  <2>1. saved'[1] = NULL
    BY <1>2 DEF IInv, NestedFiles
  <2>2. \A k \in 1 .. Len(saved') : \E i \in Positions : At(saved'[k], i)
    BY <1>2, <1>4 DEF IInv, NestedFiles
  <2>3. ASSUME NEW j \in 1 .. Len(saved'), NEW k \in 1 .. Len(saved'),
               NEW a \in Positions, NEW b \in Positions,
               j <= k, At(saved'[j], a), At(saved'[k], b)
        PROVE  a <= b
    <3>1. CASE k = Len(saved) + 1
      <4>1. b = Len(cond_incl)
        BY <1>2, <1>4, <2>3, <3>1
      <4> QED
        BY <4>1 DEF Positions
    <3>2. CASE k # Len(saved) + 1
      <4>1. j \in 1 .. Len(saved) /\ k \in 1 .. Len(saved)
        BY <1>2, <2>3, <3>2
      <4> QED
        BY <1>2, <2>3, <4>1 DEF IInv, NestedFiles
    <3> QED
      BY <3>1, <3>2
  <2> QED
    BY <1>3, <2>1, <2>2, <2>3 DEF IInv, NestedFiles
<1>6. LiveGroupsTaken'
  BY DEF IInv, LiveGroupsTaken
<1> QED
  BY <1>5, <1>6

\* A file that ends without an error was not being skipped.
LEMMA EndFileInv ==
  ASSUME IInv, EndFile
  PROVE  NestedFiles' /\ LiveGroupsTaken'
<1>1. CASE Ptr # CurrentCondIncl
  <2>1. UNCHANGED <<cond_incl, saved, skip>>
    BY <1>1 DEF EndFile
  <2> QED
    BY <2>1 DEF IInv, NestedFiles, LiveGroupsTaken, Positions, At, CurrentCondIncl
<1>2. CASE Ptr = CurrentCondIncl
  <2>1. skip = 0
    <3>1. At(Ptr, Len(cond_incl))
      <4>1. CASE cond_incl = <<>>
        BY <4>1 DEF At, Ptr
      <4>2. CASE cond_incl # <<>>
        BY <4>2, TopEntry DEF IInv, Ptr, Top, At
      <4> QED
        BY <4>1, <4>2
    <3> QED
      BY <1>2, <3>1 DEF IInv, NestedFiles, ProgramTypeOK
  <2>2. cond_incl' = cond_incl /\ skip' = 0
    BY <1>2 DEF EndFile
  <2>3. LiveGroupsTaken'
    BY <2>1, <2>2 DEF IInv, LiveGroupsTaken
  <2>4. Len(saved') <= Len(saved) /\ Len(saved') \in Nat /\ 1 <= Len(saved')
        /\ \A k \in 1 .. Len(saved') : saved'[k] = saved[k]
    <3>1. /\ Len(saved) \in Nat \ {0}
          /\ Len(SubSeq(saved, 1, Len(saved) - 1)) = Len(saved) - 1
          /\ \A k \in 1 .. Len(saved) - 1 : SubSeq(saved, 1, Len(saved) - 1)[k] = saved[k]
      BY PopProperties DEF IInv, ProgramTypeOK
    <3>2. CASE Len(saved) = 1
      <4>1. saved' = saved
        BY <1>2, <3>2 DEF EndFile
      <4> QED
        BY <3>2, <4>1
    <3>3. CASE Len(saved) # 1
      <4>1. saved' = SubSeq(saved, 1, Len(saved) - 1)
        BY <1>2, <3>3 DEF EndFile
      <4> QED
        BY <3>1, <3>3, <4>1
    <3> QED
      BY <3>2, <3>3
  <2>5. 1 .. Len(saved') \subseteq 1 .. Len(saved)
    BY <2>4 DEF IInv, ProgramTypeOK
  <2>6. Positions' = Positions /\ \A p, i : At(p, i)' <=> At(p, i)
    BY <2>2 DEF Positions, At
  <2>7. NestedFiles'
    BY <2>2, <2>4, <2>5, <2>6 DEF IInv, NestedFiles
  <2> QED
    BY <2>3, <2>7
<1> QED
  BY <1>1, <1>2

LEMMA MacrosStep ==
  ASSUME BenignLines, IInv, [Next]_vars
  PROVE  PredefinedIntact'
<1>1. CASE UNCHANGED macros
  BY <1>1 DEF IInv, PredefinedIntact
<1>2. ASSUME NEW l \in Lines, Define(l) \/ Undef(l)
      PROVE  PredefinedIntact'
  <2>1. l.op \in {"define", "undef"} /\ l.arg \notin Predefined
    BY <1>2 DEF BenignLines, Define, Undef
  <2>2. \A n \in Predefined : n \in Names /\ n # l.arg
    BY <2>1, CondInclAssumption
  <2>3. macros \in [Names -> Meanings]
    BY DEF IInv, ProgramTypeOK
  <2> QED
    BY <1>2, <2>2, <2>3 DEF Define, Undef, IInv, PredefinedIntact
<1>3. ASSUME NEW l \in Lines, Include(l)
      PROVE  PredefinedIntact'
  BY <1>3, CondInclAssumption DEF Include, init_macros, PredefinedIntact
<1> QED
  BY <1>1, <1>2, <1>3
     DEF Next, vars, EndFile, ReadLine, Text, If, Ifdef, Ifndef, push_cond_incl, error_tok,
         Elif, Else, EnterBranch, Endif, ErrorDirective, SkipNested, SkipNestedEnd, SkipLine

LEMMA InvStep ==
  ASSUME BenignLines, IInv, [Next]_vars
  PROVE  IInv'
<1> SUFFICES NestedFiles' /\ LiveGroupsTaken'
  BY TypeStep, MacrosStep DEF IInv
<1>1. CASE UNCHANGED <<cond_incl, saved, skip>>
  <2>1. \A p, i : At(p, i)' <=> At(p, i)
    BY <1>1 DEF At
  <2>2. CurrentCondIncl' = CurrentCondIncl /\ Positions' = Positions
    BY <1>1 DEF CurrentCondIncl, Positions
  <2>3. NestedFiles'
    BY <1>1, <2>1, <2>2 DEF IInv, NestedFiles
  <2>4. LiveGroupsTaken'
    BY <1>1 DEF IInv, LiveGroupsTaken
  <2> QED
    BY <2>3, <2>4
<1>2. CASE EndFile
  BY <1>2, EndFileInv
<1>3. ASSUME NEW l \in Lines, ReadLine(l)
      PROVE  NestedFiles' /\ LiveGroupsTaken'
  <2>0. /\ Offered(l) /\ skip \in Nat
        /\ skip \in {0, 1} => skip <= 1
    BY <1>3 DEF ReadLine, IInv, ProgramTypeOK
  <2>1. CASE error_tok
    BY <1>1, <2>1 DEF error_tok
  <2>2. CASE Text(l) \/ Define(l) \/ Undef(l) \/ ErrorDirective(l) \/ SkipLine(l)
    <3>1. l.op = "text" => l.arg \notin Branches
      BY DEF BenignLines, PlainText, Branches
    <3>2. UNCHANGED <<cond_incl, saved, skip>>
      BY <2>2, <3>1 DEF Text, Define, Undef, ErrorDirective, error_tok, SkipLine
    <3> QED
      BY <1>1, <3>2
  <2>3. CASE skip = 0 /\ \E included \in BOOLEAN : push_cond_incl(included)
    BY <2>3, PushInv
  <2>4. CASE If(l)
    BY <2>1, <2>3, <2>4 DEF If
  <2>5. CASE Ifdef(l)
    BY <2>3, <2>5 DEF Ifdef
  <2>6. CASE Ifndef(l)
    BY <2>3, <2>6 DEF Ifndef
  <2>7. CASE Elif(l)
    <3>1. CASE cond_incl # <<>> /\ \E taken \in BOOLEAN :
                 EnterBranch("IN_ELIF", Top.included \/ taken, taken)
      <4>1. PICK taken \in BOOLEAN : EnterBranch("IN_ELIF", Top.included \/ taken, taken)
        BY <3>1
      <4>2. Top.included \/ taken \in BOOLEAN
        BY <3>1, TopEntry DEF IInv
      <4>3. l.op \in Branches /\ skip <= 1
        BY <2>0, <2>7 DEF Elif, Branches
      <4> QED
        BY <2>0, <3>1, <4>1, <4>2, <4>3, BranchInv
    <3> QED
      BY <2>1, <2>7, <3>1 DEF Elif, Stray
  <2>8. CASE Else(l)
    <3>1. CASE cond_incl # <<>> /\ EnterBranch("IN_ELSE", Top.included, ~Top.included)
      <4>1. Top.included \in BOOLEAN
        BY <3>1, TopEntry DEF IInv
      <4>2. l.op \in Branches /\ skip <= 1
        BY <2>0, <2>8 DEF Else, Branches
      <4> QED
        BY <2>0, <3>1, <4>1, <4>2, BranchInv
    <3> QED
      BY <2>1, <2>8, <3>1 DEF Else, Stray
  <2>9. CASE Endif(l)
    <3>1. CASE cond_incl # <<>> /\ ~error_tok
      <4>1. ~At(CurrentCondIncl, Len(cond_incl))
        BY <2>0, <2>9, <3>1, OwnBranch DEF Endif, Branches, IInv
      <4> QED
        BY <2>9, <3>1, <4>1, PopInv DEF Endif
    <3> QED
      BY <2>1, <2>9, <3>1 DEF Endif
  <2>10. CASE Include(l)
    BY <2>10, IncludeInv DEF Include
  <2>11. CASE SkipNested(l)
    <3>1. UNCHANGED <<cond_incl, saved>> /\ skip >= 1 /\ skip' >= 1
      BY <2>0, <2>11 DEF SkipNested
    <3> QED
      BY <2>0, <3>1 DEF IInv, NestedFiles, LiveGroupsTaken, Positions, At, CurrentCondIncl
  <2>12. CASE SkipNestedEnd(l)
    <3>1. UNCHANGED <<cond_incl, saved>> /\ skip >= 1 /\ skip' >= 1
      BY <2>0, <2>12 DEF SkipNestedEnd
    <3> QED
      BY <2>0, <3>1 DEF IInv, NestedFiles, LiveGroupsTaken, Positions, At, CurrentCondIncl
  <2> QED
    BY <1>3, <2>2, <2>4, <2>5, <2>6, <2>7, <2>8, <2>9, <2>10, <2>11, <2>12 DEF ReadLine
<1> QED
  BY <1>1, <1>2, <1>3 DEF Next, vars

LEMMA InvariantHolds ==
  ASSUME BenignLines
  PROVE  Spec => []IInv
<1>1. IInv /\ [Next]_vars => IInv'
  BY InvStep
<1> QED
  BY InvInit, <1>1, PTL DEF Spec

(***************************************************************************)
(* If included files keep to their own groups and text lines hold no `#`,  *)
(* the saved pointer of every open file stays on the stack, in file order. *)
(***************************************************************************)
THEOREM NestingCorrect ==
  ASSUME BenignLines
  PROVE  Spec => []NestedFiles
<1>1. IInv => NestedFiles
  BY DEF IInv
<1> QED
  BY InvariantHolds, <1>1, PTL

(***************************************************************************)
(* Under the same condition every group the live text stands in, of this   *)
(* file or of one that includes it, is in a branch that was taken.         *)
(***************************************************************************)
THEOREM LiveTextSelected ==
  ASSUME BenignLines
  PROVE  Spec => []LiveGroupsTaken
<1>1. IInv => LiveGroupsTaken
  BY DEF IInv
<1> QED
  BY InvariantHolds, <1>1, PTL
-----------------------------------------------------------------------------
(* The preprocessor's stack and skipping functions implement CondGroups.   *)

BarGroup == [taken : BOOLEAN, live : BOOLEAN, inElse : BOOLEAN]

LEMMA GroupOfType ==
  ASSUME ProgramTypeOK, NEW i \in 1 .. Len(cond_incl)
  PROVE  GroupOf(i) \in BarGroup
<1>1. cond_incl[i] \in CondInclEntry /\ Len(cond_incl) \in Nat /\ skip \in Nat
  BY DEF ProgramTypeOK
<1>2. (cond_incl[i].included \/ cond_incl[i].ctx = "IN_ELSE") \in BOOLEAN
  BY <1>1 DEF CondInclEntry
<1>3. (i < Len(cond_incl) \/ skip = 0) \in BOOLEAN
  OBVIOUS
<1> QED
  BY <1>2, <1>3 DEF GroupOf, BarGroup

LEMMA GroupOfFields ==
  ASSUME NEW i
  PROVE  /\ GroupOf(i).live = (i < Len(cond_incl) \/ skip = 0)
         /\ GroupOf(i).inElse = (cond_incl[i].ctx = "IN_ELSE")
         /\ GroupOf(i).taken = (cond_incl[i].included \/ cond_incl[i].ctx = "IN_ELSE")
BY Zenon DEF GroupOf

BarFacts ==
  /\ OpenGroups \in Nat /\ Len(cond_incl) \in Nat
  /\ Len(cond_incl) <= OpenGroups
  /\ skip <= 1 => OpenGroups = Len(cond_incl)
  /\ groupsBar \in Seq(BarGroup)
  /\ Len(groupsBar) = OpenGroups
  /\ \A i \in 1 .. Len(cond_incl) : groupsBar[i] = GroupOf(i)
  /\ \A i \in Len(cond_incl) + 1 .. OpenGroups : groupsBar[i] = DeadGroup

LEMMA Bar == ProgramTypeOK => BarFacts
<1> SUFFICES ASSUME ProgramTypeOK PROVE BarFacts
  OBVIOUS
<1>1. Len(cond_incl) \in Nat /\ skip \in Nat
  BY DEF ProgramTypeOK
<1>2. /\ OpenGroups \in Nat /\ Len(cond_incl) <= OpenGroups
      /\ skip <= 1 => OpenGroups = Len(cond_incl)
  BY <1>1 DEF OpenGroups
<1>3. DeadGroup \in BarGroup
  BY DEF DeadGroup, BarGroup
<1>4. groupsBar \in [1 .. OpenGroups -> BarGroup]
  BY <1>1, <1>2, <1>3, GroupOfType DEF groupsBar
<1>5. groupsBar \in Seq(BarGroup) /\ Len(groupsBar) = OpenGroups
  BY <1>2, <1>4, FunctionIsSeq
<1>6. \A i \in 1 .. Len(cond_incl) : groupsBar[i] = GroupOf(i)
  BY <1>1, <1>2 DEF groupsBar
<1>7. \A i \in Len(cond_incl) + 1 .. OpenGroups : groupsBar[i] = DeadGroup
  BY <1>1, <1>2 DEF groupsBar
<1> QED
  BY <1>1, <1>2, <1>5, <1>6, <1>7 DEF BarFacts

LEMMA BarPrime == ProgramTypeOK' => BarFacts'
BY Bar, PTL

\* A skipped group is on the stack.
LEMMA SkippingInside ==
  ASSUME ProgramTypeOK, NestedFiles, skip >= 1
  PROVE  cond_incl # <<>>
<1> SUFFICES ASSUME cond_incl = <<>> PROVE FALSE
  OBVIOUS
<1>1. Len(saved) \in 1 .. Len(saved) /\ Positions = {0} /\ Len(cond_incl) = 0
  BY DEF ProgramTypeOK, Positions
<1>2. At(CurrentCondIncl, 0)
  BY <1>1 DEF NestedFiles, CurrentCondIncl
<1> QED
  BY <1>1, <1>2 DEF NestedFiles

\* Everything is live outside the skipping functions, and nothing is inside them.
LEMMA LiveIff ==
  ASSUME ProgramTypeOK, NestedFiles
  PROVE  /\ Groups!AllLive <=> skip = 0
         /\ Groups!OuterLive <=> skip <= 1
<1>1. \A i \in 1 .. Len(cond_incl) :
        groupsBar[i].live <=> i < Len(cond_incl) \/ skip = 0
  BY Bar, GroupOfFields DEF BarFacts
<1>2. Len(cond_incl) \in Nat /\ skip \in Nat
  BY DEF ProgramTypeOK
<1>3. CASE skip = 0
  <2>1. Len(groupsBar) = Len(cond_incl)
    BY <1>2, <1>3, Bar DEF BarFacts
  <2> QED
    BY <1>1, <1>2, <1>3, <2>1 DEF Groups!AllLive, Groups!OuterLive
<1>4. CASE skip = 1
  <2>1. Len(cond_incl) \in 1 .. Len(cond_incl)
    BY <1>4, SkippingInside, TopEntry
  <2>2. Len(groupsBar) = Len(cond_incl)
    BY <1>2, <1>4, Bar DEF BarFacts
  <2> QED
    BY <1>1, <1>2, <1>4, <2>1, <2>2 DEF Groups!AllLive, Groups!OuterLive
<1>5. CASE skip >= 2
  <2>1. Len(cond_incl) \in 1 .. Len(cond_incl)
    BY <1>2, <1>5, SkippingInside, TopEntry
  <2>2. Len(groupsBar) = Len(cond_incl) + skip - 1
    BY <1>2, <1>5, Bar DEF BarFacts, OpenGroups
  <2>3. Len(cond_incl) \in 1 .. Len(groupsBar) - 1
    BY <1>2, <1>5, <2>1, <2>2
  <2>4. ~groupsBar[Len(cond_incl)].live
    BY <1>1, <1>2, <1>5, <2>1
  <2> QED
    BY <1>2, <1>5, <2>3, <2>4 DEF Groups!AllLive, Groups!OuterLive
<1> QED
  BY <1>2, <1>3, <1>4, <1>5

\* The depth of a saved pointer is where its entry stands.
DepthFact ==
  \A k \in 1 .. Len(saved), i \in Positions : At(saved[k], i) => Depth(saved[k]) = i

LEMMA DepthIs == ProgramTypeOK /\ NestedFiles => DepthFact
<1> SUFFICES ASSUME ProgramTypeOK, NestedFiles, NEW k \in 1 .. Len(saved),
                    NEW i \in Positions, At(saved[k], i)
             PROVE  Depth(saved[k]) = i
  BY DEF DepthFact
<1>1. Depth(saved[k]) \in Positions /\ At(saved[k], Depth(saved[k]))
  BY DEF Depth
<1>2. k <= k
  BY DEF ProgramTypeOK
<1>3. i <= Depth(saved[k]) /\ Depth(saved[k]) <= i
  BY <1>1, <1>2 DEF NestedFiles
<1> QED
  BY <1>1, <1>3 DEF Positions, ProgramTypeOK

LEMMA BaseBar ==
  ASSUME ProgramTypeOK
  PROVE  /\ Len(saved) \in Nat \ {0}
         /\ Len(baseBar) = Len(saved)
         /\ \A k \in 1 .. Len(saved) : baseBar[k] = Depth(saved[k])
<1>1. Len(saved) \in Nat \ {0}
  BY DEF ProgramTypeOK
<1>2. baseBar \in [1 .. Len(saved) -> {Depth(saved[k]) : k \in 1 .. Len(saved)}]
  BY DEF baseBar
<1>3. Len(baseBar) = Len(saved)
  BY <1>1, <1>2, FunctionIsSeq
<1> QED
  BY <1>1, <1>3 DEF baseBar

LEMMA DepthIsPrime == ProgramTypeOK' /\ NestedFiles' => DepthFact'
BY DepthIs, PTL

\* A step that keeps the entries both stacks have leaves the saved depths alone.
LEMMA BaseSame ==
  ASSUME IInv, IInv', saved' = saved,
         \A i \in 1 .. Len(cond_incl) :
           i <= Len(cond_incl') => cond_incl'[i].node = cond_incl[i].node
  PROVE  baseBar' = baseBar
<1>1. Len(cond_incl) \in Nat /\ Len(cond_incl') \in Nat
  BY DEF IInv, ProgramTypeOK
<1>2. ASSUME NEW k \in 1 .. Len(saved) PROVE Depth(saved[k])' = Depth(saved[k])
  <2>1. PICK i \in Positions : At(saved[k], i)
    BY DEF IInv, NestedFiles
  <2>2. PICK j \in Positions' : At(saved[k], j)'
    BY DEF IInv, NestedFiles
  <2>3. Depth(saved[k]) = i /\ Depth(saved[k])' = j
    BY <2>1, <2>2, DepthIs, DepthIsPrime DEF IInv, DepthFact
  <2>4. CASE Len(cond_incl) <= Len(cond_incl')
    <3>1. i \in Positions' /\ At(saved[k], i)'
      BY <1>1, <2>1, <2>4 DEF Positions, At
    <3> QED
      BY <2>3, <3>1, DepthIsPrime DEF IInv, DepthFact
  <2>5. CASE Len(cond_incl') <= Len(cond_incl)
    <3>1. j \in Positions /\ At(saved[k], j)
      BY <1>1, <2>2, <2>5 DEF Positions, At
    <3> QED
      BY <2>3, <3>1, DepthIs DEF IInv, DepthFact
  <2> QED
    BY <1>1, <2>4, <2>5
<1> QED
  BY <1>2 DEF baseBar

LEMMA PtrPosition ==
  ASSUME ProgramTypeOK, NestedFiles
  PROVE  /\ Len(cond_incl) \in Positions /\ At(Ptr, Len(cond_incl))
         /\ \A i \in Positions : At(Ptr, i) => i = Len(cond_incl)
<1>1. CASE cond_incl = <<>>
  BY <1>1 DEF Positions, At, Ptr
<1>2. CASE cond_incl # <<>>
  <2>1. Len(cond_incl) \in 1 .. Len(cond_incl) /\ Ptr = cond_incl[Len(cond_incl)].node
        /\ Ptr # NULL
    BY <1>2, TopEntry, CondInclAssumption DEF Ptr, Top
  <2> QED
    BY <2>1 DEF NestedFiles, Positions, At
<1> QED
  BY <1>1, <1>2

\* preprocess()'s comparison of pointers asks whether the file left a group open.
LEMMA OwnGroup ==
  ASSUME IInv
  PROVE  /\ Ptr # CurrentCondIncl <=> Groups!HasOwnGroup
         /\ Ptr = CurrentCondIncl => skip = 0
         /\ cond_incl = <<>> => Ptr = CurrentCondIncl
<1>1. Len(saved) \in 1 .. Len(saved) /\ skip \in Nat /\ Len(cond_incl) \in Nat
  BY DEF IInv, ProgramTypeOK
<1>2. PICK b \in Positions : At(CurrentCondIncl, b)
  BY <1>1 DEF IInv, NestedFiles, CurrentCondIncl
<1>3. baseBar[Len(baseBar)] = b
  BY <1>1, <1>2, BaseBar, DepthIs DEF IInv, DepthFact, CurrentCondIncl
<1>4. Len(groupsBar) = OpenGroups /\ Len(cond_incl) <= OpenGroups /\ OpenGroups \in Nat
      /\ (skip <= 1 => OpenGroups = Len(cond_incl))
  BY Bar DEF IInv, BarFacts
<1>5. /\ Len(cond_incl) \in Positions /\ At(Ptr, Len(cond_incl))
      /\ \A i \in Positions : At(Ptr, i) => i = Len(cond_incl)
  BY PtrPosition DEF IInv
<1>6. CASE Ptr = CurrentCondIncl
  <2>1. skip = 0
    BY <1>1, <1>5, <1>6 DEF IInv, NestedFiles
  <2>2. b = Len(cond_incl)
    BY <1>2, <1>5, <1>6
  <2> QED
    BY <1>1, <1>3, <1>4, <1>6, <2>1, <2>2 DEF Groups!HasOwnGroup
<1>7. CASE Ptr # CurrentCondIncl
  <2>1. b # Len(cond_incl)
    BY <1>1, <1>2, <1>5, <1>7 DEF At, Ptr, Top
  <2>2. b < Len(cond_incl)
    BY <1>1, <2>1 DEF Positions
  <2>3. cond_incl # <<>>
    BY <1>1, <2>2 DEF Positions
  <2> QED
    BY <1>1, <1>3, <1>4, <1>7, <2>2, <2>3 DEF Groups!HasOwnGroup, Positions
<1> QED
  BY <1>6, <1>7

LEMMA BarsSame ==
  ASSUME UNCHANGED <<cond_incl, saved, skip>>
  PROVE  groupsBar' = groupsBar /\ baseBar' = baseBar
<1>1. \A p, i : At(p, i)' <=> At(p, i)
  BY DEF At
<1>2. \A p : Depth(p)' = Depth(p)
  BY <1>1 DEF Depth, Positions
<1>3. OpenGroups' = OpenGroups /\ \A i : GroupOf(i)' = GroupOf(i)
  BY DEF OpenGroups, GroupOf
<1> QED
  BY <1>2, <1>3 DEF groupsBar, baseBar

LEMMA ErrorStep ==
  ASSUME IInv, error_tok
  PROVE  Groups!Fail
BY BarsSame DEF error_tok, Groups!Fail

LEMMA PushStep ==
  ASSUME IInv, IInv', skip = 0, NEW l \in Lines, l.op \in Openers, ~Groups!IllFormed(l),
         NEW included \in BOOLEAN, included = Groups!Holds(l), push_cond_incl(included)
  PROVE  Groups!AbsOpen(l)
<1> DEFINE e == [node |-> Fresh, ctx |-> "IN_THEN", included |-> included]
           g == [taken |-> included, live |-> included, inElse |-> FALSE]
<1>1. e \in CondInclEntry /\ g \in BarGroup
  BY FreshNode DEF push_cond_incl, CondInclEntry, BarGroup
<1>2. /\ cond_incl' = Append(cond_incl, e) /\ saved' = saved
      /\ skip' = IF included THEN 0 ELSE 1
      /\ UNCHANGED <<macros, status>> /\ kept' = FALSE
  BY DEF push_cond_incl
<1>3. /\ e.included = included /\ e.ctx = "IN_THEN"
      /\ g.taken = included /\ g.live = included /\ g.inElse = FALSE
  OBVIOUS
<1> HIDE DEF e
<1>4. /\ Len(cond_incl) \in Nat /\ Len(cond_incl') = Len(cond_incl) + 1
      /\ \A i \in 1 .. Len(cond_incl) : cond_incl'[i] = cond_incl[i]
      /\ cond_incl'[Len(cond_incl) + 1] = e
  BY <1>1, <1>2 DEF IInv, ProgramTypeOK
<1>5. BarFacts /\ BarFacts'
  BY Bar, BarPrime DEF IInv
<1>6. /\ Len(groupsBar) = Len(cond_incl)
      /\ Len(groupsBar') = Len(cond_incl) + 1
  BY <1>2, <1>4, <1>5 DEF BarFacts
<1>7. \A i \in 1 .. Len(cond_incl) : groupsBar'[i] = groupsBar[i]
  <2> SUFFICES ASSUME NEW i \in 1 .. Len(cond_incl) PROVE GroupOf(i)' = GroupOf(i)
    BY <1>4, <1>5 DEF BarFacts
  <2>1. (i < Len(cond_incl') \/ skip' = 0) = (i < Len(cond_incl) \/ skip = 0)
    BY <1>4
  <2> QED
    BY <1>4, <2>1 DEF GroupOf
<1>8. groupsBar'[Len(cond_incl) + 1] = g
  <2> SUFFICES ASSUME NEW i, i = Len(cond_incl) + 1 PROVE groupsBar'[i] = g
    OBVIOUS
  <2>1. groupsBar'[i] = GroupOf(i)'
    <3>1. i \in 1 .. Len(cond_incl')
      BY <1>4
    <3> QED
      BY <1>5, <3>1 DEF BarFacts
  <2>2. (i < Len(cond_incl') \/ skip' = 0) = included
    BY <1>2, <1>4
  <2>3. (cond_incl'[i].included \/ cond_incl'[i].ctx = "IN_ELSE") = included
    BY <1>3, <1>4
  <2>4. (cond_incl'[i].ctx = "IN_ELSE") = FALSE
    BY <1>3, <1>4
  <2> QED
    BY <2>1, <2>2, <2>3, <2>4, Zenon DEF GroupOf
<1> HIDE DEF g
<1>9. groupsBar' = Append(groupsBar, g)
  BY <1>1, <1>5, <1>6, <1>7, <1>8, AppendIs DEF BarFacts
<1>10. baseBar' = baseBar
  BY <1>2, <1>4, BaseSame
<1>11. Groups!AllLive
  BY LiveIff DEF IInv
<1> QED
  BY <1>2, <1>9, <1>10, <1>11 DEF g, Groups!AbsOpen, Openers

LEMMA BranchStep ==
  ASSUME IInv, IInv', skip <= 1, cond_incl # <<>>, Groups!HasOwnGroup,
         Top.ctx # "IN_ELSE", NEW l \in Lines, l.op \in {"elif", "else"},
         Top.included \/ ~Groups!IllFormed(l),
         NEW c, c = (IF l.op = "else" THEN "IN_ELSE" ELSE "IN_ELIF"),
         NEW holds \in BOOLEAN, holds = Groups!Holds(l),
         NEW included \in BOOLEAN, NEW read \in BOOLEAN,
         included = (Top.included \/ (holds /\ c = "IN_ELIF")),
         read = (~Top.included /\ holds),
         EnterBranch(c, included, read)
  PROVE  Groups!AbsBranch(l)
<1> DEFINE n == Len(cond_incl)
           e == [Top EXCEPT !.ctx = c, !.included = included]
           t == groupsBar[Len(groupsBar)]
           g == [taken |-> t.taken \/ (~t.taken /\ holds) \/ c = "IN_ELSE",
                 live |-> ~t.taken /\ holds, inElse |-> c = "IN_ELSE"]
<1>1. n \in 1 .. n /\ n \in Nat /\ Top \in CondInclEntry /\ Top.included \in BOOLEAN
  BY TopEntry DEF IInv, ProgramTypeOK
<1>2. e.node = Top.node /\ e.ctx = c /\ e.included = included
  BY <1>1 DEF CondInclEntry
<1>3. /\ cond_incl' = [cond_incl EXCEPT ![n] = e] /\ saved' = saved
      /\ skip' = IF read THEN 0 ELSE 1
      /\ UNCHANGED <<macros, status>> /\ kept' = FALSE
  BY DEF EnterBranch, Top
<1> HIDE DEF e
<1>4. /\ Len(cond_incl') = n
      /\ \A i \in 1 .. n : cond_incl'[i] = IF i = n THEN e ELSE cond_incl[i]
  BY <1>1, <1>3 DEF IInv, ProgramTypeOK
<1>5. BarFacts /\ BarFacts'
  BY Bar, BarPrime DEF IInv
<1>6. Len(groupsBar) = n /\ Len(groupsBar') = n
  <2>1. skip' <= 1
    BY <1>3
  <2> QED
    BY <1>4, <1>5, <2>1 DEF BarFacts
<1>7. t = GroupOf(n) /\ t.taken = Top.included /\ t.inElse = FALSE
  <2>1. t = GroupOf(n)
    BY <1>1, <1>5, <1>6 DEF BarFacts
  <2>2. (cond_incl[n].included \/ cond_incl[n].ctx = "IN_ELSE") = Top.included
    BY <1>1 DEF Top
  <2>3. (cond_incl[n].ctx = "IN_ELSE") = FALSE
    BY DEF Top
  <2> QED
    BY <2>1, <2>2, <2>3, GroupOfFields, Zenon
<1> HIDE DEF t
<1>8. \A i \in 1 .. n - 1 : groupsBar'[i] = groupsBar[i]
  <2> SUFFICES ASSUME NEW i \in 1 .. n - 1 PROVE GroupOf(i)' = GroupOf(i)
    BY <1>1, <1>4, <1>5 DEF BarFacts
  <2>1. (i < Len(cond_incl') \/ skip' = 0) = (i < Len(cond_incl) \/ skip = 0)
    BY <1>1, <1>4
  <2>2. cond_incl'[i] = cond_incl[i]
    BY <1>1, <1>4
  <2> QED
    BY <2>1, <2>2 DEF GroupOf
<1>9. groupsBar'[n] = g
  <2> SUFFICES ASSUME NEW i, i = n PROVE groupsBar'[i] = g
    OBVIOUS
  <2>1. groupsBar'[i] = GroupOf(i)'
    BY <1>1, <1>4, <1>5 DEF BarFacts
  <2>2. (i < Len(cond_incl') \/ skip' = 0) = (~t.taken /\ holds)
    <3>1. ~(i < Len(cond_incl'))
      BY <1>1, <1>4
    <3>2. skip' = 0 <=> read
      BY <1>3
    <3>3. read <=> ~t.taken /\ holds
      BY <1>7
    <3> QED
      BY <3>1, <3>2, <3>3
  <2>3. (cond_incl'[i].included \/ cond_incl'[i].ctx = "IN_ELSE")
          = (t.taken \/ (~t.taken /\ holds) \/ c = "IN_ELSE")
    BY <1>1, <1>2, <1>4, <1>7
  <2>4. (cond_incl'[i].ctx = "IN_ELSE") = (c = "IN_ELSE")
    BY <1>1, <1>2, <1>4
  <2> QED
    BY <2>1, <2>2, <2>3, <2>4, Zenon DEF GroupOf
<1>10. g \in BarGroup
  <2>1. /\ (t.taken \/ (~t.taken /\ holds) \/ c = "IN_ELSE") \in BOOLEAN
        /\ (~t.taken /\ holds) \in BOOLEAN /\ (c = "IN_ELSE") \in BOOLEAN
    OBVIOUS
  <2> QED
    BY <2>1 DEF BarGroup
<1> HIDE DEF g
<1>11. groupsBar' = [groupsBar EXCEPT ![Len(groupsBar)] = g]
  <2> DEFINE h == [groupsBar EXCEPT ![n] = g]
  <2>1. h \in Seq(BarGroup) /\ Len(h) = n /\ \A i \in 1 .. n : h[i] = groupsBar'[i]
    BY <1>1, <1>5, <1>6, <1>8, <1>9, <1>10 DEF BarFacts
  <2> HIDE DEF h
  <2>2. groupsBar' = h
    BY <1>5, <1>6, <2>1, SeqEqual DEF BarFacts
  <2> QED
    BY <1>6, <2>2 DEF h
<1>12. baseBar' = baseBar
  BY <1>1, <1>2, <1>3, <1>4, BaseSame DEF Top
<1>13. Groups!OuterLive
  BY LiveIff DEF IInv
<1>14. (c = "IN_ELSE") = (l.op = "else")
  OBVIOUS
<1> QED
  BY <1>3, <1>7, <1>11, <1>12, <1>13, <1>14 DEF g, t, Groups!AbsBranch

LEMMA PopStep ==
  ASSUME IInv, IInv', cond_incl # <<>>, skip <= 1, Groups!HasOwnGroup,
         NEW l \in Lines, l.op = "endif",
         cond_incl' = SubSeq(cond_incl, 1, Len(cond_incl) - 1), saved' = saved,
         skip' = 0, kept' = FALSE, UNCHANGED <<macros, status>>
  PROVE  Groups!AbsClose(l)
<1>1. /\ Len(cond_incl) \in Nat \ {0} /\ Len(cond_incl') = Len(cond_incl) - 1
      /\ \A i \in 1 .. Len(cond_incl) - 1 : cond_incl'[i] = cond_incl[i]
  BY PopProperties DEF IInv, ProgramTypeOK
<1>2. BarFacts /\ BarFacts'
  BY Bar, BarPrime DEF IInv
<1>3. Len(groupsBar) = Len(cond_incl) /\ Len(groupsBar') = Len(cond_incl) - 1
  BY <1>1, <1>2 DEF BarFacts
<1>4. \A i \in 1 .. Len(cond_incl) - 1 : groupsBar'[i] = groupsBar[i]
  <2> SUFFICES ASSUME NEW i \in 1 .. Len(cond_incl) - 1 PROVE GroupOf(i)' = GroupOf(i)
    BY <1>1, <1>2 DEF BarFacts
  <2>1. (i < Len(cond_incl') \/ skip' = 0) = (i < Len(cond_incl) \/ skip = 0)
    BY <1>1
  <2> QED
    BY <1>1, <2>1 DEF GroupOf
<1>5. groupsBar' = SubSeq(groupsBar, 1, Len(groupsBar) - 1)
  <2> DEFINE h == SubSeq(groupsBar, 1, Len(groupsBar) - 1)
  <2>1. groupsBar # <<>>
    BY <1>1, <1>3
  <2>2. /\ h \in Seq(BarGroup) /\ Len(h) = Len(cond_incl) - 1
        /\ \A i \in 1 .. Len(cond_incl) - 1 : h[i] = groupsBar[i]
    BY <1>2, <1>3, <2>1, PopProperties DEF BarFacts
  <2> HIDE DEF h
  <2>3. groupsBar' = h
    BY <1>2, <1>3, <1>4, <2>2, SeqEqual DEF BarFacts
  <2> QED
    BY <2>3 DEF h
<1>6. baseBar' = baseBar
  BY <1>1, BaseSame
<1> QED
  BY <1>5, <1>6 DEF Groups!AbsClose

LEMMA NestStep ==
  ASSUME IInv, IInv', skip >= 1, skip' = skip + 1, kept' = FALSE,
         NEW l \in Lines, l.op \in Openers,
         UNCHANGED <<cond_incl, saved, macros, status>>
  PROVE  Groups!AbsOpen(l)
<1>1. Len(cond_incl) \in Nat /\ skip \in Nat /\ DeadGroup \in BarGroup
  BY DEF IInv, ProgramTypeOK, DeadGroup, BarGroup
<1>2. BarFacts /\ BarFacts'
  BY Bar, BarPrime DEF IInv
<1>3. OpenGroups = Len(cond_incl) + skip - 1 /\ OpenGroups' = Len(cond_incl) + skip
  BY <1>1 DEF OpenGroups
<1>4. \A i \in 1 .. OpenGroups : groupsBar'[i] = groupsBar[i]
  <2>1. \A i : GroupOf(i)' = GroupOf(i)
    <3>1. \A i : (i < Len(cond_incl') \/ skip' = 0) = (i < Len(cond_incl) \/ skip = 0)
      BY <1>1
    <3> QED
      BY <3>1 DEF GroupOf
  <2> SUFFICES ASSUME NEW i \in 1 .. OpenGroups PROVE groupsBar'[i] = groupsBar[i]
    OBVIOUS
  <2>2. CASE i \in 1 .. Len(cond_incl)
    BY <1>2, <2>1, <2>2 DEF BarFacts
  <2>3. CASE i \in Len(cond_incl) + 1 .. OpenGroups
    <3>1. groupsBar[i] = DeadGroup
      BY <1>1, <1>2, <1>3, <2>3 DEF BarFacts
    <3>2. groupsBar'[i] = DeadGroup'
      BY <1>1, <1>2, <1>3, <2>3 DEF BarFacts
    <3> QED
      BY <3>1, <3>2 DEF DeadGroup
  <2> QED
    BY <1>1, <1>3, <2>2, <2>3
<1>5. groupsBar'[OpenGroups + 1] = DeadGroup
  <2>1. OpenGroups + 1 \in Len(cond_incl') + 1 .. OpenGroups'
    BY <1>1, <1>3
  <2> QED
    BY <1>2, <2>1 DEF BarFacts, DeadGroup
<1>6. groupsBar' = Append(groupsBar, DeadGroup)
  BY <1>1, <1>2, <1>3, <1>4, <1>5, AppendIs DEF BarFacts
<1>7. baseBar' = baseBar
  BY BaseSame
<1>8. ~Groups!AllLive
  BY LiveIff DEF IInv
<1> QED
  BY <1>6, <1>7, <1>8 DEF Groups!AbsOpen, DeadGroup, Openers

LEMMA UnnestStep ==
  ASSUME IInv, IInv', skip >= 2, skip' = skip - 1, kept' = FALSE,
         NEW l \in Lines, l.op = "endif",
         UNCHANGED <<cond_incl, saved, macros, status>>
  PROVE  Groups!AbsClose(l)
<1>1. Len(cond_incl) \in Nat /\ skip \in Nat
  BY DEF IInv, ProgramTypeOK
<1>2. BarFacts /\ BarFacts'
  BY Bar, BarPrime DEF IInv
<1>3. OpenGroups = Len(cond_incl) + skip - 1 /\ OpenGroups' = Len(cond_incl) + skip - 2
  BY <1>1 DEF OpenGroups
<1>4. \A i \in 1 .. OpenGroups' : groupsBar'[i] = groupsBar[i]
  <2>1. \A i : GroupOf(i)' = GroupOf(i)
    <3>1. \A i : (i < Len(cond_incl') \/ skip' = 0) = (i < Len(cond_incl) \/ skip = 0)
      BY <1>1
    <3> QED
      BY <3>1 DEF GroupOf
  <2> SUFFICES ASSUME NEW i \in 1 .. OpenGroups' PROVE groupsBar'[i] = groupsBar[i]
    OBVIOUS
  <2>2. CASE i \in 1 .. Len(cond_incl)
    BY <1>2, <2>1, <2>2 DEF BarFacts
  <2>3. CASE i \in Len(cond_incl) + 1 .. OpenGroups'
    <3>1. groupsBar[i] = DeadGroup
      BY <1>1, <1>2, <1>3, <2>3 DEF BarFacts
    <3>2. groupsBar'[i] = DeadGroup'
      BY <1>1, <1>2, <1>3, <2>3 DEF BarFacts
    <3> QED
      BY <3>1, <3>2 DEF DeadGroup
  <2> QED
    BY <1>1, <1>3, <2>2, <2>3
<1>5. groupsBar' = SubSeq(groupsBar, 1, Len(groupsBar) - 1)
  <2> DEFINE h == SubSeq(groupsBar, 1, Len(groupsBar) - 1)
  <2>1. groupsBar # <<>>
    BY <1>1, <1>2, <1>3 DEF BarFacts
  <2>2. /\ h \in Seq(BarGroup) /\ Len(h) = OpenGroups'
        /\ \A i \in 1 .. OpenGroups' : h[i] = groupsBar[i]
    BY <1>1, <1>2, <1>3, <2>1, PopProperties DEF BarFacts
  <2> HIDE DEF h
  <2>3. groupsBar' = h
    BY <1>2, <1>4, <2>2, SeqEqual DEF BarFacts
  <2> QED
    BY <2>3 DEF h
<1>6. baseBar' = baseBar
  BY BaseSame
<1>7. Groups!HasOwnGroup
  BY OwnGroup DEF IInv, ProgramTypeOK
<1> QED
  BY <1>5, <1>6, <1>7 DEF Groups!AbsClose

LEMMA IncludeStep ==
  ASSUME IInv, NEW l \in Lines, Include(l)
  PROVE  Groups!AbsInclude(l)
<1>1. Ptr \in Nodes \cup {NULL}
  BY TopEntry DEF IInv, Ptr
<1>2. /\ Len(saved) \in Nat \ {0} /\ Len(saved') = Len(saved) + 1
      /\ \A k \in 1 .. Len(saved) : saved'[k] = saved[k]
      /\ saved'[Len(saved) + 1] = Ptr
  BY <1>1 DEF IInv, ProgramTypeOK, Include
<1>3. UNCHANGED <<cond_incl, skip, status>> /\ skip = 0 /\ kept' = TRUE /\ l.op = "include"
  BY DEF Include
<1>4. \A p : Depth(p)' = Depth(p)
  <2>1. \A p, i : At(p, i)' <=> At(p, i)
    BY <1>3 DEF At
  <2> QED
    BY <1>3, <2>1 DEF Depth, Positions
<1>5. groupsBar' = groupsBar
  <2>1. OpenGroups' = OpenGroups /\ \A i : GroupOf(i)' = GroupOf(i)
    BY <1>3 DEF OpenGroups, GroupOf
  <2> QED
    BY <1>3, <2>1 DEF groupsBar
<1>6. Depth(Ptr) = Len(groupsBar)
  <2>1. Depth(Ptr) \in Positions /\ At(Ptr, Depth(Ptr))
    BY PtrPosition DEF IInv, Depth
  <2>2. Depth(Ptr) = Len(cond_incl)
    BY <2>1, PtrPosition DEF IInv
  <2> QED
    BY <1>3, <2>2, Bar DEF IInv, BarFacts
<1>7. baseBar' = Append(baseBar, Len(groupsBar))
  <2> DEFINE D == {Depth(saved[k]) : k \in 1 .. Len(saved)} \cup {Len(groupsBar)}
  <2>1. /\ baseBar \in [1 .. Len(saved) -> D]
        /\ baseBar' \in [1 .. Len(saved) + 1 -> D]
        /\ \A k \in 1 .. Len(saved) : baseBar'[k] = baseBar[k]
        /\ baseBar'[Len(saved) + 1] = Len(groupsBar)
    BY <1>2, <1>4, <1>6 DEF baseBar
  <2>2. Len(groupsBar) \in D
    OBVIOUS
  <2> HIDE DEF D
  <2>3. /\ baseBar \in Seq(D) /\ Len(baseBar) = Len(saved)
        /\ baseBar' \in Seq(D) /\ Len(baseBar') = Len(saved) + 1
    BY <1>2, <2>1, FunctionIsSeq
  <2> QED
    BY <1>2, <2>1, <2>2, <2>3, AppendIs
<1>8. macros' = macros
  <2>1. macros \in [Names -> Meanings] /\ PredefinedIntact
    BY DEF IInv, ProgramTypeOK
  <2> QED
    BY <2>1 DEF Include, init_macros, PredefinedIntact
<1>9. Groups!AllLive
  BY <1>3, LiveIff DEF IInv
<1> QED
  BY <1>3, <1>5, <1>7, <1>8, <1>9 DEF Groups!AbsInclude

LEMMA EndFileStep ==
  ASSUME IInv, EndFile
  PROVE  Groups!AbsEndFile
<1>1. CASE Ptr # CurrentCondIncl
  <2>1. cond_incl # <<>>
    BY <1>1, OwnGroup
  <2>2. error_tok
    BY <1>1, <2>1 DEF EndFile, error_tok
  <2> QED
    BY <1>1, <2>2, OwnGroup, ErrorStep DEF Groups!AbsEndFile
<1>2. CASE Ptr = CurrentCondIncl
  <2>1. skip = 0 /\ skip' = 0 /\ UNCHANGED <<cond_incl, macros>> /\ kept' = FALSE
    BY <1>2, OwnGroup DEF EndFile
  <2>2. ~Groups!HasOwnGroup
    BY <1>2, OwnGroup
  <2>3. groupsBar' = groupsBar
    <3>1. OpenGroups' = OpenGroups /\ \A i : GroupOf(i)' = GroupOf(i)
      BY <2>1 DEF OpenGroups, GroupOf
    <3> QED
      BY <2>1, <3>1 DEF groupsBar
  <2>4. Len(saved) \in Nat \ {0} /\ Len(baseBar) = Len(saved)
        /\ \A k \in 1 .. Len(saved) : baseBar[k] = Depth(saved[k])
    BY BaseBar DEF IInv
  <2>5. CASE Len(saved) = 1
    <3>1. saved' = saved /\ status' = "done"
      BY <1>2, <2>5 DEF EndFile
    <3>2. baseBar' = baseBar
      BY <2>1, <3>1, BarsSame
    <3> QED
      BY <2>1, <2>2, <2>3, <2>4, <2>5, <3>1, <3>2 DEF Groups!AbsEndFile
  <2>6. CASE Len(saved) # 1
    <3>1. saved' = SubSeq(saved, 1, Len(saved) - 1) /\ status' = status
      BY <1>2, <2>6 DEF EndFile
    <3>2. /\ Len(saved') = Len(saved) - 1
          /\ \A k \in 1 .. Len(saved) - 1 : saved'[k] = saved[k]
      BY <3>1, PopProperties DEF IInv, ProgramTypeOK
    <3>3. \A p : Depth(p)' = Depth(p)
      <4>1. \A p, i : At(p, i)' <=> At(p, i)
        BY <2>1 DEF At
      <4> QED
        BY <2>1, <4>1 DEF Depth, Positions
    <3>4. baseBar' = SubSeq(baseBar, 1, Len(baseBar) - 1)
      <4> DEFINE D == {Depth(saved[k]) : k \in 1 .. Len(saved)}
                 h == SubSeq(baseBar, 1, Len(baseBar) - 1)
      <4>1. /\ baseBar \in [1 .. Len(saved) -> D]
            /\ baseBar' \in [1 .. Len(saved) - 1 -> D]
            /\ \A k \in 1 .. Len(saved) - 1 : baseBar'[k] = baseBar[k]
        BY <2>4, <3>2, <3>3 DEF baseBar
      <4> HIDE DEF D
      <4>2. /\ baseBar \in Seq(D)
            /\ baseBar' \in Seq(D) /\ Len(baseBar') = Len(saved) - 1
        <5>1. Len(saved) \in Nat /\ Len(saved) - 1 \in Nat
          BY <2>4
        <5>2. baseBar \in Seq(D)
          BY <4>1, <5>1, FunctionIsSeq
        <5>3. baseBar' \in Seq(D) /\ Len(baseBar') = Len(saved) - 1
          BY <4>1, <5>1, FunctionIsSeq
        <5> QED
          BY <5>2, <5>3
      <4>3. baseBar # <<>>
        BY <2>4
      <4>4. /\ h \in Seq(D) /\ Len(h) = Len(saved) - 1
            /\ \A k \in 1 .. Len(saved) - 1 : h[k] = baseBar[k]
        BY <2>4, <4>2, <4>3, PopProperties
      <4> HIDE DEF h
      <4>5. baseBar' = h
        BY <4>1, <4>2, <4>4, SeqEqual
      <4> QED
        BY <4>5 DEF h
    <3> QED
      BY <2>1, <2>2, <2>3, <2>4, <2>6, <3>1, <3>4 DEF Groups!AbsEndFile
  <2> QED
    BY <2>5, <2>6
<1> QED
  BY <1>1, <1>2

\* Both specifications evaluate a condition alike.
LEMMA ConditionValue ==
  ASSUME NEW l \in Lines, l.op \in {"if", "elif"}
  PROVE  /\ Groups!IllFormed(l) <=> eval_const_expr(l.arg) = "bad"
         /\ Groups!Holds(l) <=> eval_const_expr(l.arg) = "true"
<1>1. l.arg \in Conditions /\ l.op # "else" /\ l.op # "ifndef"
  BY CondInclAssumption DEF WellFormedLine
<1>2. CASE l.arg \in Names
  BY <1>1, <1>2, CondInclAssumption DEF eval_const_expr, Groups!IllFormed, Groups!Holds
<1>3. CASE l.arg \notin Names
  BY <1>1, <1>3 DEF Conditions, eval_const_expr, Groups!IllFormed, Groups!Holds
<1> QED
  BY <1>2, <1>3

LEMMA HoldsBoolean == \A l : Groups!Holds(l) \in BOOLEAN
BY DEF Groups!Holds

\* A condition that cannot be evaluated is reported where it is looked at.
LEMMA RejectElif ==
  ASSUME IInv, error_tok, NEW l \in Lines, l.op = "elif", Groups!IllFormed(l),
         skip <= 1, ~Stray, ~Top.included, Groups!HasOwnGroup
  PROVE  Groups!AbsReject(l)
<1>1. Len(cond_incl) \in 1 .. Len(cond_incl)
  BY TopEntry DEF Stray, IInv
<1>2. groupsBar[Len(groupsBar)] = GroupOf(Len(cond_incl))
  BY <1>1, Bar DEF IInv, BarFacts
<1>3. ~groupsBar[Len(groupsBar)].taken
  BY <1>2, GroupOfFields DEF Stray, Top
<1> QED
  BY <1>3, LiveIff, ErrorStep DEF IInv, Groups!AbsReject

LEMMA StrayStep ==
  ASSUME IInv, error_tok, skip <= 1, Stray, NEW l \in Lines, l.op \in Branches,
         l.op = "endif" => cond_incl = <<>>
  PROVE  Groups!AbsStray(l)
<1>1. CASE cond_incl = <<>>
  BY <1>1, OwnGroup, ErrorStep DEF Groups!AbsStray, Branches
<1>2. CASE cond_incl # <<>> /\ Top.ctx = "IN_ELSE"
  <2>1. Len(cond_incl) \in 1 .. Len(cond_incl)
    BY <1>2, TopEntry DEF IInv
  <2>2. groupsBar[Len(groupsBar)] = GroupOf(Len(cond_incl))
    BY <2>1, Bar DEF IInv, BarFacts
  <2>3. groupsBar[Len(groupsBar)].inElse
    BY <1>2, <2>2, GroupOfFields DEF Top
  <2> QED
    BY <1>2, <2>3, ErrorStep DEF Groups!AbsStray, Branches
<1> QED
  BY <1>1, <1>2 DEF Stray

LEMMA ElifStep ==
  ASSUME IInv, IInv', NEW l \in Lines, Elif(l), skip <= 1,
         cond_incl # <<>> => Groups!HasOwnGroup
  PROVE  Groups!AbsLine(l)
<1>0. l.op = "elif" /\ l.op \in Branches
  BY DEF Elif, Branches
<1>1. CASE error_tok /\ Stray
  BY <1>0, <1>1, StrayStep DEF Groups!AbsLine
<1>2. CASE error_tok /\ ~Stray /\ ~Top.included /\ eval_const_expr(l.arg) = "bad"
  BY <1>0, <1>2, RejectElif, ConditionValue DEF Stray, Groups!AbsLine
<1>3. CASE /\ ~Stray /\ (Top.included \/ eval_const_expr(l.arg) # "bad")
           /\ LET taken == ~Top.included /\ eval_const_expr(l.arg) = "true"
              IN  EnterBranch("IN_ELIF", Top.included \/ taken, taken)
  <2> DEFINE holds == Groups!Holds(l)
  <2>1. Groups!HasOwnGroup /\ cond_incl # <<>> /\ Top.ctx # "IN_ELSE"
    BY <1>3 DEF Stray
  <2>2. Top.included \in BOOLEAN /\ holds \in BOOLEAN
    BY <2>1, TopEntry, HoldsBoolean DEF IInv
  <2>3. Top.included \/ ~Groups!IllFormed(l)
    BY <1>0, <1>3, ConditionValue
  <2>4. (eval_const_expr(l.arg) = "true") = holds
    BY <1>0, <2>2, ConditionValue
  <2> HIDE DEF holds
  <2>5. EnterBranch("IN_ELIF", Top.included \/ (~Top.included /\ holds),
                    ~Top.included /\ holds)
    BY <1>3, <2>4
  <2>6. Groups!AbsBranch(l)
    BY <1>0, <2>1, <2>2, <2>3, <2>5, BranchStep DEF holds
  <2> QED
    BY <2>6 DEF Groups!AbsLine
<1> QED
  BY <1>1, <1>2, <1>3 DEF Elif

LEMMA ElseStep ==
  ASSUME IInv, IInv', NEW l \in Lines, Else(l), skip <= 1,
         cond_incl # <<>> => Groups!HasOwnGroup
  PROVE  Groups!AbsLine(l)
<1>0. l.op = "else" /\ l.op \in Branches
  BY DEF Else, Branches
<1>1. CASE error_tok /\ Stray
  BY <1>0, <1>1, StrayStep DEF Groups!AbsLine
<1>2. CASE ~Stray /\ EnterBranch("IN_ELSE", Top.included, ~Top.included)
  <2>1. Groups!HasOwnGroup /\ cond_incl # <<>> /\ Top.ctx # "IN_ELSE"
    BY <1>2 DEF Stray
  <2>2. Top.included \in BOOLEAN
    BY <2>1, TopEntry DEF IInv
  <2>3. Groups!Holds(l) = TRUE /\ ~Groups!IllFormed(l)
    BY <1>0 DEF Groups!Holds, Groups!IllFormed
  <2>4. Groups!AbsBranch(l)
    BY <1>0, <1>2, <2>1, <2>2, <2>3, BranchStep
  <2> QED
    BY <2>4 DEF Groups!AbsLine
<1> QED
  BY <1>1, <1>2 DEF Else

\* Each line's step is a step of the abstract specification.
LEMMA LineStep ==
  ASSUME BenignLines, IInv, IInv', status = "run", NEW l \in Lines, ReadLine(l)
  PROVE  Groups!AbsLine(l)
<1>0. /\ Offered(l) /\ skip \in Nat /\ WellFormedLine(l)
      /\ skip \in {0, 1} => skip <= 1
      /\ Groups!AllLive <=> skip = 0
      /\ Groups!OuterLive <=> skip <= 1
  BY CondInclAssumption, LiveIff DEF ReadLine, IInv, ProgramTypeOK
<1>1. l.op = "text" => l.arg \notin Branches \cup Openers
  BY DEF BenignLines, PlainText, Branches, Openers
<1>2. CASE Text(l)
  BY <1>0, <1>1, <1>2, BarsSame DEF Text, Groups!AbsText, Groups!AbsLine
<1>3. CASE Define(l)
  BY <1>0, <1>3, BarsSame DEF Define, Groups!AbsSetMacro, Groups!AbsLine
<1>4. CASE Undef(l)
  BY <1>0, <1>4, BarsSame DEF Undef, Groups!AbsSetMacro, Groups!AbsLine
<1>5. CASE If(l)
  <2>1. CASE eval_const_expr(l.arg) = "bad"
    <3>1. Groups!AllLive /\ l.op = "if" /\ Groups!IllFormed(l) /\ error_tok
      BY <1>0, <1>5, <2>1, ConditionValue DEF If
    <3> QED
      BY <3>1, ErrorStep DEF Groups!AbsReject, Groups!AbsLine
  <2>2. CASE eval_const_expr(l.arg) # "bad"
    <3>1. skip = 0 /\ l.op \in Openers /\ ~Groups!IllFormed(l)
      BY <1>5, <2>2, ConditionValue DEF If, Openers
    <3>2. (eval_const_expr(l.arg) = "true") = Groups!Holds(l)
      BY <1>5, ConditionValue, HoldsBoolean DEF If
    <3>3. push_cond_incl(Groups!Holds(l))
      BY <1>5, <2>2, <3>2 DEF If
    <3> QED
      BY <3>1, <3>3, HoldsBoolean, PushStep DEF Groups!AbsLine
  <2> QED
    BY <2>1, <2>2
<1>6. CASE Ifdef(l) \/ Ifndef(l)
  <2>1. skip = 0 /\ l.op \in Openers /\ ~Groups!IllFormed(l)
    BY <1>6 DEF Ifdef, Ifndef, Openers, Groups!IllFormed
  <2>2. push_cond_incl(Groups!Holds(l))
    <3>1. CASE Ifdef(l)
      <4>1. (macros[l.arg] # "none") = Groups!Holds(l)
        BY <1>0, <3>1 DEF Ifdef, WellFormedLine, Groups!Holds
      <4> QED
        BY <3>1, <4>1 DEF Ifdef
    <3>2. CASE Ifndef(l)
      <4>1. (macros[l.arg] = "none") = Groups!Holds(l)
        BY <3>2 DEF Ifndef, Groups!Holds
      <4> QED
        BY <3>2, <4>1 DEF Ifndef
    <3> QED
      BY <1>6, <3>1, <3>2
  <2> QED
    BY <2>1, <2>2, HoldsBoolean, PushStep DEF Groups!AbsLine
<1>7. ASSUME l.op \in Branches, skip <= 1, cond_incl # <<>>
      PROVE  Groups!HasOwnGroup
  <2>1. ~At(CurrentCondIncl, Len(cond_incl))
    BY <1>0, <1>7, OwnBranch DEF IInv
  <2>2. At(Ptr, Len(cond_incl))
    BY PtrPosition DEF IInv
  <2> QED
    BY <2>1, <2>2, OwnGroup
<1>8. CASE Elif(l)
  BY <1>0, <1>7, <1>8, ElifStep DEF Elif, Branches
<1>9. CASE Else(l)
  BY <1>0, <1>7, <1>9, ElseStep DEF Else, Branches
<1>10. CASE Endif(l)
  <2>1. skip <= 1 /\ l.op \in Branches /\ l.op = "endif"
    BY <1>0, <1>10 DEF Endif, Branches
  <2>2. CASE cond_incl = <<>>
    BY <1>10, <2>1, <2>2, StrayStep DEF Endif, Stray, Groups!AbsLine
  <2>3. CASE cond_incl # <<>>
    <3>1. Groups!HasOwnGroup
      BY <1>7, <2>1, <2>3
    <3> QED
      BY <1>10, <2>1, <2>3, <3>1, PopStep DEF Endif, Groups!AbsLine
  <2> QED
    BY <2>2, <2>3
<1>11. CASE Include(l)
  BY <1>11, IncludeStep DEF Groups!AbsLine
<1>12. CASE ErrorDirective(l)
  BY <1>0, <1>12, ErrorStep DEF ErrorDirective, Groups!AbsReject, Groups!AbsLine
<1>13. CASE SkipNested(l)
  <2>1. l.op \in Openers
    BY <1>1, <1>13 DEF SkipNested, OpensNested
  <2> QED
    BY <1>13, <2>1, NestStep DEF SkipNested, Groups!AbsLine
<1>14. CASE SkipNestedEnd(l)
  <2>1. l.op = "endif"
    BY <1>1, <1>14 DEF SkipNestedEnd, ClosesNested, Branches
  <2> QED
    BY <1>14, <2>1, UnnestStep DEF SkipNestedEnd, Groups!AbsLine
<1>15. CASE SkipLine(l)
  <2>1. /\ kept' = FALSE /\ UNCHANGED <<groupsBar, baseBar, macros, status>>
        /\ skip >= 1 /\ ~Groups!AllLive
    BY <1>0, <1>15, BarsSame DEF SkipLine
  <2>2. CASE l.op \in {"elif", "else"}
    <3>1. skip >= 2
      BY <1>0, <1>15, <2>2 DEF SkipLine, StopsSkipping, Branches
    <3>2. Groups!HasOwnGroup
      BY <2>1, <1>0, OwnGroup
    <3> QED
      BY <1>0, <2>1, <2>2, <3>1, <3>2 DEF Groups!AbsBranch, Groups!AbsLine
  <2>3. CASE l.op \notin {"elif", "else"}
    <3>1. l.op \in {"text", "define", "undef", "include", "error"}
      BY <1>0, <1>15, <2>3
         DEF SkipLine, OpensNested, StopsSkipping, ClosesNested, Openers, Branches, WellFormedLine
    <3> QED
      BY <2>1, <3>1 DEF Groups!AbsDead, Groups!AbsLine
  <2> QED
    BY <2>2, <2>3
<1> QED
  BY <1>2, <1>3, <1>4, <1>5, <1>6, <1>8, <1>9, <1>10, <1>11, <1>12, <1>13, <1>14, <1>15
     DEF ReadLine

LEMMA AbsInitHolds == Init => Groups!AbsInit
<1> SUFFICES ASSUME Init PROVE Groups!AbsInit
  OBVIOUS
<1>1. ProgramTypeOK /\ NestedFiles
  BY InvInit DEF IInv
<1>2. groupsBar = <<>>
  BY <1>1, Bar DEF BarFacts, Init, OpenGroups
<1>3. baseBar = <<0>>
  <2>1. Positions = {0} /\ At(NULL, 0)
    BY DEF Init, Positions, At
  <2>2. Depth(NULL) = 0
    BY <2>1 DEF Depth
  <2>3. Len(saved) = 1 /\ saved[1] = NULL
    BY DEF Init
  <2> QED
    BY <2>2, <2>3 DEF baseBar
<1>4. macros = [n \in Names |-> IF n \in Predefined THEN "builtin" ELSE "none"]
  BY DEF Init, init_macros
<1> QED
  BY <1>2, <1>3, <1>4 DEF Init, Groups!AbsInit

(***************************************************************************)
(* For benign lines the preprocessor reads exactly the text that the       *)
(* nesting of the conditional groups selects, whatever the macros, the     *)
(* nesting depth and the number of files.                                  *)
(***************************************************************************)
THEOREM ImplementsGroups ==
  ASSUME BenignLines
  PROVE  Spec => Refines
<1>1. IInv /\ [Next]_vars => IInv'
  BY InvStep
<1>2. IInv /\ IInv' /\ [Next]_vars => [Groups!AbsNext]_(Groups!absVars)
  <2> SUFFICES ASSUME IInv, IInv', [Next]_vars
               PROVE  [Groups!AbsNext]_(Groups!absVars)
    OBVIOUS
  <2>1. CASE UNCHANGED vars
    BY <2>1, BarsSame DEF vars, Groups!absVars
  <2>2. CASE status = "run" /\ EndFile /\ line' = NoLine
    BY <2>2, EndFileStep DEF Groups!AbsNext
  <2>3. CASE status = "run" /\ \E l \in Lines : ReadLine(l) /\ line' = l
    BY <2>3, LineStep DEF Groups!AbsNext
  <2> QED
    BY <2>1, <2>2, <2>3 DEF Next
<1> QED
  BY InvInit, AbsInitHolds, <1>1, <1>2, PTL DEF Spec, Refines, Groups!AbsSpec
=============================================================================

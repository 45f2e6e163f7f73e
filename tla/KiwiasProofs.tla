---------------------------- MODULE KiwiasProofs ----------------------------
(***************************************************************************)
(* The object file kiwias writes is sound, whatever the source: names,     *)
(* symbols, sections and headers refer to what they mean.  The two passes  *)
(* agree on where every `la` stands as long as `jr` is used with ra only.  *)
(***************************************************************************)
EXTENDS Kiwias, Integers, SequenceTheorems, WellFoundedInduction, TLAPS

\* A function on 1 .. n is a sequence of length n.
LEMMA FunctionIsSeq ==
  ASSUME NEW n \in Nat, NEW S, NEW f \in [1 .. n -> S]
  PROVE  f \in Seq(S) /\ Len(f) = n
OBVIOUS

\* The sources the theorem is about: parse_statement has a branch for every
\* instruction is_instruction recognises.
OnlyJrRa == \A l \in Lines : l.op # "jr"

Typed ==
  /\ nodes \in Seq(Node) /\ relocations \in Seq(Relocation) /\ text \in Seq(Word)
  /\ cur_pos \in Nat /\ i \in Nat /\ idx \in Nat

\* Where the n-th instruction stands according to pass 1; behind the last
\* one, where the next would stand.
StartOf(n) == IF n \in 1 .. Len(nodes) THEN nodes[n].pos ELSE cur_pos

Size(kind) == IF kind = "la" THEN 8 ELSE 4

Positions ==
  /\ StartOf(1) = 0
  /\ \A n \in 1 .. Len(nodes) : StartOf(n + 1) = nodes[n].pos + Size(nodes[n].kind)

IsLaOf(n, r) == nodes[n].kind = "la" /\ nodes[n].pos = r.pos /\ nodes[n].symbol = r.name

RelocationsOfLas ==
  \A r \in 1 .. Len(relocations) : \E n \in 1 .. Len(nodes) : IsLaOf(n, relocations[r])

\* Pass 2 has written the n-th instruction where pass 1 said, if it is an la.
Emitted(n) ==
  nodes[n].kind = "la" =>
    \E k \in 1 .. Len(text) - 1 :
      /\ nodes[n].pos = 4 * (k - 1)
      /\ text[k] = [op |-> "auipc", node |-> n]
      /\ text[k + 1] = [op |-> "addi", node |-> n]

Later == (Pass2 \cup {"done"}) \ {"text"}

TextWritten ==
  /\ pc = "parse" => text = <<>>
  /\ pc = "text" => /\ i \in 1 .. Len(nodes) + 1
                    /\ 4 * Len(text) = StartOf(i)
                    /\ \A n \in 1 .. i - 1 : Emitted(n)
  /\ pc \in Later => \A n \in 1 .. Len(nodes) : Emitted(n)

IInv == Typed /\ Positions /\ RelocationsOfLas /\ TextWritten
-----------------------------------------------------------------------------
LEMMA IInvImplies == IInv => RelocationsAtLa
<1> SUFFICES ASSUME IInv, pc \in Later, NEW r \in 1 .. Len(relocations)
             PROVE  AtLa(relocations[r])
  BY DEF RelocationsAtLa, Later
<1>1. PICK n \in 1 .. Len(nodes) : IsLaOf(n, relocations[r])
  BY DEF IInv, RelocationsOfLas
<1>2. PICK k \in 1 .. Len(text) - 1 :
        /\ nodes[n].pos = 4 * (k - 1)
        /\ text[k] = [op |-> "auipc", node |-> n]
        /\ text[k + 1] = [op |-> "addi", node |-> n]
  BY <1>1 DEF IInv, TextWritten, Emitted, IsLaOf
<1>3. /\ text[k].op = "auipc" /\ text[k].node = n
      /\ text[k + 1].op = "addi" /\ text[k + 1].node = n
  BY <1>2
<1> QED
  BY <1>1, <1>2, <1>3 DEF AtLa, IsLaOf

LEMMA InitIInv == Init => IInv
<1> SUFFICES ASSUME Init PROVE IInv
  OBVIOUS
<1>1. nodes = <<>> /\ relocations = <<>> /\ text = <<>> /\ pc = "parse"
  BY DEF Init
<1>2. nodes \in Seq(Node) /\ Len(nodes) = 0
  BY <1>1
<1>3. relocations \in Seq(Relocation) /\ Len(relocations) = 0
  BY <1>1
<1>4. text \in Seq(Word)
  BY <1>1
<1>5. Typed
  BY <1>2, <1>3, <1>4 DEF Init, Typed
<1>6. Positions /\ RelocationsOfLas
  BY <1>2, <1>3 DEF Init, Positions, RelocationsOfLas, StartOf
<1> QED
  BY <1>1, <1>5, <1>6 DEF IInv, TextWritten, Later, Pass2

\* The relocations are those of before, whatever symtab entries they got.
SameRelocations ==
  /\ Len(relocations') = Len(relocations)
  /\ \A r \in 1 .. Len(relocations) :
       relocations'[r].pos = relocations[r].pos /\ relocations'[r].name = relocations[r].name

\* A step of pass 2 behind .text.
LEMMA LaterStep ==
  ASSUME IInv, pc \in Later, pc' \in Later \cup {"internal"}, Typed',
         UNCHANGED <<nodes, cur_pos, text>>, SameRelocations
  PROVE  IInv'
<1>1. Positions'
  BY DEF IInv, Positions, StartOf
<1>2. RelocationsOfLas'
  BY DEF IInv, RelocationsOfLas, IsLaOf, SameRelocations
<1>3. \A n \in 1 .. Len(nodes') : Emitted(n)'
  BY DEF IInv, TextWritten, Emitted
<1> QED
  BY <1>1, <1>2, <1>3 DEF IInv, TextWritten, Later, Pass2
-----------------------------------------------------------------------------
\* parse_statement appends an instruction and counts its size.
LEMMA AddNode ==
  ASSUME IInv, pc = "parse", NEW kind \in Arith \cup {"la", "jr"}, NEW name \in Names \cup {NoName},
         add_node(kind, name, Size(kind))
  PROVE  /\ nodes' \in Seq(Node) /\ cur_pos' \in Nat
         /\ Len(nodes') = Len(nodes) + 1
         /\ \A n \in 1 .. Len(nodes) : nodes'[n] = nodes[n]
         /\ nodes'[Len(nodes) + 1] = [kind |-> kind, symbol |-> name, pos |-> cur_pos]
         /\ Positions'
<1> DEFINE e == [kind |-> kind, symbol |-> name, pos |-> cur_pos]
<1>1. e \in Node /\ e.kind = kind /\ e.pos = cur_pos
  BY DEF Node, IInv, Typed
<1>2. nodes' = Append(nodes, e) /\ cur_pos' = cur_pos + Size(kind)
  BY DEF add_node
<1> HIDE DEF e
<1>3. nodes \in Seq(Node) /\ Len(nodes) \in Nat /\ cur_pos \in Nat /\ Size(kind) \in Nat
  BY DEF IInv, Typed, Size
<1>4. /\ nodes' \in Seq(Node) /\ Len(nodes') = Len(nodes) + 1
      /\ \A n \in 1 .. Len(nodes) : nodes'[n] = nodes[n]
      /\ nodes'[Len(nodes) + 1] = e
  BY <1>1, <1>2, <1>3
<1>5. StartOf(1)' = 0
  <2>1. CASE Len(nodes) = 0
    BY <1>1, <1>3, <1>4, <2>1 DEF StartOf, IInv, Positions
  <2>2. CASE Len(nodes) # 0
    BY <1>3, <1>4, <2>2 DEF StartOf, IInv, Positions
  <2> QED
    BY <2>1, <2>2
<1>6. ASSUME NEW n \in 1 .. Len(nodes'), NEW m, m = n + 1
      PROVE  StartOf(m)' = nodes'[n].pos + Size(nodes'[n].kind)
  <2>1. CASE n = Len(nodes) + 1
    <3>1. m \notin 1 .. Len(nodes')
      BY <1>3, <1>4, <1>6, <2>1
    <3> QED
      BY <1>1, <1>2, <1>4, <2>1, <3>1 DEF StartOf
  <2>2. CASE n = Len(nodes)
    <3>1. StartOf(n + 1) = cur_pos
      BY <1>3, <2>2 DEF StartOf
    <3>2. StartOf(n + 1) = nodes[n].pos + Size(nodes[n].kind)
      BY <1>3, <1>4, <2>2 DEF IInv, Positions
    <3>3. StartOf(m)' = cur_pos
      BY <1>1, <1>3, <1>4, <1>6, <2>2 DEF StartOf
    <3> QED
      BY <1>3, <1>4, <2>2, <3>1, <3>2, <3>3
  <2>3. CASE n \in 1 .. Len(nodes) - 1
    <3>1. StartOf(n + 1) = nodes[n].pos + Size(nodes[n].kind)
      BY <1>3, <2>3 DEF IInv, Positions
    <3>2. StartOf(n + 1) = nodes[m].pos /\ StartOf(m)' = nodes[m].pos
      BY <1>3, <1>4, <1>6, <2>3 DEF StartOf
    <3> QED
      BY <1>3, <1>4, <2>3, <3>1, <3>2
  <2> QED
    BY <1>3, <1>4, <2>1, <2>2, <2>3
<1>7. Positions'
  BY <1>5, <1>6 DEF Positions
<1> QED
  BY <1>2, <1>3, <1>4, <1>7 DEF e

LEMMA ParseStep ==
  ASSUME OnlyJrRa, IInv, NEW l \in Lines, ParseLine(l)
  PROVE  IInv'
<1>1. CASE IgnoreLine(l)
  <2>1. UNCHANGED <<pc, nodes, relocations, cur_pos, i, idx, text>>
    BY <1>1 DEF IgnoreLine, vars, pass1
  <2> QED
    BY <2>1 DEF IInv, Typed, Positions, StartOf, RelocationsOfLas, IsLaOf, TextWritten, Emitted
<1>2. CASE ParseError(l)
  <2>1. UNCHANGED <<nodes, relocations, cur_pos, i, idx, text>> /\ pc' = "error"
    BY <1>2 DEF ParseError, pass1
  <2> QED
    BY <2>1 DEF IInv, Typed, Positions, StartOf, RelocationsOfLas, IsLaOf, TextWritten, Later, Pass2
<1>3. ASSUME NEW kind \in Arith \cup {"jr"}, add_node(kind, NoName, 4), UNCHANGED relocations, pc = "parse"
      PROVE  IInv'
  <2>1. Size(kind) = 4
    BY DEF Size, Arith
  <2>2. /\ nodes' \in Seq(Node) /\ cur_pos' \in Nat /\ Len(nodes') = Len(nodes) + 1
        /\ \A n \in 1 .. Len(nodes) : nodes'[n] = nodes[n]
        /\ Positions'
    BY <1>3, <2>1, AddNode
  <2>3. UNCHANGED <<pc, i, idx, text>>
    BY <1>3 DEF add_node
  <2>4. Typed'
    BY <1>3, <2>2, <2>3 DEF IInv, Typed
  <2>5. RelocationsOfLas'
    <3> SUFFICES ASSUME NEW r \in 1 .. Len(relocations)
                 PROVE  \E n \in 1 .. Len(nodes') : IsLaOf(n, relocations[r])'
      BY <1>3 DEF RelocationsOfLas
    <3>1. PICK n \in 1 .. Len(nodes) : IsLaOf(n, relocations[r])
      BY DEF IInv, RelocationsOfLas
    <3>2. n \in 1 .. Len(nodes') /\ nodes'[n] = nodes[n]
      BY <2>2, <3>1 DEF IInv, Typed
    <3> QED
      BY <1>3, <3>1, <3>2 DEF IsLaOf
  <2> QED
    BY <1>3, <2>2, <2>3, <2>4, <2>5 DEF IInv, TextWritten, Later, Pass2
<1>4. CASE ParseLa(l)
  <2>1. pc = "parse" /\ l.name \in Names /\ add_node("la", l.name, Size("la"))
    BY <1>4, KiwiasAssumption DEF ParseLine, ParseLa, Size
  <2> DEFINE e == [pos |-> cur_pos, name |-> l.name, symbol |-> 0, label |-> 0]
  <2>2. e \in Relocation /\ e.pos = cur_pos /\ e.name = l.name
    BY <2>1 DEF Relocation, IInv, Typed
  <2>3. relocations' = Append(relocations, e)
    BY <1>4 DEF ParseLa
  <2> HIDE DEF e
  <2>4. /\ relocations \in Seq(Relocation) /\ relocations' \in Seq(Relocation)
        /\ Len(relocations') = Len(relocations) + 1
        /\ \A r \in 1 .. Len(relocations) : relocations'[r] = relocations[r]
        /\ relocations'[Len(relocations) + 1] = e
    BY <2>2, <2>3 DEF IInv, Typed
  <2>5. /\ nodes' \in Seq(Node) /\ cur_pos' \in Nat /\ Len(nodes') = Len(nodes) + 1
        /\ \A n \in 1 .. Len(nodes) : nodes'[n] = nodes[n]
        /\ nodes'[Len(nodes) + 1] = [kind |-> "la", symbol |-> l.name, pos |-> cur_pos]
        /\ Positions'
    BY <2>1, AddNode
  <2>6. UNCHANGED <<pc, i, idx, text>>
    BY <2>1 DEF add_node
  <2>7. Typed'
    BY <2>4, <2>5, <2>6 DEF IInv, Typed
  <2>8. Len(nodes) \in Nat /\ Len(relocations) \in Nat
    BY <2>4 DEF IInv, Typed
  <2>9. ASSUME NEW r \in 1 .. Len(relocations')
        PROVE  \E n \in 1 .. Len(nodes') : IsLaOf(n, relocations[r])'
    <3>1. CASE r = Len(relocations) + 1
      <4>1. PICK n : n = Len(nodes) + 1
        OBVIOUS
      <4>2. n \in 1 .. Len(nodes')
        BY <2>5, <2>8, <4>1
      <4>3. nodes'[n] = [kind |-> "la", symbol |-> l.name, pos |-> cur_pos] /\ relocations'[r] = e
        BY <2>4, <2>5, <3>1, <4>1
      <4> QED
        BY <2>2, <4>2, <4>3 DEF IsLaOf
    <3>2. CASE r \in 1 .. Len(relocations)
      <4>1. PICK n \in 1 .. Len(nodes) : IsLaOf(n, relocations[r])
        BY <3>2 DEF IInv, RelocationsOfLas
      <4>2. n \in 1 .. Len(nodes') /\ nodes'[n] = nodes[n] /\ relocations'[r] = relocations[r]
        BY <2>4, <2>5, <2>8, <3>2, <4>1
      <4> QED
        BY <4>1, <4>2 DEF IsLaOf
    <3> QED
      BY <2>4, <2>8, <3>1, <3>2
  <2>10. RelocationsOfLas'
    BY <2>9 DEF RelocationsOfLas
  <2> QED
    BY <2>1, <2>5, <2>6, <2>7, <2>10 DEF IInv, TextWritten, Later, Pass2
<1>5. CASE ParseArith(l)
  BY <1>3, <1>5 DEF ParseLine, ParseArith
<1>6. CASE ParseJr(l)
  BY <1>3, <1>6 DEF ParseLine, ParseJr, OnlyJrRa
<1> QED
  BY <1>1, <1>2, <1>4, <1>5, <1>6 DEF ParseLine
-----------------------------------------------------------------------------
\* Pass 2 writes an instruction where pass 1 counted it.
LEMMA TextNodeStep ==
  ASSUME IInv, TextNode
  PROVE  IInv'
<1> PICK p : p = i
  OBVIOUS
<1>1. /\ pc = "text" /\ pc' = "text" /\ p = i /\ p \in 1 .. Len(nodes) /\ i' = p + 1
      /\ UNCHANGED <<nodes, relocations, cur_pos, idx>>
  BY DEF TextNode, pass1, IInv, TextWritten
<1>2. /\ nodes \in Seq(Node) /\ text \in Seq(Word) /\ Len(nodes) \in Nat /\ Len(text) \in Nat
      /\ nodes[p] \in Node
  BY <1>1 DEF IInv, Typed
<1>3. /\ 4 * Len(text) = nodes[p].pos
      /\ StartOf(p + 1) = nodes[p].pos + Size(nodes[p].kind)
  BY <1>1 DEF IInv, TextWritten, Positions, StartOf
<1>4. UNCHANGED <<Positions, RelocationsOfLas>> /\ \A n : StartOf(n)' = StartOf(n)
  BY <1>1 DEF Positions, StartOf, RelocationsOfLas, IsLaOf
<1>5. ASSUME NEW m \in 1 .. Len(nodes), Emitted(m), text' \in Seq(Word), Len(text') >= Len(text),
             \A k \in 1 .. Len(text) : text'[k] = text[k]
      PROVE  Emitted(m)'
  <2> SUFFICES ASSUME nodes[m].kind = "la"
               PROVE  \E k \in 1 .. Len(text') - 1 :
                        /\ nodes[m].pos = 4 * (k - 1)
                        /\ text'[k] = [op |-> "auipc", node |-> m]
                        /\ text'[k + 1] = [op |-> "addi", node |-> m]
    BY <1>1 DEF Emitted
  <2>1. PICK k \in 1 .. Len(text) - 1 :
          /\ nodes[m].pos = 4 * (k - 1)
          /\ text[k] = [op |-> "auipc", node |-> m]
          /\ text[k + 1] = [op |-> "addi", node |-> m]
    BY <1>5 DEF Emitted
  <2>2. k \in 1 .. Len(text') - 1 /\ k \in 1 .. Len(text) /\ k + 1 \in 1 .. Len(text)
    BY <1>2, <1>5
  <2>3. text'[k] = text[k] /\ text'[k + 1] = text[k + 1]
    BY <1>5, <2>2
  <2> QED
    BY <2>1, <2>2, <2>3
<1>6. CASE nodes[p].kind = "la"
  <2> DEFINE a == [op |-> "auipc", node |-> p]
             b == [op |-> "addi", node |-> p]
  <2>1. a \in Word /\ b \in Word
    BY <1>1, <1>2 DEF Word, Arith
  <2>2. text' = text \o <<a, b>>
    BY <1>1, <1>6 DEF TextNode, Words
  <2> HIDE DEF a, b
  <2>3. /\ text' \in Seq(Word) /\ Len(text') = Len(text) + 2
        /\ \A k \in 1 .. Len(text) : text'[k] = text[k]
        /\ text'[Len(text) + 1] = a /\ text'[Len(text) + 2] = b
    BY <1>2, <2>1, <2>2
  <2>4. Emitted(p)'
    <3>1. PICK k : k = Len(text) + 1
      OBVIOUS
    <3>2. k \in 1 .. Len(text') - 1 /\ nodes[p].pos = 4 * (k - 1) /\ text'[k] = a /\ text'[k + 1] = b
      BY <1>2, <1>3, <2>3, <3>1
    <3> QED
      BY <1>1, <3>2 DEF Emitted, a, b
  <2>5. \A n \in 1 .. p : Emitted(n)'
    <3> SUFFICES ASSUME NEW n \in 1 .. p PROVE Emitted(n)'
      OBVIOUS
    <3>1. n = p \/ n \in 1 .. p - 1
      BY <1>1, <1>2
    <3>2. CASE n \in 1 .. p - 1
      <4>1. n \in 1 .. Len(nodes) /\ Emitted(n)
        BY <1>1, <1>2, <3>2 DEF IInv, TextWritten
      <4>2. Len(text') >= Len(text)
        BY <1>2, <2>3
      <4> QED
        BY <1>5, <2>3, <4>1, <4>2
    <3> QED
      BY <2>4, <3>1, <3>2
  <2>6. 4 * Len(text') = StartOf(p + 1)'
    BY <1>1, <1>2, <1>3, <1>4, <1>6, <2>3 DEF Size, Node
  <2>7. Typed' /\ i' \in 1 .. Len(nodes') + 1
    BY <1>1, <1>2, <2>3 DEF IInv, Typed
  <2> QED
    BY <1>1, <1>4, <2>5, <2>6, <2>7 DEF IInv, TextWritten, Later, Pass2
<1>7. CASE nodes[p].kind # "la"
  <2> DEFINE w == [op |-> nodes[p].kind, node |-> p]
  <2>1. w \in Word
    BY <1>1, <1>2, <1>7 DEF Word, Node
  <2>2. text' = text \o <<w>>
    BY <1>1, <1>7 DEF TextNode, Words
  <2> HIDE DEF w
  <2>3. /\ text' \in Seq(Word) /\ Len(text') = Len(text) + 1
        /\ \A k \in 1 .. Len(text) : text'[k] = text[k]
    BY <1>2, <2>1, <2>2
  <2>4. Emitted(p)'
    BY <1>1, <1>7 DEF Emitted
  <2>5. \A n \in 1 .. p : Emitted(n)'
    <3> SUFFICES ASSUME NEW n \in 1 .. p PROVE Emitted(n)'
      OBVIOUS
    <3>1. n = p \/ n \in 1 .. p - 1
      BY <1>1, <1>2
    <3>2. CASE n \in 1 .. p - 1
      <4>1. n \in 1 .. Len(nodes) /\ Emitted(n)
        BY <1>1, <1>2, <3>2 DEF IInv, TextWritten
      <4>2. Len(text') >= Len(text)
        BY <1>2, <2>3
      <4> QED
        BY <1>5, <2>3, <4>1, <4>2
    <3> QED
      BY <2>4, <3>1, <3>2
  <2>6. 4 * Len(text') = StartOf(p + 1)'
    BY <1>1, <1>2, <1>3, <1>4, <1>7, <2>3 DEF Size, Node
  <2>7. Typed' /\ i' \in 1 .. Len(nodes') + 1
    BY <1>1, <1>2, <2>3 DEF IInv, Typed
  <2> QED
    BY <1>1, <1>4, <2>5, <2>6, <2>7 DEF IInv, TextWritten, Later, Pass2
<1> QED
  BY <1>6, <1>7

LEMMA OpenOutputStep ==
  ASSUME IInv, OpenOutput
  PROVE  IInv'
<1>1. /\ pc = "parse" /\ pc' \in {"text", "error", "crash"} /\ i' = 1
      /\ UNCHANGED <<nodes, relocations, cur_pos, idx, text>>
  BY DEF OpenOutput, pass1
<1>2. Typed' /\ Positions' /\ RelocationsOfLas'
  BY <1>1 DEF IInv, Typed, Positions, StartOf, RelocationsOfLas, IsLaOf
<1>3. Len(nodes) \in Nat /\ Len(text) = 0 /\ StartOf(1)' = 0
  BY <1>1, <1>2 DEF IInv, Typed, TextWritten, Positions
<1>4. i' \in 1 .. Len(nodes') + 1 /\ \A n \in 1 .. i' - 1 : FALSE
  BY <1>1, <1>3
<1>5. 4 * Len(text') = 0
  BY <1>1, <1>3
<1> QED
  BY <1>1, <1>2, <1>3, <1>4, <1>5 DEF IInv, TextWritten, Later, Pass2

LEMMA EndTextStep ==
  ASSUME IInv, EndText
  PROVE  IInv'
<1>1. /\ pc = "text" /\ pc' = "strtab_records" /\ i > Len(nodes)
      /\ UNCHANGED <<nodes, relocations, cur_pos, i, idx, text>>
  BY DEF EndText, pass1
<1>2. Typed' /\ Positions' /\ RelocationsOfLas'
  BY <1>1 DEF IInv, Typed, Positions, StartOf, RelocationsOfLas, IsLaOf
<1>3. \A n \in 1 .. Len(nodes) : Emitted(n)
  BY <1>1 DEF IInv, Typed, TextWritten
<1>4. \A n \in 1 .. Len(nodes') : Emitted(n)'
  BY <1>1, <1>3 DEF Emitted
<1> QED
  BY <1>1, <1>2, <1>4 DEF IInv, TextWritten
-----------------------------------------------------------------------------
\* The loops over the relocations give them their symtab entries, and leave
\* their places and names alone.
LEMMA RelocationsStay ==
  ASSUME relocations \in Seq(Relocation), idx \in Nat, SymtabLabel \/ SymtabSymbol
  PROVE  relocations' \in Seq(Relocation) /\ SameRelocations
<1>1. relocations \in Seq(Relocation) /\ Len(relocations) \in Nat /\ idx \in Nat
  OBVIOUS
<1> DEFINE Stays(r) == /\ relocations'[r] \in Relocation
                       /\ relocations'[r].pos = relocations[r].pos
                       /\ relocations'[r].name = relocations[r].name
<1> SUFFICES ASSUME relocations' # relocations
             PROVE  /\ relocations' = [r \in 1 .. Len(relocations) |-> relocations'[r]]
                    /\ \A r \in 1 .. Len(relocations) : Stays(r)
  <2>1. CASE relocations' = relocations
    BY <1>1, <2>1 DEF SameRelocations
  <2>2. CASE /\ relocations' = [r \in 1 .. Len(relocations) |-> relocations'[r]]
             /\ \A r \in 1 .. Len(relocations) : Stays(r)
    <3>1. relocations' \in [1 .. Len(relocations) -> Relocation]
      BY <2>2
    <3> QED
      BY <1>1, <2>2, <3>1, FunctionIsSeq DEF SameRelocations
  <2> QED
    BY <2>1, <2>2
<1>2. CASE SymtabLabel
  <2>1. relocations' = [relocations EXCEPT ![i].label = idx]
    BY <1>2 DEF SymtabLabel
  <2>2. ASSUME NEW r \in 1 .. Len(relocations) PROVE Stays(r)
    <3>1. relocations[r] \in Relocation
      BY <1>1
    <3>2. relocations'[r] = IF r = i THEN [relocations[r] EXCEPT !.label = idx] ELSE relocations[r]
      BY <1>1, <2>1
    <3> QED
      BY <1>1, <3>1, <3>2 DEF Relocation
  <2>3. DOMAIN relocations' = 1 .. Len(relocations)
    BY <1>1, <2>1
  <2>4. relocations' = [r \in 1 .. Len(relocations) |-> relocations'[r]]
    BY <1>1, <2>1, <2>3
  <2> QED
    BY <2>2, <2>4
<1>3. CASE SymtabSymbol
  <2>1. relocations' = update_relocation(symbols[i], idx)
    BY <1>3 DEF SymtabSymbol
  <2>2. ASSUME NEW r \in 1 .. Len(relocations) PROVE Stays(r)
    <3>1. relocations[r] \in Relocation
      BY <1>1
    <3>2. \/ relocations'[r] = [relocations[r] EXCEPT !.symbol = idx]
          \/ relocations'[r] = relocations[r]
      BY <1>1, <2>1 DEF update_relocation
    <3> QED
      BY <1>1, <3>1, <3>2 DEF Relocation
  <2>3. relocations' = [r \in 1 .. Len(relocations) |-> relocations'[r]]
    BY <1>1, <2>1 DEF update_relocation
  <2> QED
    BY <2>2, <2>3
<1> QED
  BY <1>2, <1>3

LEMMA EntryStep ==
  ASSUME IInv, SymtabLabel \/ SymtabSymbol
  PROVE  IInv'
<1>1. i \in Nat /\ idx \in Nat /\ relocations \in Seq(Relocation)
  BY DEF IInv, Typed
<1>2. relocations' \in Seq(Relocation) /\ SameRelocations
  BY <1>1, RelocationsStay
<1>3. /\ pc \in Later /\ pc' \in Later \cup {"internal"} /\ i' \in Nat /\ idx' \in Nat
      /\ UNCHANGED <<nodes, cur_pos, text>>
  BY <1>1 DEF SymtabLabel, SymtabSymbol, Put, InternalError, Later, Pass2
<1> QED
  BY <1>2, <1>3, LaterStep DEF IInv, Typed

\* The other steps of pass 2 leave all of this alone.
LEMMA QuietStep ==
  ASSUME IInv,
         \/ prepare_strtab_records \/ SymtabStart \/ SymtabMain \/ gen_strtab_section
         \/ RelaStart \/ RelaEntry \/ gen_shstrtab_section \/ gen_section_header_table
  PROVE  IInv'
<1>1. /\ pc \in Later /\ pc' \in Later \cup {"internal"} /\ i' \in Nat /\ idx' \in Nat
      /\ UNCHANGED <<nodes, relocations, cur_pos, text>>
  <2>1. i \in Nat /\ idx \in Nat
    BY DEF IInv, Typed
  <2>2. CASE prepare_strtab_records
    BY <2>1, <2>2 DEF prepare_strtab_records, pass1, Later, Pass2
  <2>3. CASE SymtabStart
    BY <2>1, <2>3 DEF SymtabStart, pass1, Later, Pass2
  <2>4. CASE SymtabMain
    BY <2>1, <2>4 DEF SymtabMain, Put, InternalError, pass1, Later, Pass2
  <2>5. CASE gen_strtab_section
    BY <2>1, <2>5 DEF gen_strtab_section, pass1, Later, Pass2
  <2>6. CASE RelaStart
    BY <2>1, <2>6 DEF RelaStart, pass1, Later, Pass2
  <2>7. CASE RelaEntry
    BY <2>1, <2>7 DEF RelaEntry, pass1, Later, Pass2
  <2>8. CASE gen_shstrtab_section
    BY <2>1, <2>8 DEF gen_shstrtab_section, pass1, Later, Pass2
  <2>9. CASE gen_section_header_table
    BY <2>1, <2>9 DEF gen_section_header_table, pass1, Later, Pass2
  <2> QED
    BY <2>2, <2>3, <2>4, <2>5, <2>6, <2>7, <2>8, <2>9
<1>2. Typed' /\ SameRelocations
  BY <1>1 DEF IInv, Typed, SameRelocations
<1> QED
  BY <1>1, <1>2, LaterStep
-----------------------------------------------------------------------------
LEMMA StutterStep ==
  ASSUME IInv, UNCHANGED vars
  PROVE  IInv'
BY DEF vars, pass1, IInv, Typed, Positions, StartOf, RelocationsOfLas, IsLaOf, TextWritten, Emitted

(***************************************************************************)
(* For every source without `jr` to another register than ra: when .text   *)
(* is written, each relocation is at an `la` of the symbol it names.       *)
(***************************************************************************)
THEOREM PassesAgree ==
  ASSUME OnlyJrRa
  PROVE  Spec => []RelocationsAtLa
<1>1. IInv /\ [Next]_vars => IInv'
  BY ParseStep, OpenOutputStep, TextNodeStep, EndTextStep, EntryStep, QuietStep,
     StutterStep DEF Next, Write
<1> QED
  BY InitIInv, IInvImplies, <1>1, PTL DEF Spec
-----------------------------------------------------------------------------
(* Symbols and strings.  What follows holds for `jr` with any register.    *)

Symbol ==
  [name : Nat, bind : {"local", "global"}, type : {"notype", "section"}, shndx : Nat, value : Nat]

Recorded == {"symtab", "labels", "globals", "rela", "rela_loop", "headers", "done"}

\* Every relocation is against one of the symbols, each of which is there once.
\* What prepare_strtab_records records stays.
Strings ==
  /\ symbols \in Seq(Names) /\ relocations \in Seq(Relocation)
  /\ cur_pos \in Nat /\ idx \in Nat /\ i \in Nat
  /\ \A j, k \in 1 .. Len(symbols) : symbols[j] = symbols[k] => j = k
  /\ \A r \in 1 .. Len(relocations) :
       \E j \in 1 .. Len(symbols) : symbols[j] = relocations[r].name
  /\ pc \in {"parse", "text", "strtab_records"} => strtab_records = <<NoName>>
  /\ pc \in Recorded =>
       strtab_records = <<NoName>> \o (IF symbols # <<>> THEN <<LABEL>> ELSE <<>>)
                          \o <<MAIN>> \o symbols
  /\ pc \in {"labels", "globals"} => i > 0
  /\ pc # "internal"

SectionSymbols ==
  /\ symtab[2].shndx = 1
  /\ symtab[3].shndx = IF rela_exists THEN 3 ELSE 2
  /\ symtab[4].shndx = IF rela_exists THEN 4 ELSE 3

\* The first n relocations have their labels.
LabelsPut(n) ==
  \A r \in 1 .. n :
    LET e == symtab[4 + r]
    IN /\ relocations[r].label = 3 + r
       /\ e.bind = "local" /\ e.shndx = 1 /\ e.value = relocations[r].pos
       /\ StringAt(e.name, LABEL)

\* The first n symbols have their entries, and the relocations against them
\* know these.
GlobalsPut(n) ==
  \A j \in 1 .. n :
    LET e == symtab[sh_info + 1 + j]
    IN /\ e.bind = "global" /\ e.shndx = 0 /\ StringAt(e.name, symbols[j])
       /\ \A r \in 1 .. Len(relocations) :
            relocations[r].name = symbols[j] => relocations[r].symbol = sh_info + j

LocalsFirst ==
  /\ sh_info = 4 + Len(relocations)
  /\ \A k \in 1 .. Len(symtab) : symtab[k].bind = "local" <=> k <= sh_info
  /\ LabelsPut(Len(relocations))

SymbolTable ==
  /\ pc \in Recorded \ {"symtab"} =>
       symtab \in Seq(Symbol) /\ Len(symtab) >= 4 /\ idx = Len(symtab) /\ SectionSymbols
  /\ pc = "labels" =>
       /\ i \in 1 .. Len(relocations) + 1 /\ Len(symtab) = 3 + i
       /\ \A k \in 1 .. Len(symtab) : symtab[k].bind = "local"
       /\ LabelsPut(i - 1)
  /\ pc = "globals" =>
       /\ i \in 1 .. Len(symbols) + 1 /\ Len(symtab) = sh_info + i
       /\ LocalsFirst /\ GlobalsPut(i - 1)
  /\ pc \in {"rela", "rela_loop", "headers", "done"} =>
       /\ Len(symtab) = sh_info + 1 + Len(symbols)
       /\ LocalsFirst /\ GlobalsPut(Len(symbols))

\* The entries of .rela.text for a relocation are written.
RelaPut(r) ==
  LET q == relocations[r]
  IN /\ Rela(q.pos, "pcrel_hi20", q.symbol) \in Elements(rela)
     /\ Rela(q.pos + 4, "pcrel_lo12", q.label) \in Elements(rela)

RelaTable ==
  /\ rela \in Seq([offset : Nat, type : {"pcrel_hi20", "relax", "pcrel_lo12"}, sym : Nat])
  /\ pc \notin {"rela_loop", "headers", "done"} => rela = <<>>
  /\ (pc = "rela" => i = 1) /\ (pc = "rela_loop" => i > 0)
  /\ pc = "rela_loop" => \A r \in 1 .. Len(relocations) : r < i => RelaPut(r)
  /\ pc \in {"headers", "done"} => \A r \in 1 .. Len(relocations) : RelaPut(r)
-----------------------------------------------------------------------------
\* What the tables look up is recorded.
LEMMA StringsFound ==
  ASSUME Strings, pc \in Recorded
  PROVE  /\ strtab_records \in Seq(Names \cup {NoName, MAIN, LABEL}) /\ Len(strtab_records) > 0
         /\ InStrtab(MAIN)
         /\ \A j \in 1 .. Len(symbols) : InStrtab(symbols[j])
         /\ relocations # <<>> => InStrtab(LABEL)
<1> DEFINE S == Names \cup {NoName, MAIN, LABEL}
           l == IF symbols # <<>> THEN <<LABEL>> ELSE <<>>
           a == <<NoName>> \o l
           b == a \o <<MAIN>>
<1>1. strtab_records = b \o symbols
  BY DEF Strings
<1>2. l \in Seq(S) /\ a \in Seq(S) /\ b \in Seq(S) /\ symbols \in Seq(S)
  <2>1. l \in Seq(S)
    <3>1. <<LABEL>> \in Seq(S) /\ <<>> \in Seq(S)
      OBVIOUS
    <3> QED
      BY <3>1
  <2>2. <<NoName>> \in Seq(S) /\ <<MAIN>> \in Seq(S)
    OBVIOUS
  <2> HIDE DEF l
  <2>3. a \in Seq(S)
    BY <2>1, <2>2
  <2> HIDE DEF a
  <2>4. b \in Seq(S)
    BY <2>2, <2>3
  <2>5. symbols \in Seq(S)
    BY DEF Strings
  <2> QED
    BY <2>1, <2>3, <2>4, <2>5
<1>3. Len(b) \in Nat /\ Len(a) \in Nat /\ Len(symbols) \in Nat
  BY <1>2
<1>4. Len(b) = Len(a) + 1 /\ b[Len(b)] = MAIN
  BY <1>2
<1>5. ASSUME symbols # <<>> PROVE 2 \in 1 .. Len(b) /\ b[2] = LABEL
  BY <1>5
<1> HIDE DEF l, a, b
<1>6. /\ strtab_records \in Seq(S) /\ Len(strtab_records) = Len(b) + Len(symbols)
      /\ \A k \in 1 .. Len(b) : strtab_records[k] = b[k]
      /\ \A j \in 1 .. Len(symbols) : strtab_records[Len(b) + j] = symbols[j]
  BY <1>1, <1>2
<1>7. InStrtab(MAIN)
  BY <1>3, <1>4, <1>6 DEF InStrtab, Elements
<1>8. ASSUME NEW j \in 1 .. Len(symbols) PROVE InStrtab(symbols[j])
  <2>1. Len(b) + j \in 1 .. Len(strtab_records) /\ strtab_records[Len(b) + j] = symbols[j]
    BY <1>3, <1>6
  <2> QED
    BY <2>1 DEF InStrtab, Elements
<1>9. ASSUME relocations # <<>> PROVE InStrtab(LABEL)
  <2>1. 1 \in 1 .. Len(relocations)
    BY <1>9 DEF Strings
  <2>2. symbols # <<>>
    BY <2>1 DEF Strings
  <2>3. 2 \in 1 .. Len(strtab_records) /\ strtab_records[2] = LABEL
    BY <1>3, <1>5, <1>6, <2>2
  <2> QED
    BY <2>3 DEF InStrtab, Elements
<1> QED
  BY <1>3, <1>4, <1>6, <1>7, <1>8, <1>9

LEMMA InitStrings == Init => Strings
BY DEF Init, Strings, Recorded

LEMMA ParseStrings ==
  ASSUME Strings, NEW l \in Lines, ParseLine(l)
  PROVE  Strings'
<1>1. pc = "parse" /\ UNCHANGED <<i, idx, strtab_records>>
  BY DEF ParseLine, ParseArith, ParseLa, ParseJr, IgnoreLine, ParseError, add_node, tables, vars
<1>2. ASSUME UNCHANGED <<symbols, relocations>>, cur_pos' \in Nat, pc' \in {"parse", "error"}
      PROVE  Strings'
  BY <1>1, <1>2 DEF Strings, Recorded
<1>3. CASE ParseLa(l)
  <2> DEFINE e == [pos |-> cur_pos, name |-> l.name, symbol |-> 0, label |-> 0]
  <2>1. l.name \in Names
    BY <1>3, KiwiasAssumption DEF ParseLa
  <2>2. e \in Relocation /\ e.name = l.name
    BY <2>1 DEF Relocation, Strings
  <2>3. /\ symbols' = IF l.name \in Elements(symbols) THEN symbols ELSE Append(symbols, l.name)
        /\ relocations' = Append(relocations, e) /\ pc' = "parse" /\ cur_pos' = cur_pos + 8
    BY <1>1, <1>3 DEF ParseLa, add_node
  <2> HIDE DEF e
  <2>4. /\ relocations \in Seq(Relocation) /\ Len(relocations) \in Nat
        /\ relocations' \in Seq(Relocation) /\ Len(relocations') = Len(relocations) + 1
        /\ \A r \in 1 .. Len(relocations) : relocations'[r] = relocations[r]
        /\ relocations'[Len(relocations) + 1] = e
    BY <2>2, <2>3 DEF Strings
  <2>5. symbols \in Seq(Names) /\ Len(symbols) \in Nat
    BY DEF Strings
  <2>6. /\ symbols' \in Seq(Names) /\ Len(symbols') \in Nat /\ Len(symbols) <= Len(symbols')
        /\ \A j \in 1 .. Len(symbols) : symbols'[j] = symbols[j]
        /\ \E j \in 1 .. Len(symbols') : symbols'[j] = l.name
        /\ \A j, k \in 1 .. Len(symbols') : symbols'[j] = symbols'[k] => j = k
    <3>1. CASE l.name \in Elements(symbols)
      BY <2>3, <2>5, <3>1 DEF Strings, Elements
    <3>2. CASE l.name \notin Elements(symbols)
      <4>1. /\ symbols' \in Seq(Names) /\ Len(symbols') = Len(symbols) + 1
            /\ \A j \in 1 .. Len(symbols) : symbols'[j] = symbols[j] /\ symbols[j] # l.name
            /\ symbols'[Len(symbols) + 1] = l.name
        BY <2>1, <2>3, <2>5, <3>2 DEF Elements
      <4>2. \A j \in 1 .. Len(symbols') : j \in 1 .. Len(symbols) \/ j = Len(symbols) + 1
        BY <2>5, <4>1
      <4>3. Len(symbols) + 1 \in 1 .. Len(symbols')
        BY <2>5, <4>1
      <4>4. \A j, k \in 1 .. Len(symbols') : symbols'[j] = symbols'[k] => j = k
        BY <4>1, <4>2 DEF Strings
      <4> QED
        BY <2>5, <4>1, <4>3, <4>4
    <3> QED
      BY <3>1, <3>2
  <2>7. ASSUME NEW r \in 1 .. Len(relocations')
        PROVE  \E j \in 1 .. Len(symbols') : symbols'[j] = relocations'[r].name
    <3>1. CASE r \in 1 .. Len(relocations)
      <4>1. PICK j \in 1 .. Len(symbols) : symbols[j] = relocations[r].name
        BY <3>1 DEF Strings
      <4>2. j \in 1 .. Len(symbols') /\ symbols'[j] = symbols[j] /\ relocations'[r] = relocations[r]
        BY <2>4, <2>5, <2>6, <3>1
      <4> QED
        BY <4>1, <4>2
    <3>2. CASE r = Len(relocations) + 1
      BY <2>2, <2>4, <2>6, <3>2
    <3>3. r \in 1 .. Len(relocations) \/ r = Len(relocations) + 1
      <4>1. Len(relocations) \in Nat /\ r \in 1 .. Len(relocations) + 1
        BY <2>4
      <4> QED
        BY <4>1
    <3> QED
      BY <3>1, <3>2, <3>3
  <2>8. cur_pos' \in Nat /\ idx' \in Nat /\ i' \in Nat /\ strtab_records' = strtab_records
    BY <1>1, <2>3 DEF Strings
  <2>9. strtab_records = <<NoName>>
    BY <1>1, Zenon DEF Strings
  <2>10. pc' \notin Recorded /\ pc' \notin {"labels", "globals"} /\ pc' # "internal"
    BY <2>3 DEF Recorded
  <2> QED
    BY <2>4, <2>6, <2>7, <2>8, <2>9, <2>10, Zenon DEF Strings
<1>4. CASE ParseArith(l) \/ ParseJr(l)
  <2>1. UNCHANGED <<symbols, relocations, pc>> /\ (cur_pos' = cur_pos + 4 \/ cur_pos' = cur_pos + 0)
    BY <1>4 DEF ParseArith, ParseJr, add_node
  <2>2. cur_pos' \in Nat
    BY <2>1 DEF Strings
  <2> QED
    BY <1>1, <1>2, <2>1, <2>2
<1>5. CASE IgnoreLine(l) \/ ParseError(l)
  BY <1>1, <1>2, <1>5 DEF IgnoreLine, ParseError, vars, pass1, Strings
<1> QED
  BY <1>3, <1>4, <1>5 DEF ParseLine

LEMMA WriteStrings ==
  ASSUME Strings, OpenOutput \/ Write
  PROVE  Strings'
<1>1. ASSUME UNCHANGED <<symbols, cur_pos, strtab_records>>, i' \in Nat, idx' \in Nat,
             relocations' \in Seq(Relocation) /\ SameRelocations,
             pc' \in {"labels", "globals"} => i' > 0, pc' # "internal",
             \/ pc \in Recorded /\ pc' \in Recorded
             \/ pc \in {"parse", "text"} /\ pc' \in {"text", "strtab_records", "error", "crash"}
      PROVE  Strings'
  <2>1. \A r \in 1 .. Len(relocations') :
          \E j \in 1 .. Len(symbols') : symbols'[j] = relocations'[r].name
    BY <1>1 DEF Strings, SameRelocations
  <2>2. /\ pc' \in {"parse", "text", "strtab_records"} => pc \in {"parse", "text", "strtab_records"}
        /\ pc' \in Recorded => pc \in Recorded
    BY <1>1 DEF Recorded
  <2> HIDE DEF Recorded
  <2> QED
    BY <1>1, <2>1, <2>2 DEF Strings
<1>2. /\ i \in Nat /\ idx \in Nat /\ Len(symbols) \in Nat
      /\ relocations \in Seq(Relocation) /\ Len(relocations) \in Nat
  BY DEF Strings
<1>s. UNCHANGED relocations => relocations' \in Seq(Relocation) /\ SameRelocations
  BY <1>2 DEF SameRelocations
<1>3. CASE OpenOutput \/ TextNode \/ EndText
  BY <1>s, <1>1, <1>2, <1>3 DEF OpenOutput, TextNode, EndText, pass1, tables
<1>4. CASE prepare_strtab_records
  BY <1>4 DEF prepare_strtab_records, pass1, Strings, Recorded
<1>5. CASE SymtabStart \/ gen_strtab_section \/ RelaStart \/ RelaEntry
  BY <1>s, <1>1, <1>2, <1>5 DEF SymtabStart, gen_strtab_section, RelaStart, RelaEntry, pass1, tables, Recorded
<1>6. CASE gen_shstrtab_section \/ gen_section_header_table
  BY <1>s, <1>1, <1>2, <1>6 DEF gen_shstrtab_section, gen_section_header_table, pass1, tables, Recorded
<1>7. CASE SymtabMain
  <2>1. InStrtab(MAIN)
    BY <1>7, StringsFound DEF SymtabMain, Recorded
  <2> QED
    BY <1>s, <1>1, <1>2, <1>7, <2>1 DEF SymtabMain, Put, pass1, Recorded
<1>8. CASE SymtabLabel
  <2>1. relocations # <<>>
    BY <1>8 DEF SymtabLabel, Strings
  <2>2. InStrtab(LABEL)
    BY <1>8, <2>1, StringsFound DEF SymtabLabel, Recorded
  <2>3. /\ i' = i + 1 /\ idx' = idx + 1 /\ pc = "labels" /\ pc' = "labels"
        /\ UNCHANGED <<symbols, cur_pos, strtab_records>>
    BY <1>8, <2>2 DEF SymtabLabel, Put
  <2>4. relocations' \in Seq(Relocation) /\ SameRelocations
    BY <1>2, <1>8, RelocationsStay
  <2> QED
    BY <1>1, <1>2, <2>3, <2>4 DEF Recorded
<1>9. CASE SymtabSymbol
  <2>1. i \in 1 .. Len(symbols)
    BY <1>2, <1>9 DEF SymtabSymbol, Strings
  <2>2. InStrtab(symbols[i])
    BY <1>9, <2>1, StringsFound DEF SymtabSymbol, Recorded
  <2>3. /\ i' = i + 1 /\ idx' = idx + 1 /\ pc = "globals" /\ pc' = "globals"
        /\ UNCHANGED <<symbols, cur_pos, strtab_records>>
    BY <1>9, <2>2 DEF SymtabSymbol, Put
  <2>4. relocations' \in Seq(Relocation) /\ SameRelocations
    BY <1>2, <1>9, RelocationsStay
  <2> QED
    BY <1>1, <1>2, <2>3, <2>4 DEF Recorded
<1> QED
  BY <1>3, <1>4, <1>5, <1>6, <1>7, <1>8, <1>9 DEF Write
-----------------------------------------------------------------------------
(* Offsets in string tables.                                               *)

LEMMA NatLess == IsWellFoundedOn({p \in Nat \X Nat : p[1] < p[2]}, Nat)
BY NatLessThanWellFounded DEF OpToRel

LEMMA LeastNat ==
  ASSUME NEW S, S \subseteq Nat, S # {}
  PROVE  \E n \in S : \A m \in S : n <= m
<1> DEFINE R == {p \in Nat \X Nat : p[1] < p[2]}
<1>1. PICK n \in S : \A m \in S : ~ (<<m, n>> \in R)
  BY NatLess, WFMin
<1>2. \A m \in S : ~ (m < n)
  BY <1>1
<1> QED
  BY <1>2

\* f[j] is where the j-th string begins, for strings of lengths w.
Offsets(f, w, n) == f = [j \in 1 .. n |-> IF j = 1 THEN 0 ELSE f[j - 1] + w[j - 1] + 1]

LEMMA OffsetsExist ==
  ASSUME NEW N \in Nat, NEW w \in [1 .. N -> Nat]
  PROVE  \E f : Offsets(f, w, N)
<1> DEFINE None == {n \in 0 .. N : ~ \E f : Offsets(f, w, n)}
<1>1. None \subseteq Nat
  OBVIOUS
<1>2. ASSUME None # {} PROVE FALSE
  <2>1. PICK n \in None : \A m \in None : n <= m
    <3> HIDE DEF None
    <3> QED
      BY <1>1, <1>2, LeastNat
  <2>2. n \in 0 .. N /\ ~ \E f : Offsets(f, w, n)
    BY <2>1
  <2>3. CASE n = 0
    <3> DEFINE f == [j \in 1 .. n |-> 0]
    <3>1. Offsets(f, w, n)
      BY <2>3 DEF Offsets
    <3> QED
      BY <2>2, <3>1
  <2>4. CASE n # 0
    <3>1. n - 1 \in 0 .. N /\ n - 1 \notin None
      BY <2>1, <2>2, <2>4
    <3>2. PICK f : Offsets(f, w, n - 1)
      BY <3>1
    <3> DEFINE g == [j \in 1 .. n |-> IF j = 1 THEN 0 ELSE f[j - 1] + w[j - 1] + 1]
    <3>3. \A j \in 1 .. n : j # 1 => g[j - 1] = f[j - 1]
      <4> SUFFICES ASSUME NEW j \in 1 .. n, j # 1 PROVE g[j - 1] = f[j - 1]
        OBVIOUS
      <4>1. j - 1 \in 1 .. n - 1 /\ j - 1 \in 1 .. n
        BY <2>2, <2>4
      <4>2. f[j - 1] = IF j - 1 = 1 THEN 0 ELSE f[j - 1 - 1] + w[j - 1 - 1] + 1
        BY <3>2, <4>1 DEF Offsets
      <4> QED
        BY <4>1, <4>2
    <3>4. Offsets(g, w, n)
      BY <3>3 DEF Offsets
    <3> QED
      BY <2>2, <3>4
  <2> QED
    BY <2>3, <2>4
<1>3. N \in 0 .. N /\ None = {}
  BY <1>2
<1> QED
  BY <1>3

LEMMA OffsetsTyped ==
  ASSUME NEW N \in Nat, NEW w \in [1 .. N -> Nat], NEW f, Offsets(f, w, N)
  PROVE  \A j \in 1 .. N : f[j] \in Nat
<1> DEFINE Bad == {j \in 1 .. N : f[j] \notin Nat}
<1>1. Bad \subseteq Nat
  OBVIOUS
<1>2. ASSUME Bad # {} PROVE FALSE
  <2>1. PICK j \in Bad : \A m \in Bad : j <= m
    <3> HIDE DEF Bad
    <3> QED
      BY <1>1, <1>2, LeastNat
  <2>2. j \in 1 .. N /\ f[j] \notin Nat
    BY <2>1
  <2>3. f[j] = IF j = 1 THEN 0 ELSE f[j - 1] + w[j - 1] + 1
    BY <2>2 DEF Offsets
  <2>4. j # 1 /\ j - 1 \in 1 .. N
    BY <2>2, <2>3
  <2>5. j - 1 \notin Bad
    BY <2>1, <2>2
  <2>6. f[j - 1] \in Nat /\ w[j - 1] \in Nat
    BY <2>4, <2>5
  <2> QED
    BY <2>2, <2>3, <2>4, <2>6
<1> QED
  BY <1>2

LEMMA StringOffsetTyped ==
  ASSUME Strings, pc \in Recorded, NEW N \in 1 .. Len(strtab_records)
  PROVE  StringOffset(N) \in Nat
<1> DEFINE P(f) == f = [j \in 1 .. N |->
                          IF j = 1 THEN 0 ELSE f[j - 1] + Length[strtab_records[j - 1]] + 1]
           off == CHOOSE f : P(f)
           w == [j \in 1 .. N |-> Length[strtab_records[j]]]
<1>1. StringOffset(N) = off[N]
  BY DEF StringOffset
<1>2. N \in Nat /\ w \in [1 .. N -> Nat]
  <2>1. /\ strtab_records \in Seq(Names \cup {NoName, MAIN, LABEL})
        /\ Len(strtab_records) \in Nat
    BY StringsFound
  <2>2. \A j \in 1 .. N : strtab_records[j] \in Names \cup {NoName, MAIN, LABEL}
    BY <2>1
  <2>3. \A j \in 1 .. N : Length[strtab_records[j]] \in Nat
    BY <2>2, KiwiasAssumption
  <2> QED
    BY <2>1, <2>3
<1>3. \A f : P(f) <=> Offsets(f, w, N)
  <2>1. \A j \in 1 .. N : j # 1 => w[j - 1] = Length[strtab_records[j - 1]]
    BY <1>2
  <2> HIDE DEF w
  <2> QED
    BY <2>1 DEF Offsets
<1>4. \E f : P(f)
  <2> HIDE DEF P, w
  <2> QED
    BY <1>2, <1>3, OffsetsExist
<1>5. P(off)
  <2> HIDE DEF P
  <2> QED
    BY <1>4
<1> HIDE DEF off, P, w
<1>6. off[N] \in Nat
  BY <1>2, <1>3, <1>5, OffsetsTyped
<1> QED
  BY <1>1, <1>6

\* index_in_strtab finds a name that is recorded (lib/kiwias/main.c:642).
LEMMA StringFound ==
  ASSUME Strings, pc \in Recorded, NEW name, InStrtab(name)
  PROVE  index_in_strtab(name) \in Nat /\ StringAt(index_in_strtab(name), name)
<1> DEFINE P(k) == strtab_records[k] = name /\ \A j \in 1 .. k - 1 : strtab_records[j] # name
           S == {k \in 1 .. Len(strtab_records) : strtab_records[k] = name}
           c == CHOOSE k \in 1 .. Len(strtab_records) : P(k)
<1>1. Len(strtab_records) \in Nat
  BY StringsFound
<1>2. S # {} /\ S \subseteq Nat
  BY <1>1 DEF InStrtab, Elements
<1>3. \E k \in 1 .. Len(strtab_records) : P(k)
  <2>1. PICK k \in S : \A m \in S : k <= m
    <3> HIDE DEF S
    <3> QED
      BY <1>2, LeastNat
  <2>2. k \in 1 .. Len(strtab_records) /\ strtab_records[k] = name
    BY <2>1
  <2>3. ASSUME NEW j \in 1 .. k - 1 PROVE strtab_records[j] # name
    <3>1. j \in 1 .. Len(strtab_records) /\ ~ (k <= j)
      BY <1>1, <2>2
    <3> QED
      BY <2>1, <3>1
  <2> QED
    BY <2>2, <2>3
<1>4. c \in 1 .. Len(strtab_records) /\ P(c)
  <2> HIDE DEF P
  <2> QED
    BY <1>3
<1>5. index_in_strtab(name) = StringOffset(c)
  BY DEF index_in_strtab
<1> HIDE DEF c
<1> QED
  BY <1>4, <1>5, StringOffsetTyped DEF StringAt
-----------------------------------------------------------------------------
(* The symbol table.                                                       *)

\* Entries are added behind the ones there are.
LEMMA PutAppends ==
  ASSUME symtab \in Seq(Symbol), idx = Len(symtab), NEW e \in Symbol, Put(e)
  PROVE  /\ symtab' \in Seq(Symbol) /\ Len(symtab) \in Nat /\ Len(symtab') = Len(symtab) + 1
         /\ idx' = Len(symtab')
         /\ \A k \in 1 .. Len(symtab) : symtab'[k] = symtab[k]
         /\ symtab'[Len(symtab) + 1] = e
BY DEF Put

LEMMA StringsStay ==
  ASSUME UNCHANGED strtab_records
  PROVE  \A o, name : StringAt(o, name)' <=> StringAt(o, name)
<1>1. ASSUME NEW k PROVE StringOffset(k)' = StringOffset(k)
  BY DEF StringOffset
<1> QED
  BY <1>1 DEF StringAt

LEMMA SymbolTableKept ==
  ASSUME Strings, SymbolTable, UNCHANGED <<symtab, symbols, relocations, strtab_records, sh_info, idx>>,
         \/ pc' \notin Recorded \ {"symtab"}
         \/ pc = "labels" /\ pc' = "labels" /\ i' = i
         \/ pc = "globals" /\ pc' = "globals" /\ i' = i
         \/ pc = "globals" /\ i = Len(symbols) + 1 /\ pc' = "rela"
         \/ /\ pc \in {"rela", "rela_loop", "headers", "done"}
            /\ pc' \in {"rela", "rela_loop", "headers", "done"}
  PROVE  SymbolTable'
<1>1. \A n : (GlobalsPut(n) => GlobalsPut(n)') /\ (LabelsPut(n) => LabelsPut(n)')
  BY StringsStay DEF GlobalsPut, LabelsPut
<1>2. (SectionSymbols => SectionSymbols') /\ (LocalsFirst => LocalsFirst')
  BY <1>1 DEF SectionSymbols, rela_exists, LocalsFirst
<1>3. CASE pc' \notin Recorded \ {"symtab"}
  BY <1>3 DEF SymbolTable, Recorded
<1>4. CASE pc = "labels" /\ pc' = "labels" /\ i' = i
  BY <1>1, <1>2, <1>4 DEF SymbolTable, Recorded
<1>5. CASE pc = "globals" /\ pc' = "globals" /\ i' = i
  BY <1>1, <1>2, <1>5 DEF SymbolTable, Recorded
<1>6. CASE pc = "globals" /\ i = Len(symbols) + 1 /\ pc' = "rela"
  <2>1. i - 1 = Len(symbols) /\ Len(symtab) = sh_info + 1 + Len(symbols)
    <3>1. Len(symbols) \in Nat /\ Len(relocations) \in Nat
      BY DEF Strings
    <3>2. sh_info = 4 + Len(relocations) /\ Len(symtab) = sh_info + i
      BY <1>6 DEF SymbolTable, LocalsFirst
    <3> QED
      BY <1>6, <3>1, <3>2
  <2> QED
    BY <1>1, <1>2, <1>6, <2>1 DEF SymbolTable, Recorded
<1>7. CASE /\ pc \in {"rela", "rela_loop", "headers", "done"}
           /\ pc' \in {"rela", "rela_loop", "headers", "done"}
  BY <1>1, <1>2, <1>7 DEF SymbolTable, Recorded
<1> QED
  BY <1>3, <1>4, <1>5, <1>6, <1>7

LEMMA StartTable ==
  ASSUME Strings, SymtabStart
  PROVE  SymbolTable'
<1> DEFINE t == IF rela_exists THEN 3 ELSE 2
           u == IF rela_exists THEN 4 ELSE 3
           l(type, shndx) == Local(type, shndx, 0, 0)
<1>1. /\ symtab' = <<l("notype", 0), l("section", 1), l("section", t), l("section", u)>>
      /\ idx' = 4 /\ i' = 1 /\ pc' = "labels" /\ UNCHANGED <<relocations, symbols>>
  BY DEF SymtabStart, pass1
<1>2. \A type \in {"notype", "section"}, shndx \in Nat :
        /\ l(type, shndx) \in Symbol
        /\ l(type, shndx).bind = "local" /\ l(type, shndx).shndx = shndx
  BY DEF Local, Symbol
<1>3. t \in Nat /\ u \in Nat
  OBVIOUS
<1> HIDE DEF l
<1>4. /\ symtab' \in Seq(Symbol) /\ Len(symtab') = 4
      /\ \A k \in 1 .. 4 : symtab'[k].bind = "local"
      /\ symtab'[2].shndx = 1 /\ symtab'[3].shndx = t /\ symtab'[4].shndx = u
  <2> HIDE DEF t, u
  <2>1. /\ l("notype", 0) \in Symbol /\ l("section", 1) \in Symbol
        /\ l("section", t) \in Symbol /\ l("section", u) \in Symbol
    BY <1>2, <1>3
  <2>2. symtab' \in Seq(Symbol) /\ Len(symtab') = 4
    BY <1>1, <2>1
  <2>3. /\ symtab'[1] = l("notype", 0) /\ symtab'[2] = l("section", 1)
        /\ symtab'[3] = l("section", t) /\ symtab'[4] = l("section", u)
    BY <1>1
  <2>4. \A k \in 1 .. 4 : k = 1 \/ k = 2 \/ k = 3 \/ k = 4
    OBVIOUS
  <2> QED
    BY <1>2, <1>3, <2>2, <2>3, <2>4
<1>5. SectionSymbols'
  BY <1>1, <1>4 DEF SectionSymbols, rela_exists
<1>6. LabelsPut(i - 1)'
  BY <1>1 DEF LabelsPut
<1>7. i' \in 1 .. Len(relocations') + 1
  BY <1>1 DEF Strings
<1> QED
  BY <1>1, <1>4, <1>5, <1>6, <1>7 DEF SymbolTable

LEMMA LabelTable ==
  ASSUME Strings, Strings', SymbolTable, SymtabLabel
  PROVE  SymbolTable'
<1> DEFINE e == Local("notype", 1, relocations[i].pos, index_in_strtab(LABEL))
<1>1. /\ pc = "labels" /\ i <= Len(relocations) /\ UNCHANGED <<symbols, strtab_records, sh_info>>
      /\ Put(e) /\ relocations' = [relocations EXCEPT ![i].label = idx] /\ i' = i + 1 /\ pc' = pc
      /\ InStrtab(LABEL)
  BY DEF SymtabLabel, InternalError, Strings
<1>2. /\ relocations \in Seq(Relocation) /\ Len(relocations) \in Nat /\ idx \in Nat
      /\ i \in 1 .. Len(relocations)
  BY <1>1 DEF Strings
<1>3. relocations[i] \in Relocation
  BY <1>2
<1>4. /\ e \in Symbol /\ e.bind = "local" /\ e.shndx = 1 /\ e.value = relocations[i].pos
      /\ StringAt(e.name, LABEL)
  <2>1. index_in_strtab(LABEL) \in Nat /\ StringAt(index_in_strtab(LABEL), LABEL)
    BY <1>1, StringFound DEF Recorded
  <2> QED
    BY <1>3, <2>1 DEF Local, Symbol, Relocation
<1>5. /\ symtab \in Seq(Symbol) /\ idx = Len(symtab) /\ Len(symtab) = 3 + i /\ SectionSymbols
      /\ \A k \in 1 .. Len(symtab) : symtab[k].bind = "local"
      /\ LabelsPut(i - 1)
  BY <1>1 DEF SymbolTable, Recorded
<1> HIDE DEF e
<1>6. /\ symtab' \in Seq(Symbol) /\ Len(symtab') = 4 + i /\ idx' = Len(symtab')
      /\ \A k \in 1 .. Len(symtab) : symtab'[k] = symtab[k]
      /\ symtab'[4 + i] = e
  <2>1. Len(symtab) + 1 = 4 + i
    BY <1>2, <1>5
  <2> QED
    BY <1>1, <1>4, <1>5, <2>1, PutAppends
<1>7. /\ Len(relocations') = Len(relocations) /\ relocations'[i].label = 3 + i
      /\ relocations'[i].pos = relocations[i].pos
      /\ \A r \in 1 .. Len(relocations) : r # i => relocations'[r] = relocations[r]
  BY <1>1, <1>2, <1>3, <1>5 DEF Relocation
<1>8. SectionSymbols'
  <2>1. (relocations # <<>>) <=> (relocations' # <<>>)
    BY <1>1, <1>2, <1>7
  <2>2. \A k \in 2 .. 4 : symtab'[k] = symtab[k]
    BY <1>2, <1>5, <1>6
  <2> QED
    BY <1>5, <2>1, <2>2 DEF SectionSymbols, rela_exists
<1>9. \A k \in 1 .. Len(symtab') : symtab'[k].bind = "local"
  BY <1>2, <1>4, <1>5, <1>6
<1>10. LabelsPut(i - 1)'
  <2> SUFFICES ASSUME NEW r \in 1 .. i
               PROVE  /\ relocations'[r].label = 3 + r
                      /\ symtab'[4 + r].bind = "local" /\ symtab'[4 + r].shndx = 1
                      /\ symtab'[4 + r].value = relocations'[r].pos
                      /\ StringAt(symtab'[4 + r].name, LABEL)
    BY <1>1, <1>2, StringsStay DEF LabelsPut
  <2>1. CASE r = i
    BY <1>1, <1>4, <1>6, <1>7, <2>1
  <2>2. CASE r # i
    <3>1. r \in 1 .. i - 1 /\ r \in 1 .. Len(relocations) /\ 4 + r \in 1 .. Len(symtab)
      BY <1>2, <1>5, <2>2
    <3>2. symtab'[4 + r] = symtab[4 + r] /\ relocations'[r] = relocations[r]
      BY <1>6, <1>7, <2>2, <3>1
    <3> QED
      BY <1>1, <1>5, <3>1, <3>2 DEF LabelsPut
  <2> QED
    BY <2>1, <2>2
<1> QED
  BY <1>1, <1>2, <1>6, <1>7, <1>8, <1>9, <1>10 DEF SymbolTable, Recorded

LEMMA MainTable ==
  ASSUME Strings, Strings', SymbolTable, SymtabMain
  PROVE  SymbolTable'
<1> DEFINE e == Global(1, index_in_strtab(MAIN))
<1>1. /\ pc = "labels" /\ i > Len(relocations) /\ sh_info' = idx /\ Put(e) /\ pc' = "globals"
      /\ i' = 1 /\ InStrtab(MAIN) /\ UNCHANGED <<symbols, relocations, strtab_records>>
  BY DEF SymtabMain, InternalError, Strings, pass1
<1>2. Len(relocations) \in Nat /\ Len(symbols) \in Nat
  BY DEF Strings
<1>3. e \in Symbol /\ e.bind = "global"
  <2>1. index_in_strtab(MAIN) \in Nat
    BY <1>1, StringFound DEF Recorded
  <2> QED
    BY <2>1 DEF Global, Symbol
<1>4. /\ symtab \in Seq(Symbol) /\ idx = Len(symtab) /\ Len(symtab) = 3 + i /\ SectionSymbols
      /\ i \in 1 .. Len(relocations) + 1
      /\ \A k \in 1 .. Len(symtab) : symtab[k].bind = "local"
      /\ LabelsPut(i - 1)
  BY <1>1 DEF SymbolTable, Recorded
<1>5. i = Len(relocations) + 1 /\ sh_info' = 4 + Len(relocations) /\ Len(symtab) = sh_info'
  BY <1>1, <1>2, <1>4
<1> HIDE DEF e
<1>6. /\ symtab' \in Seq(Symbol) /\ Len(symtab') = sh_info' + 1 /\ idx' = Len(symtab')
      /\ \A k \in 1 .. sh_info' : symtab'[k] = symtab[k]
      /\ symtab'[sh_info' + 1] = e
  BY <1>1, <1>3, <1>4, <1>5, PutAppends
<1>7. SectionSymbols'
  BY <1>1, <1>2, <1>4, <1>5, <1>6 DEF SectionSymbols, rela_exists
<1>8. LabelsPut(Len(relocations))'
  <2> SUFFICES ASSUME NEW r \in 1 .. Len(relocations)
               PROVE  /\ relocations[r].label = 3 + r
                      /\ symtab'[4 + r].bind = "local" /\ symtab'[4 + r].shndx = 1
                      /\ symtab'[4 + r].value = relocations[r].pos
                      /\ StringAt(symtab'[4 + r].name, LABEL)
    BY <1>1, StringsStay DEF LabelsPut
  <2>1. r \in 1 .. i - 1 /\ 4 + r \in 1 .. sh_info'
    BY <1>2, <1>5
  <2> QED
    BY <1>1, <1>4, <1>6, <2>1 DEF LabelsPut
<1>9. \A k \in 1 .. Len(symtab') : symtab'[k].bind = "local" <=> k <= sh_info'
  BY <1>2, <1>3, <1>4, <1>5, <1>6
<1>10. i' \in 1 .. Len(symbols') + 1 /\ Len(symtab') = sh_info' + i'
  BY <1>1, <1>2, <1>5, <1>6
<1>11. GlobalsPut(i - 1)'
  BY <1>1 DEF GlobalsPut
<1>12. Len(symtab') >= 4
  BY <1>2, <1>5, <1>6
<1> QED
  BY <1>1, <1>5, <1>6, <1>7, <1>8, <1>9, <1>10, <1>11, <1>12 DEF SymbolTable, LocalsFirst, Recorded

LEMMA GlobalTable ==
  ASSUME Strings, Strings', SymbolTable, SymtabSymbol
  PROVE  SymbolTable'
<1> DEFINE e == Global(0, index_in_strtab(symbols[i]))
<1>1. /\ pc = "globals" /\ i <= Len(symbols) /\ UNCHANGED <<symbols, strtab_records, sh_info>>
      /\ Put(e) /\ relocations' = update_relocation(symbols[i], idx) /\ i' = i + 1 /\ pc' = pc
      /\ InStrtab(symbols[i])
  BY DEF SymtabSymbol, InternalError, Strings
<1>2. /\ relocations \in Seq(Relocation) /\ Len(relocations) \in Nat /\ idx \in Nat
      /\ Len(symbols) \in Nat /\ i \in 1 .. Len(symbols)
  BY <1>1 DEF Strings
<1>3. e \in Symbol /\ e.bind = "global" /\ e.shndx = 0 /\ StringAt(e.name, symbols[i])
  <2>1. /\ index_in_strtab(symbols[i]) \in Nat
        /\ StringAt(index_in_strtab(symbols[i]), symbols[i])
    BY <1>1, StringFound DEF Recorded
  <2> QED
    BY <2>1 DEF Global, Symbol
<1>4. /\ symtab \in Seq(Symbol) /\ idx = Len(symtab) /\ Len(symtab) = sh_info + i
      /\ SectionSymbols /\ LocalsFirst /\ GlobalsPut(i - 1)
  BY <1>1 DEF SymbolTable, Recorded
<1>5. sh_info \in Nat /\ sh_info = 4 + Len(relocations)
  BY <1>2, <1>4 DEF LocalsFirst
<1> HIDE DEF e
<1>6. /\ symtab' \in Seq(Symbol) /\ Len(symtab') = sh_info + 1 + i /\ idx' = Len(symtab')
      /\ \A k \in 1 .. Len(symtab) : symtab'[k] = symtab[k]
      /\ symtab'[sh_info + 1 + i] = e
  <2>1. Len(symtab) + 1 = sh_info + 1 + i
    BY <1>2, <1>4, <1>5
  <2> QED
    BY <1>1, <1>3, <1>4, <2>1, PutAppends
<1>7. /\ Len(relocations') = Len(relocations)
      /\ \A r \in 1 .. Len(relocations) :
           /\ relocations'[r].name = relocations[r].name
           /\ relocations'[r].pos = relocations[r].pos
           /\ relocations'[r].label = relocations[r].label
           /\ relocations'[r].symbol =
                IF relocations[r].name = symbols[i] THEN idx ELSE relocations[r].symbol
  <2>1. Len(relocations') = Len(relocations)
    BY <1>2, RelocationsStay DEF SameRelocations
  <2>2. \A r \in 1 .. Len(relocations) : relocations[r] \in Relocation
    BY <1>2
  <2> QED
    BY <1>1, <2>1, <2>2 DEF update_relocation, Relocation
<1>8. SectionSymbols'
  <2>1. (relocations # <<>>) <=> (relocations' # <<>>)
    BY <1>2, <1>7, RelocationsStay
  <2>2. \A k \in 2 .. 4 : symtab'[k] = symtab[k]
    BY <1>2, <1>4, <1>5, <1>6
  <2> QED
    BY <1>4, <2>1, <2>2 DEF SectionSymbols, rela_exists
<1>9. LabelsPut(Len(relocations))'
  <2> SUFFICES ASSUME NEW r \in 1 .. Len(relocations)
               PROVE  /\ relocations'[r].label = 3 + r
                      /\ symtab'[4 + r].bind = "local" /\ symtab'[4 + r].shndx = 1
                      /\ symtab'[4 + r].value = relocations'[r].pos
                      /\ StringAt(symtab'[4 + r].name, LABEL)
    BY <1>1, <1>7, StringsStay DEF LabelsPut
  <2>1. 4 + r \in 1 .. Len(symtab)
    BY <1>2, <1>4, <1>5
  <2> QED
    BY <1>1, <1>4, <1>6, <1>7, <2>1 DEF LocalsFirst, LabelsPut
<1>10. \A k \in 1 .. Len(symtab') : symtab'[k].bind = "local" <=> k <= sh_info
  <2> SUFFICES ASSUME NEW k \in 1 .. Len(symtab')
               PROVE  symtab'[k].bind = "local" <=> k <= sh_info
    OBVIOUS
  <2>1. CASE k = sh_info + 1 + i
    <3>1. symtab'[k].bind = "global" /\ ~ (k <= sh_info)
      BY <1>2, <1>3, <1>5, <1>6, <2>1
    <3> QED
      BY <3>1
  <2>2. CASE k # sh_info + 1 + i
    <3>1. k \in 1 .. Len(symtab)
      <4>1. PICK n \in Nat : n = sh_info + i
        BY <1>2, <1>5
      <4>2. Len(symtab) = n /\ Len(symtab') = n + 1 /\ k # n + 1
        BY <1>2, <1>4, <1>5, <1>6, <2>2, <4>1
      <4> QED
        BY <4>2
    <3> QED
      BY <1>4, <1>6, <3>1 DEF LocalsFirst
  <2> QED
    BY <2>1, <2>2
<1>11. GlobalsPut(i - 1)'
  <2> SUFFICES ASSUME NEW j \in 1 .. i
               PROVE  /\ symtab'[sh_info + 1 + j].bind = "global"
                      /\ symtab'[sh_info + 1 + j].shndx = 0
                      /\ StringAt(symtab'[sh_info + 1 + j].name, symbols[j])
                      /\ \A r \in 1 .. Len(relocations) :
                           relocations'[r].name = symbols[j] => relocations'[r].symbol = sh_info + j
    BY <1>1, <1>2, <1>7, StringsStay DEF GlobalsPut
  <2>1. CASE j = i
    BY <1>1, <1>3, <1>4, <1>6, <1>7, <2>1
  <2>2. CASE j # i
    <3>1. j \in 1 .. i - 1 /\ j \in 1 .. Len(symbols) /\ sh_info + 1 + j \in 1 .. Len(symtab)
      BY <1>2, <1>4, <1>5, <2>2
    <3>2. symbols[j] # symbols[i]
      BY <1>2, <2>2, <3>1 DEF Strings
    <3> QED
      BY <1>1, <1>4, <1>6, <1>7, <3>1, <3>2 DEF GlobalsPut
  <2> QED
    BY <2>1, <2>2
<1>12. i' \in 1 .. Len(symbols') + 1 /\ Len(symtab') = sh_info' + i' /\ Len(symtab') >= 4
  BY <1>1, <1>2, <1>5, <1>6
<1> QED
  BY <1>1, <1>5, <1>6, <1>7, <1>8, <1>9, <1>10, <1>11, <1>12 DEF SymbolTable, LocalsFirst, Recorded

LEMMA SymbolTableStep ==
  ASSUME Strings, Strings', SymbolTable, [Next]_vars
  PROVE  SymbolTable'
<1>1. CASE SymtabStart
  BY <1>1, StartTable
<1>2. CASE SymtabLabel
  BY <1>2, LabelTable
<1>3. CASE SymtabMain
  BY <1>3, MainTable
<1>4. CASE SymtabSymbol
  BY <1>4, GlobalTable
<1>5. CASE gen_strtab_section
  <2>1. i = Len(symbols) + 1
    <3>1. pc = "globals" /\ i > Len(symbols) /\ Len(symbols) \in Nat
      BY <1>5 DEF gen_strtab_section, Strings
    <3> QED
      BY <3>1 DEF SymbolTable
  <2> QED
    BY <1>5, <2>1, SymbolTableKept DEF gen_strtab_section, pass1, tables
<1>6. CASE RelaStart \/ RelaEntry
  BY <1>6, SymbolTableKept DEF RelaStart, RelaEntry, pass1, tables
<1>7. CASE gen_shstrtab_section \/ gen_section_header_table
  BY <1>7, SymbolTableKept DEF gen_shstrtab_section, gen_section_header_table, pass1, tables
<1>8. CASE (\E l \in Lines : ParseLine(l)) \/ OpenOutput \/ TextNode \/ EndText \/ prepare_strtab_records
  <2>1. pc' \in {"parse", "error", "text", "crash", "strtab_records", "symtab"}
    BY <1>8 DEF ParseLine, ParseArith, ParseLa, ParseJr, IgnoreLine, ParseError, add_node, vars,
                OpenOutput, TextNode, EndText, prepare_strtab_records
  <2> QED
    BY <2>1 DEF SymbolTable, Recorded
<1>9. CASE UNCHANGED vars
  <2>1. UNCHANGED <<pc, i, symtab, symbols, relocations, strtab_records, sh_info, idx>>
    BY <1>9 DEF vars, pass1, tables
  <2>2. \/ pc \notin Recorded \ {"symtab"} \/ pc = "labels" \/ pc = "globals"
        \/ pc \in {"rela", "rela_loop", "headers", "done"}
    BY DEF Recorded
  <2> QED
    BY <2>1, <2>2, SymbolTableKept
<1> QED
  BY <1>1, <1>2, <1>3, <1>4, <1>5, <1>6, <1>7, <1>8, <1>9 DEF Next, Write
-----------------------------------------------------------------------------
(* .rela.text.                                                             *)

LEMMA RelaTableStep ==
  ASSUME Strings, Strings', SymbolTable, RelaTable, [Next]_vars
  PROVE  RelaTable'
<1> DEFINE E == [offset : Nat, type : {"pcrel_hi20", "relax", "pcrel_lo12"}, sym : Nat]
<1>1. rela \in Seq(E) /\ i \in Nat /\ Len(relocations) \in Nat
  BY DEF RelaTable, Strings
<1>2. CASE RelaEntry
  <2> DEFINE r == relocations[i]
             a == Rela(r.pos, "pcrel_hi20", r.symbol)
             b == Rela(r.pos, "relax", 0)
             c == Rela(r.pos + 4, "pcrel_lo12", r.label)
             d == Rela(r.pos + 4, "relax", 0)
  <2>1. /\ pc = "rela_loop" /\ pc' = "rela_loop" /\ i <= Len(relocations) /\ i' = i + 1 /\ i > 0
        /\ UNCHANGED relocations /\ rela' = rela \o <<a, b, c, d>>
    BY <1>2 DEF RelaEntry, pass1, RelaTable
  <2>2. r \in Relocation
    BY <1>1, <2>1 DEF Strings
  <2>3. a \in E /\ b \in E /\ c \in E /\ d \in E
    BY <2>2 DEF Rela, Relocation
  <2> HIDE DEF a, b, c, d, E
  <2>4. /\ rela' \in Seq(E) /\ Len(rela') = Len(rela) + 4 /\ Len(rela) \in Nat
        /\ \A k \in 1 .. Len(rela) : rela'[k] = rela[k]
        /\ rela'[Len(rela) + 1] = a /\ rela'[Len(rela) + 3] = c
    BY <1>1, <2>1, <2>3
  <2>5. Elements(rela) \subseteq Elements(rela') /\ a \in Elements(rela') /\ c \in Elements(rela')
    BY <2>4 DEF Elements
  <2>6. ASSUME NEW q \in 1 .. Len(relocations), q < i' PROVE RelaPut(q)'
    <3>1. CASE q = i
      BY <2>1, <2>5, <3>1 DEF RelaPut, a, c
    <3>2. CASE q # i
      <4>1. RelaPut(q)
        BY <1>1, <2>1, <2>6, <3>2 DEF RelaTable
      <4> QED
        BY <2>1, <2>5, <4>1 DEF RelaPut
    <3> QED
      BY <3>1, <3>2
  <2> QED
    BY <1>1, <2>1, <2>4, <2>6 DEF RelaTable, E
<1>3. CASE RelaStart
  BY <1>1, <1>3 DEF RelaStart, pass1, tables, RelaTable
<1>4. CASE gen_shstrtab_section
  <2>1. /\ UNCHANGED <<relocations, rela>> /\ pc = "rela_loop" /\ pc' = "headers"
        /\ i > Len(relocations)
    BY <1>4 DEF gen_shstrtab_section, pass1, tables
  <2>2. \A r \in 1 .. Len(relocations) : RelaPut(r)
    BY <1>1, <2>1 DEF RelaTable
  <2> QED
    BY <1>1, <2>1, <2>2 DEF RelaTable, RelaPut
<1>5. CASE gen_section_header_table
  <2>1. UNCHANGED <<relocations, rela>> /\ pc = "headers" /\ pc' = "done"
    BY <1>5 DEF gen_section_header_table, pass1
  <2> QED
    BY <2>1 DEF RelaTable, RelaPut
<1>6. CASE gen_strtab_section
  BY <1>6 DEF gen_strtab_section, tables, RelaTable
<1>7. CASE SymtabStart \/ SymtabLabel \/ SymtabMain \/ SymtabSymbol
  <2>1. UNCHANGED rela /\ pc \in Recorded /\ pc' \in {"labels", "globals"} \cup {"internal"}
        /\ pc \notin {"rela_loop", "headers", "done"}
    BY <1>7 DEF SymtabStart, SymtabLabel, SymtabMain, SymtabSymbol, InternalError, Recorded
  <2> QED
    BY <2>1 DEF RelaTable
<1>8. CASE (\E l \in Lines : ParseLine(l)) \/ OpenOutput \/ TextNode \/ EndText \/ prepare_strtab_records
  <2>1. /\ UNCHANGED rela
        /\ pc \in {"parse", "text", "strtab_records"}
        /\ pc' \in {"parse", "error", "text", "crash", "strtab_records", "symtab"}
    BY <1>8 DEF ParseLine, ParseArith, ParseLa, ParseJr, IgnoreLine, ParseError, add_node, vars,
                tables, OpenOutput, TextNode, EndText, prepare_strtab_records
  <2> QED
    BY <2>1 DEF RelaTable
<1>9. CASE UNCHANGED vars
  BY <1>9 DEF vars, pass1, tables, RelaTable, RelaPut
<1> QED
  BY <1>2, <1>3, <1>4, <1>5, <1>6, <1>7, <1>8, <1>9 DEF Next, Write
-----------------------------------------------------------------------------
(* Every `la` is linked, for sources in which jr is used with ra only.     *)

\* Every la has its relocation, and every auipc is that of an la, where pass 1
\* counted it.
LasRelocated ==
  /\ \A n \in 1 .. Len(nodes) :
       nodes[n].kind = "la" => \E r \in 1 .. Len(relocations) : IsLaOf(n, relocations[r])
  /\ \A k \in 1 .. Len(text) :
       text[k].op = "auipc" =>
         /\ text[k].node \in 1 .. Len(nodes)
         /\ nodes[text[k].node].kind = "la" /\ nodes[text[k].node].pos = 4 * (k - 1)
LEMMA LasKept ==
  ASSUME LasRelocated, UNCHANGED <<nodes, text>>, SameRelocations
  PROVE  LasRelocated'
BY DEF LasRelocated, IsLaOf, SameRelocations

LEMMA ParseLas ==
  ASSUME IInv, LasRelocated, NEW l \in Lines, ParseLine(l)
  PROVE  LasRelocated'
<1>1. /\ text = <<>> /\ UNCHANGED text /\ nodes \in Seq(Node) /\ Len(nodes) \in Nat
      /\ relocations \in Seq(Relocation) /\ Len(relocations) \in Nat /\ cur_pos \in Nat
  <2>1. pc = "parse" /\ UNCHANGED text
    BY DEF ParseLine, ParseArith, ParseLa, ParseJr, IgnoreLine, ParseError, add_node, vars
  <2> QED
    BY <2>1 DEF IInv, Typed, TextWritten
<1> SUFFICES ASSUME NEW n \in 1 .. Len(nodes'), nodes'[n].kind = "la"
             PROVE  \E r \in 1 .. Len(relocations') : IsLaOf(n, relocations[r])'
  BY <1>1 DEF LasRelocated
<1>2. CASE ParseLa(l)
  <2> DEFINE e == [pos |-> cur_pos, name |-> l.name, symbol |-> 0, label |-> 0]
             m == [kind |-> "la", symbol |-> l.name, pos |-> cur_pos]
  <2>1. nodes' = Append(nodes, m) /\ relocations' = Append(relocations, e)
    BY <1>2 DEF ParseLa, add_node
  <2>2. /\ m.kind = "la" /\ m.pos = cur_pos /\ m.symbol = l.name
        /\ e.pos = cur_pos /\ e.name = l.name
    OBVIOUS
  <2> HIDE DEF e, m
  <2>3. /\ Len(nodes') = Len(nodes) + 1 /\ nodes'[Len(nodes) + 1] = m
        /\ \A k \in 1 .. Len(nodes) : nodes'[k] = nodes[k]
        /\ Len(relocations') = Len(relocations) + 1 /\ relocations'[Len(relocations) + 1] = e
        /\ \A r \in 1 .. Len(relocations) : relocations'[r] = relocations[r]
    BY <1>1, <2>1
  <2>4. CASE n = Len(nodes) + 1
    <3>1. PICK r \in 1 .. Len(relocations') : r = Len(relocations) + 1
      BY <1>1, <2>3
    <3>2. IsLaOf(n, relocations[r])'
      BY <2>2, <2>3, <2>4, <3>1 DEF IsLaOf
    <3> QED
      BY <3>2
  <2>5. CASE n \in 1 .. Len(nodes)
    <3>1. PICK r \in 1 .. Len(relocations) : IsLaOf(n, relocations[r])
      BY <2>3, <2>5 DEF LasRelocated
    <3>2. r \in 1 .. Len(relocations') /\ relocations'[r] = relocations[r] /\ nodes'[n] = nodes[n]
      BY <1>1, <2>3, <2>5, <3>1
    <3> QED
      BY <3>1, <3>2 DEF IsLaOf
  <2> QED
    BY <1>1, <2>3, <2>4, <2>5
<1>3. ASSUME NEW kind \in Arith \cup {"jr"}, NEW size, add_node(kind, NoName, size), UNCHANGED relocations
      PROVE  \E r \in 1 .. Len(relocations') : IsLaOf(n, relocations[r])'
  <2> DEFINE m == [kind |-> kind, symbol |-> NoName, pos |-> cur_pos]
  <2>1. nodes' = Append(nodes, m) /\ m.kind # "la"
    BY <1>3 DEF add_node, Arith
  <2> HIDE DEF m
  <2>2. /\ Len(nodes') = Len(nodes) + 1 /\ nodes'[Len(nodes) + 1] = m
        /\ \A k \in 1 .. Len(nodes) : nodes'[k] = nodes[k]
    BY <1>1, <2>1
  <2>3. n \in 1 .. Len(nodes) /\ nodes'[n] = nodes[n]
    BY <1>1, <2>1, <2>2
  <2>4. PICK r \in 1 .. Len(relocations) : IsLaOf(n, relocations[r])
    BY <2>3 DEF LasRelocated
  <2> QED
    BY <1>3, <2>3, <2>4 DEF IsLaOf
<1>4. CASE ParseArith(l)
  BY <1>3, <1>4 DEF ParseArith
<1>5. CASE ParseJr(l)
  BY <1>3, <1>5 DEF ParseJr, Arith
<1>6. CASE IgnoreLine(l) \/ ParseError(l)
  <2>1. UNCHANGED <<nodes, relocations>>
    BY <1>6 DEF IgnoreLine, ParseError, vars, pass1
  <2> QED
    BY <2>1 DEF LasRelocated, IsLaOf
<1> QED
  BY <1>2, <1>4, <1>5, <1>6 DEF ParseLine

LEMMA WordsLas ==
  ASSUME IInv, LasRelocated, TextNode
  PROVE  LasRelocated'
<1> PICK p : p = i
  OBVIOUS
<1>1. /\ pc = "text" /\ p \in 1 .. Len(nodes) /\ UNCHANGED <<nodes, relocations>>
      /\ text' = text \o Words(p)
  BY DEF TextNode, pass1, IInv, TextWritten
<1>2. /\ nodes \in Seq(Node) /\ text \in Seq(Word) /\ Len(nodes) \in Nat /\ Len(text) \in Nat
      /\ nodes[p] \in Node /\ 4 * Len(text) = nodes[p].pos
  BY <1>1 DEF IInv, Typed, TextWritten, StartOf
<1> SUFFICES ASSUME NEW k \in 1 .. Len(text'), text'[k].op = "auipc"
             PROVE  /\ text'[k].node \in 1 .. Len(nodes)
                    /\ nodes[text'[k].node].kind = "la" /\ nodes[text'[k].node].pos = 4 * (k - 1)
  BY <1>1 DEF LasRelocated, IsLaOf
<1>3. CASE nodes[p].kind = "la"
  <2> DEFINE a == [op |-> "auipc", node |-> p]
             b == [op |-> "addi", node |-> p]
  <2>1. /\ text' = text \o <<a, b>> /\ a \in Word /\ b \in Word
        /\ a.node = p /\ b.op # "auipc"
    BY <1>1, <1>2, <1>3 DEF Words, Word, Arith
  <2> HIDE DEF a, b
  <2>2. /\ Len(text') = Len(text) + 2 /\ text'[Len(text) + 1] = a /\ text'[Len(text) + 2] = b
        /\ \A m \in 1 .. Len(text) : text'[m] = text[m]
    BY <1>2, <2>1
  <2>3. CASE k \in 1 .. Len(text)
    BY <1>1, <2>2, <2>3 DEF LasRelocated
  <2>4. CASE k = Len(text) + 1
    <3>1. 4 * (k - 1) = nodes[p].pos
      BY <1>2, <2>4
    <3> QED
      BY <1>1, <1>3, <2>1, <2>2, <2>4, <3>1
  <2>5. CASE k = Len(text) + 2
    BY <2>1, <2>2, <2>5
  <2>6. k \in 1 .. Len(text) \/ k = Len(text) + 1 \/ k = Len(text) + 2
    <3>1. Len(text) \in Nat /\ k \in 1 .. Len(text) + 2
      BY <1>2, <2>2
    <3> QED
      BY <3>1
  <2> QED
    BY <2>3, <2>4, <2>5, <2>6
<1>4. CASE nodes[p].kind # "la"
  <2> DEFINE w == [op |-> nodes[p].kind, node |-> p]
  <2>1. text' = text \o <<w>> /\ w \in Word /\ w.op # "auipc"
    <3>1. nodes[p].kind \in Arith \cup {"jr"}
      BY <1>2, <1>4 DEF Node
    <3>2. w \in Word /\ w.op = nodes[p].kind
      <4>1. p \in Nat
        BY <1>1
      <4> QED
        BY <3>1, <4>1 DEF Word
    <3>3. nodes[p].kind # "auipc"
      BY <3>1 DEF Arith
    <3>4. text' = text \o <<w>>
      BY <1>1, <1>4 DEF Words
    <3> QED
      BY <3>2, <3>3, <3>4
  <2> HIDE DEF w
  <2>2. /\ Len(text') = Len(text) + 1 /\ text'[Len(text) + 1] = w
        /\ \A m \in 1 .. Len(text) : text'[m] = text[m]
    BY <1>2, <2>1
  <2>3. k \in 1 .. Len(text)
    BY <1>2, <2>1, <2>2
  <2> QED
    BY <1>1, <2>2, <2>3 DEF LasRelocated
<1> QED
  BY <1>3, <1>4

LEMMA LasStep ==
  ASSUME IInv, LasRelocated, [Next]_vars
  PROVE  LasRelocated'
<1>1. CASE \E l \in Lines : ParseLine(l)
  BY <1>1, ParseLas
<1>2. CASE TextNode
  BY <1>2, WordsLas
<1>3. CASE SymtabLabel \/ SymtabSymbol
  <2>1. SameRelocations
    BY <1>3, RelocationsStay DEF IInv, Typed
  <2> QED
    BY <1>3, <2>1, LasKept DEF SymtabLabel, SymtabSymbol
<1>4. CASE OpenOutput \/ EndText \/ prepare_strtab_records \/ SymtabStart \/ SymtabMain
           \/ gen_strtab_section
  BY <1>4, LasKept DEF OpenOutput, EndText, prepare_strtab_records, SymtabStart, SymtabMain,
     gen_strtab_section, pass1, SameRelocations
<1>5. CASE RelaStart \/ RelaEntry \/ gen_shstrtab_section \/ gen_section_header_table \/ UNCHANGED vars
  BY <1>5, LasKept DEF RelaStart, RelaEntry, gen_shstrtab_section, gen_section_header_table, vars,
     pass1, SameRelocations
<1> QED
  BY <1>1, <1>2, <1>3, <1>4, <1>5 DEF Next, Write
-----------------------------------------------------------------------------
(* The section header table, and the places of the sections.               *)

\* The header table has the sections secs, with the links the ELF header and
\* the sections use.
Headers(secs, symtab_at, shstrtab_at) ==
  LET e == headers.entries
  IN /\ Len(e) = Len(secs) /\ \A k \in 1 .. Len(secs) : e[k].sec = secs[k]
     /\ headers.shnum = Len(secs) /\ headers.shstrndx = shstrtab_at - 1
     /\ e[symtab_at].link = symtab_at /\ e[symtab_at].info = sh_info

HeaderTable ==
  /\ pc # "done" => headers.shnum = 7 /\ headers.shstrndx = 6
  /\ pc = "done" =>
       IF rela_exists
       THEN /\ Headers(<<"null", "text", "rela", "data", "bss", "symtab", "strtab", "shstrtab">>, 6, 8)
            /\ headers.entries[3].link = 5 /\ headers.entries[3].info = 1
       ELSE Headers(<<"null", "text", "data", "bss", "symtab", "strtab", "shstrtab">>, 5, 7)

EndOf(s) == section[s].offset + section[s].size

TextLaid ==
  /\ section["text"].offset = 64 /\ section["text"].size = 4 * Len(text)
  /\ section["data"].offset = EndOf("text") /\ section["data"].size = 0
  /\ section["bss"].offset = EndOf("text") /\ section["bss"].size = 0

SymtabBegun ==
  EndOf("text") <= section["symtab"].offset /\ section["symtab"].offset % 8 = 0

SymtabLaid ==
  /\ SymtabBegun /\ section["symtab"].size = 24 * Len(symtab)
  /\ section["strtab"].offset = EndOf("symtab")

RelaBegun ==
  /\ EndOf("strtab") <= section["rela"].offset
  /\ rela_exists => section["rela"].offset % 8 = 0

RelaLaid ==
  /\ RelaBegun /\ section["rela"].size = 24 * Len(rela)
  /\ section["shstrtab"].offset = EndOf("rela")

Placement ==
  /\ section \in [Sections -> [offset : Nat, size : Nat]] /\ offset \in Nat
  /\ pc = "parse" => text = <<>> /\ \A s \in Sections : section[s].size = 0
  /\ pc = "text" => /\ section["text"].offset = 64 /\ offset = 64 + 4 * Len(text)
                    /\ \A s \in Sections : section[s].size = 0
  /\ pc \in {"strtab_records", "symtab"} => TextLaid /\ offset = EndOf("text")
  /\ pc \in {"labels", "globals"} =>
       TextLaid /\ SymtabBegun /\ offset = section["symtab"].offset + 24 * Len(symtab)
  /\ pc = "rela" => TextLaid /\ SymtabLaid /\ offset = EndOf("strtab")
  /\ pc = "rela_loop" =>
       TextLaid /\ SymtabLaid /\ RelaBegun /\ offset = section["rela"].offset + 24 * Len(rela)
  /\ pc = "headers" =>
       TextLaid /\ SymtabLaid /\ RelaLaid /\ EndOf("shstrtab") <= offset /\ offset % 8 = 0
  /\ pc = "done" =>
       /\ TextLaid /\ SymtabLaid /\ RelaLaid
       /\ headers.shoff \in Nat /\ EndOf("shstrtab") <= headers.shoff /\ headers.shoff % 8 = 0

LEMMA ConcatAt ==
  ASSUME NEW S, NEW x \in Seq(S), NEW y \in Seq(S)
  PROVE  /\ x \o y \in Seq(S) /\ Len(x \o y) = Len(x) + Len(y)
         /\ \A k \in 1 .. Len(x) : (x \o y)[k] = x[k]
         /\ \A k \in 1 .. Len(y) : (x \o y)[Len(x) + k] = y[k]
OBVIOUS

LEMMA SevenEntries ==
  ASSUME NEW a, NEW b, NEW d, NEW e, NEW f, NEW g, NEW h
  PROVE  <<a, b>> \o <<>> \o <<d, e, f, g, h>> = <<a, b, d, e, f, g, h>>
<1> DEFINE S == {a, b, d, e, f, g, h}
           x == <<a, b>>
           y == <<d, e, f, g, h>>
           v == x \o y
<1>1. x \in Seq(S) /\ y \in Seq(S)
  OBVIOUS
<1>2. /\ x[1] = a /\ x[2] = b /\ Len(x) = 2 /\ Len(y) = 5
      /\ y[1] = d /\ y[2] = e /\ y[3] = f /\ y[4] = g /\ y[5] = h
  OBVIOUS
<1>3. x \o <<>> = x
  BY <1>1
<1> HIDE DEF x, y, S
<1>4. /\ v \in Seq(S) /\ Len(v) = Len(x) + Len(y) /\ \A k \in 1 .. Len(x) : v[k] = x[k]
      /\ \A k \in 1 .. Len(y) : v[Len(x) + k] = y[k]
  BY <1>1, ConcatAt
<1> HIDE DEF v
<1>5. v[2 + 1] = d /\ v[2 + 2] = e /\ v[2 + 3] = f /\ v[2 + 4] = g /\ v[2 + 5] = h
  BY <1>2, <1>4
<1>6. v = <<a, b, d, e, f, g, h>>
  BY <1>2, <1>4, <1>5
<1> QED
  BY <1>3, <1>6 DEF v, x, y

LEMMA EightEntries ==
  ASSUME NEW a, NEW b, NEW c, NEW d, NEW e, NEW f, NEW g, NEW h
  PROVE  <<a, b>> \o <<c>> \o <<d, e, f, g, h>> = <<a, b, c, d, e, f, g, h>>
<1> DEFINE S == {a, b, c, d, e, f, g, h}
           w == <<a, b>>
           x == <<a, b, c>>
           y == <<d, e, f, g, h>>
           v == x \o y
<1>1. x \in Seq(S) /\ y \in Seq(S) /\ w \in Seq(S)
  OBVIOUS
<1>2. /\ x[1] = a /\ x[2] = b /\ x[3] = c /\ Len(x) = 3 /\ Len(y) = 5
      /\ y[1] = d /\ y[2] = e /\ y[3] = f /\ y[4] = g /\ y[5] = h
  OBVIOUS
<1>3. w \o <<c>> = x
  <2> DEFINE u == w \o <<c>>
  <2>1. u \in Seq(S) /\ Len(u) = 3 /\ u[1] = a /\ u[2] = b /\ u[3] = c
    <3>1. <<c>> \in Seq(S) /\ Len(<<c>>) = 1 /\ Len(w) = 2
      OBVIOUS
    <3> QED
      BY <1>1, <3>1, ConcatProperties
  <2>2. u = x
    <3> HIDE DEF u
    <3> QED
      BY <2>1
  <2> QED
    BY <2>2
<1> HIDE DEF w, x, y, S
<1>4. /\ v \in Seq(S) /\ Len(v) = Len(x) + Len(y) /\ \A k \in 1 .. Len(x) : v[k] = x[k]
      /\ \A k \in 1 .. Len(y) : v[Len(x) + k] = y[k]
  BY <1>1, ConcatAt
<1> HIDE DEF v
<1>5. v[3 + 1] = d /\ v[3 + 2] = e /\ v[3 + 3] = f /\ v[3 + 4] = g /\ v[3 + 5] = h
  BY <1>2, <1>4
<1>6. v = <<a, b, c, d, e, f, g, h>>
  BY <1>2, <1>4, <1>5
<1> QED
  BY <1>3, <1>6 DEF v, w, x, y

LEMMA HeaderTableStep ==
  ASSUME HeaderTable, [Next]_vars
  PROVE  HeaderTable'
<1>1. CASE gen_section_header_table
  <2> DEFINE null == [sec |-> "null", name |-> 0, offset |-> 0, size |-> 0, link |-> 0, info |-> 0]
  <2>1. /\ pc = "headers" /\ pc' = "done" /\ UNCHANGED <<relocations, sh_info>>
        /\ headers.shnum = 7 /\ headers.shstrndx = 6
    BY <1>1 DEF gen_section_header_table, pass1, HeaderTable
  <2>2. \A s, link, info : /\ Entry(s, link, info).sec = s /\ Entry(s, link, info).link = link
                           /\ Entry(s, link, info).info = info
    BY DEF Entry
  <2>3. CASE rela_exists
    <3>1. /\ headers'.shnum = 8 /\ headers'.shstrndx = 7
          /\ headers'.entries =
               <<null, Entry("text", 0, 0), Entry("rela", 5, 1), Entry("data", 0, 0),
                 Entry("bss", 0, 0), Entry("symtab", 6, sh_info), Entry("strtab", 0, 0),
                 Entry("shstrtab", 0, 0)>>
      BY <1>1, <2>3, EightEntries DEF gen_section_header_table
    <3> QED
      BY <2>1, <2>2, <2>3, <3>1 DEF HeaderTable, Headers, rela_exists
  <2>4. CASE ~rela_exists
    <3>1. headers'.shnum = 7 /\ headers'.shstrndx = 6
      BY <1>1, <2>1, <2>4 DEF gen_section_header_table
    <3>2. headers'.entries =
               <<null, Entry("text", 0, 0), Entry("data", 0, 0),
                 Entry("bss", 0, 0), Entry("symtab", 5, sh_info), Entry("strtab", 0, 0),
                 Entry("shstrtab", 0, 0)>>
      BY <1>1, <2>1, <2>4, SevenEntries DEF gen_section_header_table
    <3> QED
      BY <2>1, <2>2, <2>4, <3>1, <3>2 DEF HeaderTable, Headers, rela_exists
  <2> QED
    BY <2>3, <2>4
<1>2. ASSUME UNCHANGED headers, pc # "done", pc' # "done" PROVE HeaderTable'
  BY <1>2 DEF HeaderTable
<1>3. CASE \E l \in Lines : ParseLine(l)
  BY <1>2, <1>3 DEF ParseLine, ParseArith, ParseLa, ParseJr, IgnoreLine, ParseError, add_node, vars, tables
<1>4. CASE OpenOutput \/ TextNode \/ EndText \/ prepare_strtab_records \/ SymtabStart
  BY <1>2, <1>4 DEF OpenOutput, TextNode, EndText, prepare_strtab_records, SymtabStart, tables
<1>5. CASE SymtabLabel \/ SymtabMain \/ SymtabSymbol \/ gen_strtab_section
  BY <1>2, <1>5 DEF SymtabLabel, SymtabMain, SymtabSymbol, gen_strtab_section, InternalError, tables
<1>6. CASE RelaStart \/ RelaEntry \/ gen_shstrtab_section
  BY <1>2, <1>6 DEF RelaStart, RelaEntry, gen_shstrtab_section, tables
<1>7. CASE UNCHANGED vars
  BY <1>7 DEF vars, pass1, tables, HeaderTable, Headers, rela_exists
<1> QED
  BY <1>1, <1>3, <1>4, <1>5, <1>6, <1>7 DEF Next, Write
-----------------------------------------------------------------------------
(* Where the sections are.                                                 *)

LEMMA Aligned8Typed ==
  ASSUME NEW n \in Nat
  PROVE  Aligned8(n) \in Nat /\ n <= Aligned8(n) /\ Aligned8(n) % 8 = 0
BY DEF Aligned8

\* Every word of .text stems from an instruction.
WordsTyped == nodes \in Seq(Node) /\ text \in Seq(Word) /\ (pc = "text" => i > 0)

LEMMA WordsOfNode ==
  ASSUME WordsTyped, NEW n \in 1 .. Len(nodes)
  PROVE  Words(n) \in Seq(Word) /\ Len(Words(n)) \in Nat
<1>1. nodes[n].kind \in Arith \cup {"la", "jr"} /\ n \in Nat
  <2>1. nodes[n] \in Node /\ n \in Nat
    BY DEF WordsTyped
  <2> QED
    BY <2>1 DEF Node
<1>2. CASE nodes[n].kind = "la"
  <2> DEFINE u == [op |-> "auipc", node |-> n]
             w == [op |-> "addi", node |-> n]
  <2>1. u \in Word /\ w \in Word
    BY <1>1 DEF Word, Arith
  <2>2. Words(n) = <<u, w>>
    BY <1>2 DEF Words
  <2> HIDE DEF u, w
  <2> QED
    BY <2>1, <2>2
<1>3. CASE nodes[n].kind # "la"
  <2> DEFINE u == [op |-> nodes[n].kind, node |-> n]
  <2>1. u \in Word
    BY <1>1, <1>3 DEF Word
  <2>2. Words(n) = <<u>>
    BY <1>3 DEF Words
  <2> HIDE DEF u
  <2> QED
    BY <2>1, <2>2
<1> QED
  BY <1>2, <1>3

LEMMA WordsTypedStep ==
  ASSUME Strings, WordsTyped, [Next]_vars
  PROVE  WordsTyped'
<1>1. ASSUME NEW kind \in Arith \cup {"la", "jr"}, NEW name \in Names \cup {NoName}, NEW size,
             add_node(kind, name, size)
      PROVE  WordsTyped'
  <2>1. [kind |-> kind, symbol |-> name, pos |-> cur_pos] \in Node
    BY DEF Node, Strings
  <2> QED
    BY <1>1, <2>1 DEF WordsTyped, add_node
<1>2. CASE \E l \in Lines : ParseLine(l)
  <2>1. PICK l \in Lines : ParseLine(l)
    BY <1>2
  <2>2. CASE ParseArith(l)
    BY <1>1, <2>2 DEF ParseArith
  <2>3. CASE ParseLa(l)
    BY <1>1, <2>3, KiwiasAssumption DEF ParseLa
  <2>4. CASE ParseJr(l)
    BY <1>1, <2>4 DEF ParseJr, Arith
  <2>5. CASE IgnoreLine(l) \/ ParseError(l)
    BY <2>5 DEF WordsTyped, IgnoreLine, ParseError, vars, pass1
  <2> QED
    BY <2>1, <2>2, <2>3, <2>4, <2>5 DEF ParseLine
<1>3. CASE TextNode
  <2>1. i \in 1 .. Len(nodes)
    BY <1>3 DEF TextNode, Strings, WordsTyped
  <2>2. Words(i) \in Seq(Word)
    BY <2>1, WordsOfNode
  <2>3. /\ text' = text \o Words(i) /\ i' = i + 1 /\ UNCHANGED nodes
    BY <1>3 DEF TextNode, pass1
  <2> QED
    BY <2>1, <2>2, <2>3 DEF WordsTyped
<1>4. ASSUME UNCHANGED <<nodes, text>>, pc' # "text" \/ i' = 1 \/ UNCHANGED <<pc, i>>
      PROVE  WordsTyped'
  BY <1>4 DEF WordsTyped
<1>5. CASE OpenOutput \/ EndText \/ prepare_strtab_records \/ SymtabStart \/ UNCHANGED vars
  BY <1>4, <1>5 DEF OpenOutput, EndText, prepare_strtab_records, SymtabStart, pass1, vars
<1>6. CASE SymtabLabel \/ SymtabMain \/ SymtabSymbol \/ gen_strtab_section
  BY <1>4, <1>6 DEF SymtabLabel, SymtabMain, SymtabSymbol, gen_strtab_section, pass1, InternalError
<1>7. CASE RelaStart \/ RelaEntry \/ gen_shstrtab_section \/ gen_section_header_table
  BY <1>4, <1>7 DEF RelaStart, RelaEntry, gen_shstrtab_section, gen_section_header_table, pass1
<1> QED
  BY <1>2, <1>3, <1>5, <1>6, <1>7 DEF Next, Write

LEMMA NameLengths ==
  \A j \in 1 .. 7 : NameLength[ShstrtabStrings[j]] \in Nat
<1>1. /\ ShstrtabStrings[1] = "null" /\ ShstrtabStrings[2] = "symtab"
      /\ ShstrtabStrings[3] = "strtab" /\ ShstrtabStrings[4] = "shstrtab"
      /\ ShstrtabStrings[5] \in {"rela", "text"}
      /\ ShstrtabStrings[6] = "data" /\ ShstrtabStrings[7] = "bss"
  BY DEF ShstrtabStrings
<1>2. /\ NameLength["null"] = 0 /\ NameLength["symtab"] = 7 /\ NameLength["strtab"] = 7
      /\ NameLength["shstrtab"] = 9 /\ NameLength["text"] = 5 /\ NameLength["rela"] = 10
      /\ NameLength["data"] = 5 /\ NameLength["bss"] = 4
  BY DEF NameLength
<1>3. \A j \in 1 .. 7 : j = 1 \/ j = 2 \/ j = 3 \/ j = 4 \/ j = 5 \/ j = 6 \/ j = 7
  OBVIOUS
<1> QED
  BY <1>1, <1>2, <1>3

LEMMA ShstrtabSize == NameOffset(7) + NameLength["bss"] + 1 \in Nat
<1> DEFINE P(f) == f = [j \in 1 .. 7 |->
                          IF j = 1 THEN 0 ELSE f[j - 1] + NameLength[ShstrtabStrings[j - 1]] + 1]
           off == CHOOSE f : P(f)
           w == [j \in 1 .. 7 |-> NameLength[ShstrtabStrings[j]]]
<1>1. NameOffset(7) = off[7]
  BY DEF NameOffset
<1>2. w \in [1 .. 7 -> Nat]
  BY NameLengths
<1>3. \A f : P(f) <=> Offsets(f, w, 7)
  <2>1. \A j \in 1 .. 7 : j # 1 => w[j - 1] = NameLength[ShstrtabStrings[j - 1]]
    OBVIOUS
  <2> HIDE DEF w
  <2> QED
    BY <2>1 DEF Offsets
<1>4. \E f : P(f)
  <2> HIDE DEF P, w
  <2> QED
    BY <1>2, <1>3, OffsetsExist
<1>5. P(off)
  <2> HIDE DEF P
  <2> QED
    BY <1>4
<1> HIDE DEF off, P, w
<1>6. \A j \in 1 .. 7 : off[j] \in Nat
  <2>1. Offsets(off, w, 7) /\ 7 \in Nat
    BY <1>3, <1>5
  <2> QED
    BY ONLY <1>2, <2>1, OffsetsTyped
<1> QED
  BY <1>1, <1>6 DEF NameLength

LEMMA StrtabSize ==
  ASSUME Strings, pc \in Recorded
  PROVE  StringOffset(Len(strtab_records)) + Length[strtab_records[Len(strtab_records)]] + 1 \in Nat
<1> DEFINE n == Len(strtab_records)
<1>1. n \in 1 .. n /\ strtab_records[n] \in Names \cup {NoName, MAIN, LABEL}
  BY StringsFound
<1>2. StringOffset(n) \in Nat
  BY <1>1, StringOffsetTyped
<1>3. Length[strtab_records[n]] \in Nat
  BY <1>1, KiwiasAssumption
<1> QED
  BY <1>2, <1>3

\* What is laid stays where it is.
LEMMA TextStays ==
  ASSUME \A s \in {"text", "data", "bss"} : section'[s] = section[s], UNCHANGED text, TextLaid
  PROVE  TextLaid'
BY DEF TextLaid, EndOf

LEMMA SymtabStays ==
  ASSUME \A s \in {"text", "symtab", "strtab"} : section'[s] = section[s], UNCHANGED symtab,
         SymtabLaid
  PROVE  SymtabLaid'
BY DEF SymtabLaid, SymtabBegun, EndOf

LEMMA PlacementText ==
  ASSUME Strings, WordsTyped, Placement, OpenOutput \/ TextNode \/ EndText \/ prepare_strtab_records
  PROVE  Placement'
<1>1. /\ section \in [Sections -> [offset : Nat, size : Nat]] /\ offset \in Nat
      /\ text \in Seq(Word) /\ Len(text) \in Nat
  BY DEF Placement, WordsTyped
<1>2. \A s \in Sections : section[s].offset \in Nat /\ section[s].size \in Nat
  BY <1>1
<1>3. CASE OpenOutput
  <2>1. /\ section' = [section EXCEPT !["text"].offset = 64] /\ offset' = 64 /\ text' = text
        /\ pc = "parse" /\ pc' \in {"text", "error", "crash"}
    BY <1>3 DEF OpenOutput
  <2>2. /\ section'["text"].offset = 64 /\ \A s \in Sections : section'[s].size = section[s].size
        /\ section' \in [Sections -> [offset : Nat, size : Nat]]
    BY <1>1, <2>1 DEF Sections
  <2>3. text' = <<>> /\ Len(text') = 0
    BY <2>1 DEF Placement
  <2> QED
    BY <2>1, <2>2, <2>3 DEF Placement
<1>4. CASE TextNode
  <2>1. i \in 1 .. Len(nodes)
    BY <1>4 DEF TextNode, Strings, WordsTyped
  <2>2. /\ Words(i) \in Seq(Word) /\ Len(Words(i)) \in Nat
    BY <2>1, WordsOfNode
  <2>3. /\ text' = text \o Words(i) /\ offset' = offset + 4 * Len(Words(i))
        /\ pc = "text" /\ pc' = "text" /\ section' = section
    BY <1>4 DEF TextNode
  <2>4. Len(text') = Len(text) + Len(Words(i))
    BY <1>1, <2>2, <2>3
  <2>5. offset = 64 + 4 * Len(text)
    BY <2>3 DEF Placement
  <2>6. offset' \in Nat /\ offset' = 64 + 4 * Len(text')
    BY <1>1, <2>2, <2>3, <2>4, <2>5
  <2> QED
    BY <2>3, <2>6 DEF Placement
<1>5. CASE EndText
  <2>1. /\ section' = [section EXCEPT !["text"].size = offset - section["text"].offset,
                                      !["data"].offset = offset, !["bss"].offset = offset]
        /\ UNCHANGED <<text, offset>> /\ pc = "text" /\ pc' = "strtab_records"
    BY <1>5 DEF EndText
  <2>2. /\ section["text"].offset = 64 /\ offset = 64 + 4 * Len(text)
        /\ \A s \in Sections : section[s].size = 0
    BY <2>1 DEF Placement
  <2>3. offset - section["text"].offset = 4 * Len(text) /\ 4 * Len(text) \in Nat
    BY <1>1, <2>2
  <2>4. /\ section' \in [Sections -> [offset : Nat, size : Nat]]
        /\ section'["text"].offset = 64 /\ section'["text"].size = 4 * Len(text)
        /\ section'["data"].offset = offset /\ section'["data"].size = 0
        /\ section'["bss"].offset = offset /\ section'["bss"].size = 0
    <3>1. /\ section' = [section EXCEPT !["text"].size = 4 * Len(text),
                                        !["data"].offset = offset, !["bss"].offset = offset]
      BY <2>1, <2>3
    <3>2. /\ section'["text"] = [section["text"] EXCEPT !.size = 4 * Len(text)]
          /\ section'["data"] = [section["data"] EXCEPT !.offset = offset]
          /\ section'["bss"] = [section["bss"] EXCEPT !.offset = offset]
          /\ \A s \in Sections \ {"text", "data", "bss"} : section'[s] = section[s]
      BY <1>1, <3>1 DEF Sections
    <3>3. \A s \in Sections : section'[s] \in [offset : Nat, size : Nat]
      <4>1. /\ section'["text"] \in [offset : Nat, size : Nat]
            /\ section'["data"] \in [offset : Nat, size : Nat]
            /\ section'["bss"] \in [offset : Nat, size : Nat]
        BY <1>1, <2>3, <3>2 DEF Sections
      <4>2. \A s \in Sections \ {"text", "data", "bss"} : section'[s] \in [offset : Nat, size : Nat]
        BY <1>1, <3>2
      <4> QED
        BY <4>1, <4>2
    <3>4. section' \in [Sections -> [offset : Nat, size : Nat]]
      BY <1>1, <3>1, <3>3
    <3> QED
      BY <1>1, <2>2, <3>2, <3>4 DEF Sections
  <2>5. TextLaid' /\ EndOf("text")' = offset'
    BY <2>1, <2>2, <2>4 DEF TextLaid, EndOf
  <2> QED
    BY <1>1, <2>1, <2>4, <2>5 DEF Placement
<1>6. CASE prepare_strtab_records
  <2>1. UNCHANGED <<section, offset, text>> /\ pc = "strtab_records" /\ pc' = "symtab"
    BY <1>6 DEF prepare_strtab_records
  <2> QED
    BY <2>1 DEF Placement, TextLaid, EndOf
<1> QED
  BY <1>3, <1>4, <1>5, <1>6

LEMMA PlacementSymtab ==
  ASSUME Strings, SymbolTable, SymbolTable', Placement,
         SymtabStart \/ SymtabLabel \/ SymtabMain \/ SymtabSymbol \/ gen_strtab_section
  PROVE  Placement'
<1>1. /\ section \in [Sections -> [offset : Nat, size : Nat]] /\ offset \in Nat
  BY DEF Placement
<1>2. \A s \in Sections : section[s].offset \in Nat /\ section[s].size \in Nat
  BY <1>1
<1>3. CASE SymtabStart
  <2> DEFINE at == Aligned8(offset)
  <2>1. /\ section' = [section EXCEPT !["symtab"].offset = at] /\ offset' = at + 24 * 4
        /\ UNCHANGED text /\ pc = "symtab" /\ pc' = "labels" /\ Len(symtab') = 4
    BY <1>3 DEF SymtabStart, SizeofSymbol
  <2>2. at \in Nat /\ offset <= at /\ at % 8 = 0
    BY <1>1, Aligned8Typed
  <2> HIDE DEF at
  <2>3. /\ section' \in [Sections -> [offset : Nat, size : Nat]]
        /\ section'["symtab"].offset = at
        /\ \A s \in Sections \ {"symtab"} : section'[s] = section[s]
    BY <1>1, <2>1, <2>2 DEF Sections
  <2>4. TextLaid /\ offset = EndOf("text")
    BY <2>1 DEF Placement
  <2>5. TextLaid'
    BY <2>1, <2>3, <2>4, TextStays DEF Sections
  <2>6. EndOf("text")' = offset
    BY <2>3, <2>4 DEF EndOf, Sections
  <2>7. SymtabBegun' /\ offset' \in Nat /\ offset' = section'["symtab"].offset + 24 * Len(symtab')
    BY <2>1, <2>2, <2>3, <2>6 DEF SymtabBegun
  <2> QED
    BY <2>1, <2>3, <2>5, <2>7 DEF Placement
<1>4. ASSUME SymtabLabel \/ SymtabMain \/ SymtabSymbol PROVE Placement'
  <2>1. /\ UNCHANGED <<section, text>> /\ pc \in {"labels", "globals"}
        /\ \/ pc' = "internal" /\ UNCHANGED offset
           \/ /\ pc' \in {"labels", "globals"}
              /\ offset' = offset + 24 /\ \E e : symtab' = Append(symtab, e)
    BY <1>4 DEF SymtabLabel, SymtabMain, SymtabSymbol, Put, InternalError, SizeofSymbol
  <2>2. CASE pc' = "internal"
    BY <1>1, <2>1, <2>2 DEF Placement
  <2>3. CASE pc' # "internal"
    <3>1. symtab \in Seq(Symbol) /\ Len(symtab) \in Nat
      BY <2>1 DEF SymbolTable, Recorded
    <3>2. PICK e : symtab' = Append(symtab, e)
      BY <2>1, <2>3
    <3>3. Len(symtab') = Len(symtab) + 1
      BY <3>1, <3>2
    <3>4. TextLaid /\ SymtabBegun /\ offset = section["symtab"].offset + 24 * Len(symtab)
      BY <2>1 DEF Placement
    <3>5. TextLaid' /\ SymtabBegun'
      BY <2>1, <3>4 DEF TextLaid, SymtabBegun, EndOf
    <3>6. section["symtab"].offset \in Nat
      BY <1>2 DEF Sections
    <3>7. offset' \in Nat /\ offset' = section'["symtab"].offset + 24 * Len(symtab')
      BY <1>1, <2>1, <2>3, <3>1, <3>3, <3>4, <3>6
    <3> QED
      BY <1>1, <2>1, <2>3, <3>5, <3>7 DEF Placement
  <2> QED
    BY <2>2, <2>3
<1>5. CASE gen_strtab_section
  <2> DEFINE n == StringOffset(Len(strtab_records)) + Length[strtab_records[Len(strtab_records)]] + 1
             u == offset - section["symtab"].offset
  <2>1. pc = "globals" /\ pc' = "rela" /\ UNCHANGED <<text, symtab>>
    BY <1>5 DEF gen_strtab_section, tables
  <2>2. n \in Nat
    BY <2>1, StrtabSize DEF Recorded
  <2>3. offset' = offset + StringOffset(Len(strtab_records))
                      + Length[strtab_records[Len(strtab_records)]] + 1
    BY <1>5 DEF gen_strtab_section
  <2>4. symtab \in Seq(Symbol) /\ Len(symtab) \in Nat
    BY <2>1 DEF SymbolTable, Recorded
  <2>5. TextLaid /\ SymtabBegun /\ offset = section["symtab"].offset + 24 * Len(symtab)
    BY <2>1 DEF Placement
  <2>6. u \in Nat /\ u = 24 * Len(symtab)
    BY <1>2, <2>4, <2>5 DEF Sections
  <2>7. offset' \in Nat /\ offset' - offset \in Nat
    <3>1. StringOffset(Len(strtab_records)) \in Nat /\ Length[strtab_records[Len(strtab_records)]] \in Nat
      <4>1. Len(strtab_records) \in 1 .. Len(strtab_records)
            /\ strtab_records[Len(strtab_records)] \in Names \cup {NoName, MAIN, LABEL}
        BY <2>1, StringsFound DEF Recorded
      <4> QED
        BY <2>1, <4>1, StringOffsetTyped, KiwiasAssumption DEF Recorded
    <3> QED
      BY <1>1, <2>3, <3>1
  <2>8. section' = [section EXCEPT !["symtab"].size = u,
                                   !["strtab"] = [offset |-> offset, size |-> offset' - offset]]
    BY <1>5 DEF gen_strtab_section
  <2> HIDE DEF n, u
  <2>9. /\ section' \in [Sections -> [offset : Nat, size : Nat]]
        /\ section'["symtab"].offset = section["symtab"].offset /\ section'["symtab"].size = u
        /\ section'["strtab"].offset = offset /\ section'["strtab"].size = offset' - offset
        /\ \A s \in Sections \ {"symtab", "strtab"} : section'[s] = section[s]
    BY <1>1, <2>6, <2>7, <2>8 DEF Sections
  <2>10. TextLaid'
    BY <2>1, <2>5, <2>9, TextStays DEF Sections
  <2>11. SymtabLaid'
    <3>1. SymtabBegun'
      BY <2>5, <2>9 DEF SymtabBegun, EndOf, Sections
    <3>2. EndOf("symtab")' = offset
      BY <2>5, <2>6, <2>9 DEF EndOf
    <3> QED
      BY <2>1, <2>6, <2>9, <3>1, <3>2 DEF SymtabLaid
  <2>12. offset' = EndOf("strtab")'
    <3>1. EndOf("strtab")' = section'["strtab"].offset + section'["strtab"].size
      BY DEF EndOf
    <3> QED
      BY <1>1, <2>7, <2>9, <3>1
  <2> QED
    BY <2>1, <2>7, <2>9, <2>10, <2>11, <2>12 DEF Placement
<1> QED
  BY <1>3, <1>4, <1>5

LEMMA PlacementRela ==
  ASSUME Strings, RelaTable, Placement,
         RelaStart \/ RelaEntry \/ gen_shstrtab_section \/ gen_section_header_table
  PROVE  Placement'
<1>1. /\ section \in [Sections -> [offset : Nat, size : Nat]] /\ offset \in Nat
  BY DEF Placement
<1>2. \A s \in Sections : section[s].offset \in Nat /\ section[s].size \in Nat
  BY <1>1
<1>3. Len(rela) \in Nat
  BY DEF RelaTable
<1>4. CASE RelaStart
  <2>1. /\ section' = [section EXCEPT !["rela"].offset = offset']
        /\ offset' = IF rela_exists THEN Aligned8(offset) ELSE offset
        /\ UNCHANGED <<text, rela, symtab, relocations>> /\ pc = "rela" /\ pc' = "rela_loop"
    BY <1>4 DEF RelaStart, pass1, tables
  <2>2. offset' \in Nat /\ offset <= offset' /\ (rela_exists => offset' % 8 = 0)
    BY <1>1, <2>1, Aligned8Typed
  <2>3. rela = <<>> /\ TextLaid /\ SymtabLaid /\ offset = EndOf("strtab")
    BY <2>1 DEF Placement, RelaTable
  <2>4. /\ section' \in [Sections -> [offset : Nat, size : Nat]]
        /\ section'["rela"].offset = offset'
        /\ \A s \in Sections \ {"rela"} : section'[s] = section[s]
    BY <1>1, <2>1, <2>2 DEF Sections
  <2>5. TextLaid' /\ SymtabLaid'
    BY <2>1, <2>3, <2>4, TextStays, SymtabStays DEF Sections
  <2>6. EndOf("strtab")' = offset
    BY <2>3, <2>4 DEF EndOf, Sections
  <2>7. RelaBegun'
    BY <2>1, <2>2, <2>4, <2>6 DEF RelaBegun, rela_exists
  <2>8. offset' = section'["rela"].offset + 24 * Len(rela')
    BY <2>1, <2>2, <2>3, <2>4
  <2> QED
    BY <2>1, <2>2, <2>4, <2>5, <2>7, <2>8 DEF Placement
<1>5. CASE RelaEntry
  <2>1. PICK a, b, c, d : rela' = rela \o <<a, b, c, d>>
    BY <1>5 DEF RelaEntry
  <2>2. Len(rela') = Len(rela) + 4
    BY <2>1 DEF RelaTable
  <2>3. /\ UNCHANGED <<section, text, symtab, relocations>> /\ offset' = offset + 24 * 4
        /\ pc = "rela_loop" /\ pc' = "rela_loop"
    BY <1>5 DEF RelaEntry, pass1, SizeofRela
  <2>4. /\ TextLaid /\ SymtabLaid /\ RelaBegun
        /\ offset = section["rela"].offset + 24 * Len(rela)
    BY <2>3 DEF Placement
  <2>5. TextLaid' /\ SymtabLaid' /\ RelaBegun'
    BY <2>3, <2>4 DEF TextLaid, SymtabLaid, SymtabBegun, RelaBegun, EndOf, rela_exists
  <2>6. section["rela"].offset \in Nat
    BY <1>2 DEF Sections
  <2>7. offset' \in Nat /\ offset' = section'["rela"].offset + 24 * Len(rela')
    BY <1>1, <1>3, <2>2, <2>3, <2>4, <2>6
  <2> QED
    BY <1>1, <2>3, <2>5, <2>7 DEF Placement
<1>6. CASE gen_shstrtab_section
  <2> DEFINE n == NameOffset(7) + NameLength["bss"] + 1
             u == offset - section["rela"].offset
  <2>1. /\ pc = "rela_loop" /\ pc' = "headers" /\ UNCHANGED <<text, symtab, rela, relocations>>
        /\ offset' = Aligned8(offset + n)
        /\ section' = [section EXCEPT !["rela"].size = u,
                                      !["shstrtab"] = [offset |-> offset, size |-> n]]
    BY <1>6 DEF gen_shstrtab_section, pass1, tables
  <2>2. n \in Nat
    BY ShstrtabSize
  <2>3. /\ TextLaid /\ SymtabLaid /\ RelaBegun
        /\ offset = section["rela"].offset + 24 * Len(rela)
    BY <2>1 DEF Placement
  <2>4. u \in Nat /\ u = 24 * Len(rela)
    <3>1. section["rela"].offset \in Nat
      BY <1>2 DEF Sections
    <3> QED
      BY <1>3, <2>3, <3>1
  <2> HIDE DEF n, u
  <2>5. offset' \in Nat /\ offset + n <= offset' /\ offset' % 8 = 0
    BY <1>1, <2>1, <2>2, Aligned8Typed
  <2>6. /\ section' \in [Sections -> [offset : Nat, size : Nat]]
        /\ section'["rela"].offset = section["rela"].offset /\ section'["rela"].size = u
        /\ section'["shstrtab"].offset = offset /\ section'["shstrtab"].size = n
        /\ \A s \in Sections \ {"rela", "shstrtab"} : section'[s] = section[s]
    BY <1>1, <2>1, <2>2, <2>4 DEF Sections
  <2>7. TextLaid' /\ SymtabLaid'
    BY <2>1, <2>3, <2>6, TextStays, SymtabStays DEF Sections
  <2>8. RelaBegun'
    BY <2>1, <2>3, <2>6 DEF RelaBegun, EndOf, Sections, rela_exists
  <2>9. EndOf("rela")' = offset
    BY <2>3, <2>4, <2>6 DEF EndOf
  <2>10. RelaLaid'
    BY <2>1, <2>4, <2>6, <2>8, <2>9 DEF RelaLaid
  <2>11. EndOf("shstrtab")' = offset + n
    BY <2>6 DEF EndOf
  <2> QED
    BY <2>1, <2>5, <2>6, <2>7, <2>10, <2>11 DEF Placement
<1>7. CASE gen_section_header_table
  <2>1. /\ pc = "headers" /\ pc' = "done" /\ headers'.shoff = offset
        /\ UNCHANGED <<section, text, symtab, rela, relocations>>
    BY <1>7 DEF gen_section_header_table, pass1
  <2>2. TextLaid /\ SymtabLaid /\ RelaLaid /\ EndOf("shstrtab") <= offset /\ offset % 8 = 0
    BY <2>1 DEF Placement
  <2>3. TextLaid' /\ SymtabLaid' /\ RelaLaid' /\ EndOf("shstrtab")' <= offset
    BY <2>1, <2>2 DEF TextLaid, SymtabLaid, SymtabBegun, RelaLaid, RelaBegun, EndOf, rela_exists
  <2>4. offset' \in Nat
    <3> DEFINE n == Len(headers'.entries)
    <3>1. offset' = offset + 64 * n
      BY <1>7 DEF gen_section_header_table, SizeofSectionHeader
    <3>2. n \in Nat
      BY <1>7, SevenEntries, EightEntries DEF gen_section_header_table
    <3> HIDE DEF n
    <3> QED
      BY <1>1, <3>1, <3>2
  <2> QED
    BY <1>1, <2>1, <2>2, <2>3, <2>4 DEF Placement
<1> QED
  BY <1>4, <1>5, <1>6, <1>7

LEMMA PlacementStep ==
  ASSUME Strings, WordsTyped, SymbolTable, SymbolTable', RelaTable, Placement, [Next]_vars
  PROVE  Placement'
<1>1. CASE \E l \in Lines : ParseLine(l)
  <2>1. /\ UNCHANGED <<text, section, offset>> /\ pc = "parse" /\ pc' \in {"parse", "error"}
    BY <1>1 DEF ParseLine, ParseArith, ParseLa, ParseJr, IgnoreLine, ParseError, add_node, vars
  <2> QED
    BY <2>1 DEF Placement
<1>2. CASE OpenOutput \/ TextNode \/ EndText \/ prepare_strtab_records
  BY <1>2, PlacementText
<1>3. CASE SymtabStart \/ SymtabLabel \/ SymtabMain \/ SymtabSymbol \/ gen_strtab_section
  BY <1>3, PlacementSymtab
<1>4. CASE RelaStart \/ RelaEntry \/ gen_shstrtab_section \/ gen_section_header_table
  BY <1>4, PlacementRela
<1>5. CASE UNCHANGED vars
  BY <1>5 DEF vars, pass1, tables, Placement, TextLaid, SymtabLaid, SymtabBegun, RelaLaid, RelaBegun,
              EndOf, rela_exists
<1> QED
  BY <1>1, <1>2, <1>3, <1>4, <1>5 DEF Next, Write
-----------------------------------------------------------------------------
(* What the object file says of itself.                                    *)

\* The invariant of everything below, for any source.
Object == Strings /\ WordsTyped /\ SymbolTable /\ RelaTable /\ HeaderTable /\ Placement

LEMMA InitObject == Init => Object
<1> SUFFICES ASSUME Init PROVE Object
  OBVIOUS
<1>1. Strings
  BY InitStrings
<1>2. pc = "parse" /\ nodes = <<>> /\ text = <<>> /\ rela = <<>>
  BY DEF Init
<1>3. WordsTyped /\ SymbolTable /\ RelaTable
  BY <1>2 DEF WordsTyped, SymbolTable, RelaTable, Recorded
<1>4. HeaderTable
  BY DEF Init, HeaderTable
<1>5. Placement
  BY DEF Init, Placement, Unwritten, Sections
<1> QED
  BY <1>1, <1>3, <1>4, <1>5 DEF Object

LEMMA ObjectStep == Object /\ [Next]_vars => Object'
<1> SUFFICES ASSUME Object, [Next]_vars PROVE Object'
  OBVIOUS
<1>1. Strings /\ WordsTyped /\ SymbolTable /\ RelaTable /\ HeaderTable /\ Placement
  BY DEF Object
<1>2. Strings'
  <2>1. CASE UNCHANGED vars
    BY <1>1, <2>1 DEF vars, pass1, tables, Strings, Recorded
  <2> QED
    BY <1>1, <2>1, ParseStrings, WriteStrings DEF Next
<1>3. WordsTyped'
  BY <1>1, WordsTypedStep
<1>4. SymbolTable'
  BY <1>1, <1>2, SymbolTableStep
<1>5. RelaTable'
  BY <1>1, <1>2, RelaTableStep
<1>6. HeaderTable'
  BY <1>1, HeaderTableStep
<1>7. Placement'
  BY <1>1, <1>4, PlacementStep
<1> QED
  BY <1>2, <1>3, <1>4, <1>5, <1>6, <1>7 DEF Object

(***************************************************************************)
(* No name is missing from .strtab when gen_symtab_section looks it up     *)
(* (index_in_strtab, lib/kiwias/main.c), whatever the source: its internal *)
(* error cannot happen.                                                    *)
(***************************************************************************)
THEOREM LookupsSucceed == Spec => []StringsRecorded
<1>1. Object => StringsRecorded
  BY DEF Object, Strings, StringsRecorded
<1> QED
  BY InitObject, ObjectStep, <1>1, PTL DEF Spec

(***************************************************************************)
(* The symbol table is one ELF allows: the local symbols are those before  *)
(* sh_info, every undefined symbol has its own entry under its own name,   *)
(* and the section symbols name the sections they mean                     *)
(* (gen_symtab_section, lib/kiwias/main.c).                                *)
(***************************************************************************)
THEOREM SymbolTableSound == Spec => []SymtabWellFormed
<1>1. ASSUME Object PROVE SymtabWellFormed
  <2> SUFFICES ASSUME pc = "done" PROVE SymtabWellFormed
    BY DEF SymtabWellFormed
  <2>1. /\ symtab \in Seq(Symbol) /\ Len(symtab) \in Nat /\ Len(symtab) >= 4 /\ SectionSymbols
        /\ Len(symtab) = sh_info + 1 + Len(symbols)
        /\ LocalsFirst /\ GlobalsPut(Len(symbols))
    BY <1>1 DEF Object, SymbolTable, Recorded
  <2>2. /\ Len(relocations) \in Nat /\ Len(symbols) \in Nat
        /\ sh_info = 4 + Len(relocations) /\ sh_info \in Nat
    BY <1>1, <2>1 DEF Object, Strings, LocalsFirst
  <2>3. \A k \in 1 .. Len(symtab) : symtab[k].bind = "local" <=> k <= sh_info
    BY <2>1 DEF LocalsFirst
  <2>4. ASSUME NEW n \in Elements(symbols)
        PROVE  \E k \in 1 .. Len(symtab) :
                 /\ symtab[k].shndx = 0 /\ StringAt(symtab[k].name, n)
                 /\ \A j \in 1 .. Len(symbols) : symbols[j] = n =>
                      k = Len(symtab) - Len(symbols) + j
    <3>1. PICK m \in 1 .. Len(symbols) : symbols[m] = n
      BY <2>4 DEF Elements
    <3> DEFINE k == sh_info + 1 + m
    <3>2. k \in 1 .. Len(symtab) /\ k = Len(symtab) - Len(symbols) + m
      BY <2>1, <2>2
    <3>3. symtab[k].shndx = 0 /\ StringAt(symtab[k].name, n)
      BY <2>1, <3>1 DEF GlobalsPut
    <3>4. \A j \in 1 .. Len(symbols) : symbols[j] = n => j = m
      BY <1>1, <3>1 DEF Object, Strings
    <3> QED
      BY <3>2, <3>3, <3>4
  <2>5. {headers.entries[symtab[k].shndx + 1].sec : k \in 2 .. 4} = {"text", "data", "bss"}
    <3>1. /\ headers.entries[symtab[2].shndx + 1].sec = "text"
          /\ headers.entries[symtab[3].shndx + 1].sec = "data"
          /\ headers.entries[symtab[4].shndx + 1].sec = "bss"
      <4>1. CASE rela_exists
        BY <1>1, <2>1, <4>1 DEF Object, HeaderTable, Headers, SectionSymbols
      <4>2. CASE ~rela_exists
        BY <1>1, <2>1, <4>2 DEF Object, HeaderTable, Headers, SectionSymbols
      <4> QED
        BY <4>1, <4>2
    <3>2. \A k \in 2 .. 4 : k = 2 \/ k = 3 \/ k = 4
      OBVIOUS
    <3> QED
      BY <3>1, <3>2
  <2> QED
    BY <2>3, <2>4, <2>5 DEF SymtabWellFormed
<1> QED
  BY InitObject, ObjectStep, <1>1, PTL DEF Spec

(***************************************************************************)
(* What the ELF header and the section headers say of section numbers is   *)
(* true, with relocations and without (fix_elf_header and                  *)
(* gen_section_header_table, lib/kiwias/main.c).                           *)
(***************************************************************************)
THEOREM HeadersSound == Spec => []HeadersConsistent
<1>1. ASSUME Object PROVE HeadersConsistent
  <2> DEFINE e == headers.entries
             At(s, n) == n \in 1 .. Len(e) /\ e[n].sec = s /\ \A k \in 1 .. Len(e) : e[k].sec = s => k = n
             Num(s) == (CHOOSE k \in 1 .. Len(e) : e[k].sec = s) - 1
  <2> SUFFICES ASSUME pc = "done"
               PROVE  /\ headers.shnum = Len(e)
                      /\ headers.shstrndx = Num("shstrtab")
                      /\ e[Num("symtab") + 1].link = Num("strtab")
                      /\ rela_exists => /\ e[Num("rela") + 1].link = Num("symtab")
                                        /\ e[Num("rela") + 1].info = Num("text")
                      /\ e[Num("symtab") + 1].info = sh_info
    BY DEF HeadersConsistent
  <2>1. ASSUME NEW s, NEW n \in Nat, At(s, n) PROVE Num(s) = n - 1
    <3> DEFINE c == CHOOSE k \in 1 .. Len(e) : e[k].sec = s
    <3>1. c \in 1 .. Len(e) /\ e[c].sec = s
      <4>1. \E k \in 1 .. Len(e) : e[k].sec = s
        BY <2>1
      <4> HIDE DEF e
      <4> QED
        BY <4>1
    <3>2. c = n
      BY <2>1, <3>1
    <3> QED
      BY <3>2
  <2> HIDE DEF Num
  <2>2. CASE rela_exists
    <3>1. /\ Headers(<<"null", "text", "rela", "data", "bss", "symtab", "strtab", "shstrtab">>, 6, 8)
          /\ e[3].link = 5 /\ e[3].info = 1
      BY <1>1, <2>2 DEF Object, HeaderTable
    <3>2. /\ Len(e) = 8 /\ headers.shnum = 8 /\ headers.shstrndx = 7
          /\ e[6].link = 6 /\ e[6].info = sh_info
          /\ e[1].sec = "null" /\ e[2].sec = "text" /\ e[3].sec = "rela" /\ e[4].sec = "data"
          /\ e[5].sec = "bss" /\ e[6].sec = "symtab" /\ e[7].sec = "strtab" /\ e[8].sec = "shstrtab"
      BY <3>1 DEF Headers
    <3> HIDE DEF e
    <3>3. \A k \in 1 .. Len(e) : k = 1 \/ k = 2 \/ k = 3 \/ k = 4 \/ k = 5 \/ k = 6 \/ k = 7 \/ k = 8
      BY <3>2
    <3>4. At("text", 2) /\ At("rela", 3) /\ At("symtab", 6) /\ At("strtab", 7) /\ At("shstrtab", 8)
      BY <3>2, <3>3
    <3> HIDE DEF At
    <3>5. Num("text") = 1 /\ Num("rela") = 2 /\ Num("symtab") = 5 /\ Num("strtab") = 6 /\ Num("shstrtab") = 7
      <4>1. Num("text") = 2 - 1 /\ Num("rela") = 3 - 1 /\ Num("symtab") = 6 - 1
            /\ Num("strtab") = 7 - 1 /\ Num("shstrtab") = 8 - 1
        BY <2>1, <3>4
      <4> QED
        BY <4>1
    <3>6. e[3].link = 5 /\ e[3].info = 1
      BY <3>1 DEF e
    <3> QED
      BY <3>2, <3>5, <3>6
  <2>3. CASE ~rela_exists
    <3>1. Headers(<<"null", "text", "data", "bss", "symtab", "strtab", "shstrtab">>, 5, 7)
      BY <1>1, <2>3 DEF Object, HeaderTable
    <3>2. /\ Len(e) = 7 /\ headers.shnum = 7 /\ headers.shstrndx = 6
          /\ e[5].link = 5 /\ e[5].info = sh_info
          /\ e[1].sec = "null" /\ e[2].sec = "text" /\ e[3].sec = "data"
          /\ e[4].sec = "bss" /\ e[5].sec = "symtab" /\ e[6].sec = "strtab" /\ e[7].sec = "shstrtab"
      BY <3>1 DEF Headers
    <3> HIDE DEF e
    <3>3. \A k \in 1 .. Len(e) : k = 1 \/ k = 2 \/ k = 3 \/ k = 4 \/ k = 5 \/ k = 6 \/ k = 7
      BY <3>2
    <3>4. At("symtab", 5) /\ At("strtab", 6) /\ At("shstrtab", 7)
      BY <3>2, <3>3
    <3> HIDE DEF At
    <3>5. Num("symtab") = 4 /\ Num("strtab") = 5 /\ Num("shstrtab") = 6
      <4>1. Num("symtab") = 5 - 1 /\ Num("strtab") = 6 - 1 /\ Num("shstrtab") = 7 - 1
        BY <2>1, <3>4
      <4> QED
        BY <4>1
    <3> QED
      BY <2>3, <3>2, <3>5
  <2> QED
    BY <2>2, <2>3
<1> QED
  BY InitObject, ObjectStep, <1>1, PTL DEF Spec

(***************************************************************************)
(* The sections of the object lie apart from each other and from the       *)
(* headers, aligned where their fields ask for it, and their sizes are     *)
(* those of what was written (the gen_*_section functions,                 *)
(* lib/kiwias/main.c).                                                     *)
(***************************************************************************)
THEOREM SectionsApart == Spec => []LayoutSound
<1>1. ASSUME Object PROVE LayoutSound
  <2> SUFFICES ASSUME pc = "done" PROVE LayoutSound
    BY DEF LayoutSound
  <2>1. /\ section \in [Sections -> [offset : Nat, size : Nat]]
        /\ TextLaid /\ SymtabLaid /\ RelaLaid
        /\ headers.shoff \in Nat /\ EndOf("shstrtab") <= headers.shoff /\ headers.shoff % 8 = 0
    BY <1>1 DEF Object, Placement
  <2>2. \A s \in Sections : /\ section[s].offset \in Nat /\ section[s].size \in Nat
                            /\ EndOf(s) \in Nat /\ section[s].offset <= EndOf(s)
    BY <2>1 DEF EndOf
  <2>3. /\ section["text"].offset = 64 /\ section["text"].offset <= EndOf("text")
        /\ section["data"].offset = EndOf("text") /\ EndOf("data") = EndOf("text")
        /\ section["bss"].offset = EndOf("text") /\ EndOf("bss") = EndOf("text")
    BY <2>1, <2>2 DEF TextLaid, EndOf, Sections
  <2>4. /\ EndOf("text") <= section["symtab"].offset /\ section["symtab"].offset <= EndOf("symtab")
        /\ section["strtab"].offset = EndOf("symtab") /\ section["strtab"].offset <= EndOf("strtab")
    BY <2>1, <2>2 DEF SymtabLaid, SymtabBegun, Sections
  <2>5. /\ EndOf("strtab") <= section["rela"].offset /\ section["rela"].offset <= EndOf("rela")
        /\ section["shstrtab"].offset = EndOf("rela") /\ section["shstrtab"].offset <= EndOf("shstrtab")
    BY <2>1, <2>2 DEF RelaLaid, RelaBegun, Sections
  <2>6. /\ section["text"].size = 4 * Len(text) /\ section["symtab"].size = 24 * Len(symtab)
        /\ section["rela"].size = 24 * Len(rela)
        /\ section["symtab"].offset % 8 = 0 /\ (rela_exists => section["rela"].offset % 8 = 0)
    BY <2>1 DEF TextLaid, SymtabLaid, SymtabBegun, RelaLaid, RelaBegun
  <2> DEFINE o(s) == section[s].offset
  <2>7. /\ \A s \in Sections : o(s) \in Nat /\ EndOf(s) \in Nat
        /\ headers.shoff \in Nat /\ EndOf("shstrtab") <= headers.shoff
        /\ o("text") = 64 /\ o("text") <= EndOf("text")
        /\ o("data") = EndOf("text") /\ EndOf("data") = EndOf("text")
        /\ o("bss") = EndOf("text") /\ EndOf("bss") = EndOf("text")
        /\ EndOf("text") <= o("symtab") /\ o("symtab") <= EndOf("symtab")
        /\ o("strtab") = EndOf("symtab") /\ o("strtab") <= EndOf("strtab")
        /\ EndOf("strtab") <= o("rela") /\ o("rela") <= EndOf("rela")
        /\ o("shstrtab") = EndOf("rela") /\ o("shstrtab") <= EndOf("shstrtab")
    BY <2>1, <2>2, <2>3, <2>4, <2>5
  <2> HIDE DEF o
  <2>8. \A s, t \in Sections : s # t => EndOf(s) <= o(t) \/ EndOf(t) <= o(s)
    BY <2>7 DEF Sections
  <2>9. \A s \in Sections : 64 <= o(s) /\ EndOf(s) <= headers.shoff
    BY <2>7 DEF Sections
  <2>10. \A s, t \in Sections : s # t =>
           \/ section[s].offset + section[s].size <= section[t].offset
           \/ section[t].offset + section[t].size <= section[s].offset
    BY <2>8 DEF o, EndOf
  <2>11. \A s \in Sections : /\ 64 <= section[s].offset
                             /\ section[s].offset + section[s].size <= headers.shoff
    BY <2>9 DEF o, EndOf
  <2> QED
    BY <2>1, <2>4, <2>5, <2>6, <2>10, <2>11 DEF LayoutSound, SizeofSymbol, SizeofRela
<1> QED
  BY InitObject, ObjectStep, <1>1, PTL DEF Spec

(***************************************************************************)
(* For a source in which jr is used with ra only: every auipc in .text has *)
(* a relocation against the symbol its `la` names, and the addi behind it  *)
(* one against a local label that stands at the auipc (parse_statement,    *)
(* gen_symtab_section, update_relocation and gen_rela_text_section,        *)
(* lib/kiwias/main.c).                                                     *)
(***************************************************************************)
THEOREM EveryLaLinked == ASSUME OnlyJrRa PROVE Spec => []LaLinked
<1>1. ASSUME Object, IInv, LasRelocated PROVE LaLinked
  <2> SUFFICES ASSUME pc = "done", NEW k \in 1 .. Len(text), text[k].op = "auipc"
               PROVE  LET at == 4 * (k - 1)
                          name == nodes[text[k].node].symbol
                      IN  /\ \E e \in RelaAt(at, "pcrel_hi20") :
                               SymbolOf(e).bind = "global" /\ StringAt(SymbolOf(e).name, name)
                          /\ \E e \in RelaAt(at + 4, "pcrel_lo12") :
                               /\ SymbolOf(e).bind = "local" /\ SymbolOf(e).shndx = 1
                               /\ SymbolOf(e).value = at /\ StringAt(SymbolOf(e).name, LABEL)
    BY DEF LaLinked
  <2> DEFINE at == 4 * (k - 1)
             n == text[k].node
  <2>1. n \in 1 .. Len(nodes) /\ nodes[n].kind = "la" /\ nodes[n].pos = at
    BY <1>1 DEF LasRelocated
  <2>2. PICK r \in 1 .. Len(relocations) : IsLaOf(n, relocations[r])
    BY <1>1, <2>1 DEF LasRelocated
  <2> DEFINE q == relocations[r]
             hi == Rela(q.pos, "pcrel_hi20", q.symbol)
             lo == Rela(q.pos + 4, "pcrel_lo12", q.label)
  <2>3. q.pos = at /\ q.name = nodes[n].symbol
    BY <2>1, <2>2 DEF IsLaOf
  <2>4. hi \in Elements(rela) /\ lo \in Elements(rela)
    BY <1>1 DEF Object, RelaTable, RelaPut
  <2>5. hi \in RelaAt(at, "pcrel_hi20") /\ lo \in RelaAt(at + 4, "pcrel_lo12")
    BY <2>3, <2>4 DEF RelaAt, Rela
  <2>6. /\ LocalsFirst /\ GlobalsPut(Len(symbols))
    BY <1>1 DEF Object, SymbolTable
  <2>7. PICK j \in 1 .. Len(symbols) : symbols[j] = q.name
    BY <1>1 DEF Object, Strings
  <2>8. Len(symbols) \in Nat /\ Len(relocations) \in Nat /\ sh_info \in Nat
    BY <1>1, <2>6 DEF Object, Strings, LocalsFirst
  <2>9. /\ symtab[sh_info + 1 + j].bind = "global"
        /\ StringAt(symtab[sh_info + 1 + j].name, symbols[j])
        /\ q.symbol = sh_info + j
    BY <2>6, <2>7 DEF GlobalsPut
  <2>10. SymbolOf(hi) = symtab[sh_info + 1 + j]
    <3>1. hi.sym + 1 = sh_info + 1 + j
      BY <2>8, <2>9 DEF Rela
    <3> QED
      BY <3>1 DEF SymbolOf
  <2>11. /\ q.label = 3 + r
         /\ symtab[4 + r].bind = "local" /\ symtab[4 + r].shndx = 1 /\ symtab[4 + r].value = q.pos
         /\ StringAt(symtab[4 + r].name, LABEL)
    BY <2>6 DEF LocalsFirst, LabelsPut
  <2>12. SymbolOf(lo) = symtab[4 + r]
    <3>1. lo.sym + 1 = 4 + r
      BY <2>8, <2>11 DEF Rela
    <3> QED
      BY <3>1 DEF SymbolOf
  <2> HIDE DEF hi, lo, q
  <2> QED
    BY <2>3, <2>5, <2>7, <2>9, <2>10, <2>11, <2>12
<1>2. Init => LasRelocated
  BY DEF Init, LasRelocated
<1>3. IInv /\ [Next]_vars => IInv'
  BY ParseStep, OpenOutputStep, TextNodeStep, EndTextStep, EntryStep, QuietStep,
     StutterStep DEF Next, Write
<1>4. IInv /\ LasRelocated /\ [Next]_vars => LasRelocated'
  BY LasStep
<1> QED
  BY InitObject, ObjectStep, InitIInv, <1>1, <1>2, <1>3, <1>4, PTL DEF Spec
=============================================================================

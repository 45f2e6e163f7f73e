---------------------------- MODULE StructObject ----------------------------
(***************************************************************************)
(* An object of the type StructLayout lays out, as the generated code      *)
(* reads and writes its members.                                           *)
(*                                                                         *)
(* Bits are symbols: <<k, v, i>> is bit i of value v written to member k.  *)
(* Memory and registers are sets of positions with a symbol; positions     *)
(* without one are zero.  Shifts and masks move symbols, and where `or`    *)
(* merges two bits that are both set, both stay and no reading matches.    *)
(***************************************************************************)
EXTENDS StructLayout

CONSTANTS
  Versions,   \* values written to a member, with 0
  MaxFields,  \* bound: members of the type of the object
  Programs    \* constructs the program uses although they are miscompiled

\* op= and ++ on a bit-field; an initializer of a union in a function; an
\* initializer of bit-fields outside of functions; bit-fields whose mask does
\* not fit into an immediate
Miscompiled == {"compound_bitfield", "local_union", "global_bitfield", "wide_bitfield"}

ASSUME ObjectAssumption ==
  /\ Versions \subseteq Nat /\ 0 \in Versions
  /\ Programs \subseteq Miscompiled
  /\ MaxFields \in 0 .. MaxMembers
  /\ \A t \in Types : t.integer => t.size <= 8

VARIABLES
  memory,  \* the bits of the object
  defined, \* is there an object?
  last     \* history: the value each member was given last, or Unknown

objectVars == <<memory, defined, last>>
vars == <<layoutVars, objectVars>>

Unknown == -1

\* A register: the pairs of a position and the symbol of the bit there.
Bit(i, s) == <<i, s>>
Unset == <<0, 0, 0>>
Word == 0 .. 63
Value(k, v) ==
  IF v = 0 THEN {} ELSE {Bit(i, <<k, v, i>>) : i \in 0 .. Larger(64, members[k].size * 8) - 1}
-----------------------------------------------------------------------------
\* Register operations.
sll(r, n) == {Bit(b[1] + n, b[2]) : b \in {c \in r : c[1] + n \in Word}}
srl(r, n) == {Bit(b[1] - n, b[2]) : b \in {c \in r : c[1] - n \in Word}}
keep(r, S) == {b \in r : b[1] \in S}
or(r, s) == r \cup s

\* andi with (1 << w) - 1: the immediate has 12 bits, and the machine extends
\* its sign.
andi_ones(r, w) == keep(r, IF w < 12 THEN 0 .. w - 1 ELSE Word)

\* The sign of a signed type fills the register.
extend(r, m) ==
  LET n == m.size * 8
  IN {b \in r : b[1] < n} \cup
     {Bit(p[1], p[2][2]) : p \in (n .. 63) \X {b \in r : b[1] = n - 1}}

load(mm, m) ==
  extend({Bit(b[1] - m.offset * 8, b[2]) : b \in {c \in mm : c[1] >= m.offset * 8}}, m)

\* sb, sh, sw or sd; for an aggregate the loop over its bytes
store(mm, m, r) ==
  {b \in mm : b[1] - m.offset * 8 \notin 0 .. m.size * 8 - 1}
    \cup {Bit(b[1] + m.offset * 8, b[2]) : b \in keep(r, 0 .. m.size * 8 - 1)}

\* gen_expr() of ND_MEMBER
ReadMember(mm, m) ==
  IF m.bitfield THEN srl(sll(load(mm, m), 64 - m.width - m.bit_offset), 64 - m.width)
                ELSE load(mm, m)

\* Mutant: the bits that were there are not cleared.
MergeBitfieldUncleared(mm, m, r) ==
  or(sll(andi_ones(r, m.width), m.bit_offset), load(mm, m))

\* The value with the other bits of the unit.
MergeBitfield(mm, m, r) ==
  or(sll(andi_ones(r, m.width), m.bit_offset),
     keep(load(mm, m), Word \ (m.bit_offset .. m.bit_offset + m.width - 1)))

\* Mutant: a bit-field is stored as any other member.
AssignMemberPlain(mm, m, r) == store(mm, m, r)

\* gen_expr() of ND_ASSIGN with a member on its left
AssignMember(mm, m, r) == store(mm, m, IF m.bitfield THEN MergeBitfield(mm, m, r) ELSE r)
-----------------------------------------------------------------------------
Filled(symbol) == {Bit(i, symbol) : i \in 0 .. size * 8 - 1}
NoMembers == [k \in Members |-> Unknown]

Init == LayoutInit /\ memory = {} /\ defined = FALSE /\ last = <<>>

\* An object is made of a type that is laid out.
New ==
  /\ stage = "done" /\ ~defined /\ Len(members) <= MaxFields
  /\ \A k \in Members : members[k].width >= 12 => "wide_bitfield" \in Programs
  /\ defined' = TRUE
  /\ UNCHANGED layoutVars

\* A variable in a function, without an initializer.
Define == New /\ memory' = Filled(Unset) /\ last' = NoMembers

\* The members up to n are given in the initializer list.
Given(n, v) == [k \in Members |-> IF k <= n THEN v[k] ELSE 0]

\* create_lvar_init() makes one assignment for every member, of a zero for
\* those the list omits.
LocalInitializer(values) ==
  LET after[k \in 0 .. Len(members)] ==
        IF k = 0 THEN Filled(Unset)
        ELSE AssignMember(after[k - 1], members[k], Value(k, values[k]))
  IN after[Len(members)]

\* Mutant: the buffer is not cleared.
GlobalInitializerUncleared(n, values) ==
  LET after[k \in 0 .. n] ==
        IF k = 0 THEN Filled(Unset) ELSE store(after[k - 1], members[k], Value(k, values[k]))
  IN after[n]

\* write_gvar_data() writes those the list has into a buffer from calloc().
GlobalInitializer(n, values) ==
  LET after[k \in 0 .. n] ==
        IF k = 0 THEN {} ELSE store(after[k - 1], members[k], Value(k, values[k]))
  IN after[n]

\* What the list means: for a union it is the value of the first member.
Meant(values) == IF union THEN [NoMembers EXCEPT ![1] = values[1]] ELSE values

Initialize ==
  /\ New
  /\ \E n \in Members, v \in [Members -> Versions] :
       LET values == Given(n, v)
       IN /\ union => n = 1
          /\ \/ /\ ~union \/ "local_union" \in Programs
                /\ memory' = LocalInitializer(values)
             \/ /\ (\A k \in Members : ~members[k].bitfield) \/ "global_bitfield" \in Programs
                /\ memory' = GlobalInitializer(n, values)
          /\ last' = Meant(values)

LastIs(k, v) == IF union THEN [NoMembers EXCEPT ![k] = v] ELSE [last EXCEPT ![k] = v]

\* s.m = v
Assign ==
  /\ stage = "done" /\ defined
  /\ \E k \in Members, v \in Versions :
       /\ memory' = AssignMember(memory, members[k], Value(k, v))
       /\ last' = LastIs(k, v)
  /\ UNCHANGED <<layoutVars, defined>>

\* s.m op= v and s.m++ store through the address of the member.
CompoundAssign ==
  /\ stage = "done" /\ defined
  /\ \E k \in Members, v \in Versions :
       /\ members[k].bitfield => "compound_bitfield" \in Programs
       /\ memory' = store(memory, members[k], Value(k, v))
       /\ last' = LastIs(k, v)
  /\ UNCHANGED <<layoutVars, defined>>

Next == (LayoutNext /\ UNCHANGED objectVars) \/ Define \/ Initialize \/ Assign \/ CompoundAssign

Spec == Init /\ [][Next]_vars
-----------------------------------------------------------------------------
\* What a member reads as when v is its value
Reading(k, v) ==
  LET m == members[k]
  IN IF m.bitfield THEN keep(Value(k, v), 0 .. m.width - 1) ELSE extend(Value(k, v), m)

\* Every member reads as the value it was given last, whatever was done to its
\* neighbours in the same unit; of a union the member written last
\* (ND_MEMBER and ND_ASSIGN of gen_expr, codegen.c:350, 365).
ReadsBack ==
  defined => \A k \in Members :
    last[k] # Unknown => ReadMember(memory, members[k]) = Reading(k, last[k])

\* The field of the abstract record: the values its member may be said to have.
Holds(k) ==
  IF union \/ ~defined \/ k \notin Members THEN {}
  ELSE {v \in Versions : ReadMember(memory, members[k]) = Reading(k, v)}

Abstract == INSTANCE Record WITH
  Fields <- 1 .. MaxFields, Values <- {{v} : v \in Versions}, Undefined <- {},
  value <- [k \in 1 .. MaxFields |-> Holds(k)]

\* The bytes of a struct object implement a record of independent members
\* (struct_decl, parse.c:2249; gen_expr, codegen.c:350, 365).
ImplementsRecord == Abstract!Spec
=============================================================================

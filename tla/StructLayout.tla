---------------------------- MODULE StructLayout ----------------------------
(***************************************************************************)
(* The layout of structs and unions: parse.c reads the members of a        *)
(* declaration and struct_decl() or union_decl() then runs over the list.  *)
(* Both run again whenever the tag is used, on the list they have already  *)
(* laid out.  Sizes and offsets are bytes, bits and bit offsets are bits.  *)
(***************************************************************************)
EXTENDS Integers, Sequences

CONSTANTS
  Types,       \* the types of members: [size, align, integer]
  Alignas,     \* arguments of _Alignas
  Widths,      \* widths of bit-fields
  MaxMembers,  \* bound: members of a declaration
  MaxUses      \* bound: uses of the tag after its declaration

Alignments == {1} \cup {t.align : t \in Types} \cup Alignas

\* Alignments are powers of two, so that of two the smaller divides the larger;
\* an integer is aligned to its size.
ASSUME LayoutAssumption ==
  /\ Types \subseteq [size : Nat \ {0}, align : Nat \ {0}, integer : BOOLEAN]
  /\ \A t \in Types : t.size % t.align = 0 /\ (t.integer => t.align = t.size)
  /\ Alignas \subseteq Nat \ {0} /\ Widths \subseteq Nat \ {0}
  /\ \A a, b \in Alignments : a <= b => b % a = 0
  /\ MaxMembers \in Nat /\ MaxUses \in Nat

VARIABLES
  members,  \* the list ty->members
  union,    \* did the keyword say union?
  align,    \* ty->align
  size,     \* ty->size
  bits,     \* the running total of struct_decl()
  place,    \* the member the loop has reached
  uses,     \* uses of the tag so far
  stage     \* "members" are read, the "loop" runs, "done"

layoutVars == <<members, union, align, size, bits, place, uses, stage>>

Members == DOMAIN members
Larger(a, b) == IF a < b THEN b ELSE a
-----------------------------------------------------------------------------
\* Mutant: rounds down.
align_to_down(n, a) == n - (n % a)

\* (n + a - 1) & ~(a - 1), where a is a power of two
align_to(n, a) == (n + a - 1) - ((n + a - 1) % a)
align_down(n, a) == align_to(n - a + 1, a)

\* calloc(): the offsets of a new member are 0.
NewMember(t, al) ==
  [size |-> t.size, align |-> al, bitfield |-> FALSE, width |-> 0,
   offset |-> 0, bit_offset |-> 0]

NewBitfield(t, w) ==
  [NewMember(t, t.align) EXCEPT !.bitfield = TRUE, !.width = w]

LayoutInit ==
  /\ members = <<>>
  /\ union \in BOOLEAN
  /\ align = 1 /\ size = 0 /\ bits = 0 /\ place = 1
  /\ uses = 0 /\ stage = "members"

\* C has no _Alignas below the alignment of the type, none on a bit-field,
\* and no bit-field wider than its type.
struct_members ==
  /\ stage = "members" /\ Len(members) < MaxMembers
  /\ \E t \in Types :
       \/ members' = Append(members, NewMember(t, t.align))
       \/ \E al \in Alignas : al >= t.align /\ members' = Append(members, NewMember(t, al))
       \/ \E w \in Widths : /\ t.integer /\ w <= t.size * 8
                            /\ members' = Append(members, NewBitfield(t, w))
  /\ UNCHANGED <<union, align, size, bits, place, uses, stage>>

\* Mutant: the total goes on from the last run over the list.
StartLoopStale ==
  /\ stage' = "loop" /\ place' = 1
  /\ bits' = bits

\* struct_decl() and union_decl() with what struct_union_decl() returned
StartLoop ==
  /\ stage' = "loop" /\ place' = 1
  /\ bits' = 0

struct_union_decl ==
  /\ stage = "members" /\ members # <<>>
  /\ StartLoop
  /\ UNCHANGED <<members, union, align, size, uses>>

\* The tag alone: find_tag() has the type as the last run left it.
use_tag ==
  /\ stage = "done" /\ uses < MaxUses
  /\ uses' = uses + 1
  /\ StartLoop
  /\ UNCHANGED <<members, union, align, size>>
-----------------------------------------------------------------------------
\* Mutant: a bit-field may begin in one unit of its type and end in the next.
BitfieldStartAnywhere(m) == bits

\* A bit-field does not straddle two units of its type.
BitfieldStart(m) ==
  LET unit == m.size * 8
  IN IF bits \div unit # (bits + m.width - 1) \div unit THEN align_to(bits, unit) ELSE bits

PlaceBitfield(m) ==
  LET start == BitfieldStart(m)
  IN /\ members' = [members EXCEPT
                      ![place].offset = align_down(start \div 8, m.size),
                      ![place].bit_offset = start % (m.size * 8)]
     /\ bits' = start + m.width

PlaceMember(m) ==
  LET start == align_to(bits, m.align * 8)
  IN /\ members' = [members EXCEPT ![place].offset = start \div 8]
     /\ bits' = start + m.size * 8

\* Mutant: the alignment of bit-fields is ignored.
RaiseAlignMembersOnly(m) == align' = IF m.bitfield THEN align ELSE Larger(align, m.align)

RaiseAlign(m) == align' = Larger(align, m.align)

LoopStruct ==
  /\ stage = "loop" /\ ~union /\ place \in Members
  /\ LET m == members[place]
     IN /\ IF m.bitfield THEN PlaceBitfield(m) ELSE PlaceMember(m)
        /\ RaiseAlign(m)
  /\ place' = place + 1
  /\ UNCHANGED <<union, size, uses, stage>>

\* The offsets of a union stay 0.
LoopUnion ==
  /\ stage = "loop" /\ union /\ place \in Members
  /\ LET m == members[place] IN RaiseAlign(m) /\ size' = Larger(size, m.size)
  /\ place' = place + 1
  /\ UNCHANGED <<members, union, bits, uses, stage>>

EndLoop ==
  /\ stage = "loop" /\ place \notin Members
  /\ size' = IF union THEN align_to(size, align) ELSE align_to(bits, align * 8) \div 8
  /\ stage' = "done"
  /\ UNCHANGED <<members, union, align, bits, place, uses>>

LayoutNext ==
  struct_members \/ struct_union_decl \/ use_tag \/ LoopStruct \/ LoopUnion \/ EndLoop
-----------------------------------------------------------------------------
FirstBit(m) == m.offset * 8 + m.bit_offset
EndBit(m) == FirstBit(m) + (IF m.bitfield THEN m.width ELSE m.size * 8)

\* No two members of a struct share a bit (struct_decl, parse.c:2249).
MembersDisjoint ==
  (stage = "done" /\ ~union) =>
    \A i, j \in Members : i < j => EndBit(members[i]) <= FirstBit(members[j])

\* The object is made of whole alignments, so that every element of an array
\* of it is aligned, and so is each member in it; what the generator loads and
\* stores for a member, for a bit-field the whole unit, lies inside the object
\* (struct_decl, union_decl, parse.c:2249).
MembersAligned ==
  stage = "done" =>
    /\ size % align = 0
    /\ \A i \in Members : LET m == members[i]
                          IN /\ align % m.align = 0
                             /\ m.offset % (IF m.bitfield THEN m.size ELSE m.align) = 0
                             /\ m.offset + m.size <= size
                             /\ EndBit(m) <= (m.offset + m.size) * 8

\* Using the tag lays the type out anew under objects and pointers that exist
\* already: nothing may move (parse.c:2216, 2249).
UsesChangeNothing ==
  [][uses > 0 => UNCHANGED <<members, align, size>>]_layoutVars
=============================================================================

---------------------------- MODULE StructProofs ----------------------------
(***************************************************************************)
(* Proofs about the layout of structs and unions, for any types, members   *)
(* and widths of bit-fields, and about the objects of these types: what is *)
(* read from a member after any sequence of definitions and assignments.   *)
(***************************************************************************)
EXTENDS StructObject, SequenceTheorems, WellFoundedInduction, TLAPS

-----------------------------------------------------------------------------
(* Division, and rounding to multiples.                                    *)

LEMMA DivModTypes ==
  ASSUME NEW n \in Nat, NEW a \in Nat \ {0}
  PROVE  n \div a \in Nat /\ n % a \in 0 .. a - 1
OBVIOUS

LEMMA DivMod ==
  ASSUME NEW n \in Nat, NEW a \in Nat \ {0}
  PROVE  \E q \in Nat, r \in 0 .. a - 1 : n \div a = q /\ n % a = r /\ n = a * q + r
<1> DEFINE q == n \div a
           r == n % a
<1>1. q \in Nat /\ r \in 0 .. a - 1
  BY DivModTypes
<1>2. n = a * q + r
  BY <1>1
<1> QED
  BY <1>1, <1>2

LEMMA DivModIs ==
  ASSUME NEW a \in Nat \ {0}, NEW q \in Nat, NEW r \in 0 .. a - 1
  PROVE  (a * q + r) \div a = q /\ (a * q + r) % a = r
OBVIOUS

LEMMA MultipleOf ==
  ASSUME NEW n \in Nat, NEW a \in Nat \ {0}
  PROVE  n % a = 0 <=> \E q \in Nat : n = a * q
<1>1. ASSUME n % a = 0 PROVE \E q \in Nat : n = a * q
  <2>1. PICK q \in Nat, r \in 0 .. a - 1 : n % a = r /\ n = a * q + r
    BY DivMod
  <2>2. n = a * q
    BY <1>1, <2>1
  <2> QED
    BY <2>2
<1>2. ASSUME NEW q \in Nat, n = a * q PROVE n % a = 0
  BY <1>2, DivModIs
<1> QED
  BY <1>1, <1>2

LEMMA MultipleTransitive ==
  ASSUME NEW n \in Nat, NEW a \in Nat \ {0}, NEW b \in Nat \ {0}, n % b = 0, b % a = 0
  PROVE  n % a = 0
<1>1. PICK q \in Nat : n = b * q
  BY DivMod
<1>2. PICK p \in Nat : b = a * p
  BY DivMod
<1>3. n = a * (p * q) /\ p * q \in Nat
  BY <1>1, <1>2
<1> QED
  BY <1>3, DivModIs

LEMMA MultiplesApart ==
  ASSUME NEW m \in Nat, NEW n \in Nat, NEW a \in Nat \ {0}, m % a = 0, n % a = 0, m < n
  PROVE  m + a <= n
<1>1. PICK q \in Nat : n = a * q
  BY DivMod
<1>2. PICK p \in Nat : m = a * p
  BY DivMod
<1>3. p < q
  BY <1>1, <1>2
<1> QED
  BY <1>1, <1>2, <1>3

\* align_to rounds up, and leaves a multiple alone (align_to, type.c:59).
LEMMA AlignTo ==
  ASSUME NEW n \in Nat, NEW a \in Nat \ {0}
  PROVE  /\ align_to(n, a) \in Nat /\ align_to(n, a) % a = 0
         /\ n <= align_to(n, a)
         /\ n % a = 0 => align_to(n, a) = n
<1> DEFINE x == n + a - 1
<1>1. x \in Nat
  OBVIOUS
<1>2. PICK q \in Nat, r \in 0 .. a - 1 : x % a = r /\ x = a * q + r
  BY <1>1, DivMod
<1>3. align_to(n, a) = a * q
  BY <1>1, <1>2 DEF align_to
<1>4. a * q \in Nat /\ (a * q) % a = 0
  BY DivModIs
<1>5. n <= a * q
  BY <1>2, <1>4
<1>6. ASSUME n % a = 0 PROVE align_to(n, a) = n
  <2>1. PICK p \in Nat : n = a * p
    BY <1>6, MultipleOf
  <2>2. PICK z \in Nat : z = a - 1 /\ z \in 0 .. a - 1
    OBVIOUS
  <2>3. x = a * p + z
    BY <2>1, <2>2
  <2>4. (a * p + z) % a = z
    BY <2>2, DivModIs
  <2>5. x % a = z
    BY <2>3, <2>4
  <2> QED
    BY <2>2, <2>5 DEF align_to
<1> QED
  BY <1>3, <1>4, <1>5, <1>6

LEMMA AlignDown ==
  ASSUME NEW n \in Nat, NEW a \in Nat \ {0}
  PROVE  /\ align_down(n, a) = n - (n % a)
         /\ align_down(n, a) \in Nat /\ align_down(n, a) % a = 0
<1>1. align_down(n, a) = n - (n % a)
  <2>1. n - a + 1 + a - 1 = n
    OBVIOUS
  <2> QED
    BY <2>1 DEF align_down, align_to
<1>2. PICK q \in Nat, r \in 0 .. a - 1 : n % a = r /\ n = a * q + r
  BY DivMod
<1>3. a * q \in Nat /\ (a * q) % a = 0
  BY DivModIs
<1> QED
  BY <1>1, <1>2, <1>3

\* The unit of s bytes a bit stands in, and the place of the bit in it.
LEMMA UnitOfBit ==
  ASSUME NEW n \in Nat, NEW s \in Nat \ {0}
  PROVE  align_down(n \div 8, s) * 8 + (n % (s * 8)) = n
<1>1. PICK x \in Nat, t \in 0 .. 7 : n \div 8 = x /\ n = 8 * x + t
  BY DivMod
<1>2. PICK q \in Nat, r \in 0 .. s - 1 : x % s = r /\ x = s * q + r
  BY DivMod
<1>3. PICK p \in Nat : p = s * q
  OBVIOUS
<1>4. align_down(n \div 8, s) = p
  <2>1. align_down(x, s) = x - (x % s)
    BY AlignDown
  <2> QED
    BY <1>1, <1>2, <1>3, <2>1
<1>5. PICK u \in Nat \ {0}, v \in Nat : u = s * 8 /\ v = 8 * r + t /\ v \in 0 .. u - 1
  OBVIOUS
<1>6. n = u * q + v
  <2>1. (s * 8) * q = 8 * (s * q)
    OBVIOUS
  <2> QED
    BY <1>1, <1>2, <1>3, <1>5, <2>1
<1>7. n % u = v
  <2>1. (u * q + v) % u = v
    BY <1>5, DivModIs
  <2>2. u * q + v = n
    BY <1>5, <1>6
  <2> QED
    BY <2>1, <2>2
<1>8. n % (s * 8) = v
  BY <1>5, <1>7
<1>9. p * 8 + v = n
  BY <1>1, <1>2, <1>3, <1>5
<1> QED
  BY <1>4, <1>8, <1>9

LEMMA UnitOfBitTyped ==
  ASSUME NEW n \in Nat, NEW s \in Nat \ {0}
  PROVE  \E o, w \in Nat : o = align_down(n \div 8, s) /\ w = n % (s * 8)
<1>1. PICK u \in Nat \ {0} : u = s * 8
  OBVIOUS
<1>2. PICK q \in Nat, r \in 0 .. u - 1 : n % u = r
  BY DivMod
<1>3. PICK x \in Nat : x = n \div 8
  OBVIOUS
<1>4. align_down(x, s) \in Nat
  BY AlignDown
<1> QED
  BY <1>1, <1>2, <1>3, <1>4
-----------------------------------------------------------------------------
(* The invariant.                                                          *)

Member ==
  [size : Nat \ {0}, align : Alignments, bitfield : BOOLEAN, width : Nat,
   offset : Nat, bit_offset : Nat]

\* What struct_members() makes: a bit-field is no wider than its type.
MemberOK(m) ==
  IF m.bitfield THEN m.align = m.size /\ m.width \in 1 .. m.size * 8 ELSE m.bit_offset = 0

LayoutTyped ==
  /\ members \in Seq(Member) /\ \A k \in Members : MemberOK(members[k])
  /\ union \in BOOLEAN
  /\ align \in Alignments /\ size \in Nat /\ bits \in Nat
  /\ place \in 1 .. Len(members) + 1 /\ uses \in Nat
  /\ stage \in {"members", "loop", "done"}
  /\ stage = "members" => uses = 0

\* Has the loop run to its end before?
Complete == stage = "done" \/ uses > 0

\* The members the loop has placed, in this run or an earlier one
Done == IF Complete THEN Members
        ELSE IF stage = "loop" THEN {k \in Members : k < place} ELSE {}

\* Where the total stands before member k.
Before(k) == IF k = 1 THEN 0 ELSE EndBit(members[k - 1])

\* The total from which a bit-field is placed, when it is b.
StartAt(b, m) ==
  LET unit == m.size * 8
  IN IF b \div unit # (b + m.width - 1) \div unit THEN align_to(b, unit) ELSE b

\* Member m is where the loop places it when the total is b.
PlacedAt(b, m) ==
  IF m.bitfield
  THEN /\ m.offset = align_down(StartAt(b, m) \div 8, m.size)
       /\ m.bit_offset = StartAt(b, m) % (m.size * 8)
  ELSE m.offset = align_to(b, m.align * 8) \div 8

\* Every placed member is where the loop would place it again.
StructPlaced ==
  ~union =>
    /\ stage = "loop" => bits = Before(place)
    /\ \A k \in Done : PlacedAt(Before(k), members[k])
    /\ \A i, j \in Done : i < j => EndBit(members[i]) <= FirstBit(members[j])

UnionPlaced ==
  union => \A k \in Members : /\ members[k].offset = 0 /\ members[k].bit_offset = 0
                              /\ k \in Done => members[k].size <= size

\* The alignment covers the placed members; the size is what the end of the
\* loop computes from it.
Enclosed ==
  /\ \A k \in Done : members[k].align <= align
  /\ Complete =>
       /\ size % align = 0
       /\ ~union => size = align_to(Before(Len(members) + 1), align * 8) \div 8

IInv == LayoutTyped /\ StructPlaced /\ UnionPlaced /\ Enclosed
-----------------------------------------------------------------------------
(* Members and their places.                                               *)

LEMMA AlignmentsTyped ==
  /\ \A a \in Alignments : a \in Nat \ {0}
  /\ 1 \in Alignments
  /\ \A t \in Types : t.align \in Alignments
  /\ \A a \in Alignas : a \in Alignments
BY LayoutAssumption DEF Alignments

LEMMA MemberFields ==
  ASSUME NEW m \in Member
  PROVE  /\ m.size \in Nat \ {0} /\ m.align \in Alignments /\ m.align \in Nat \ {0}
         /\ m.bitfield \in BOOLEAN /\ m.width \in Nat
         /\ m.offset \in Nat /\ m.bit_offset \in Nat
         /\ FirstBit(m) \in Nat /\ EndBit(m) \in Nat /\ FirstBit(m) <= EndBit(m)
<1>1. /\ m.size \in Nat \ {0} /\ m.align \in Alignments /\ m.align \in Nat \ {0}
      /\ m.bitfield \in BOOLEAN /\ m.width \in Nat
      /\ m.offset \in Nat /\ m.bit_offset \in Nat
  BY AlignmentsTyped DEF Member
<1> QED
  BY <1>1 DEF FirstBit, EndBit

\* A bit-field begins where the total is or at the next unit, and ends in the
\* unit it begins in (struct_decl, parse.c:2249).
LEMMA BitfieldInUnit ==
  ASSUME NEW m \in Member, MemberOK(m), m.bitfield, NEW b \in Nat
  PROVE  /\ StartAt(b, m) \in Nat /\ b <= StartAt(b, m)
         /\ (StartAt(b, m) % (m.size * 8)) + m.width <= m.size * 8
<1>1. m.size \in Nat \ {0} /\ m.width \in 1 .. m.size * 8
  BY MemberFields DEF MemberOK
<1>2. PICK u \in Nat \ {0}, w \in Nat \ {0} : u = m.size * 8 /\ w = m.width /\ w <= u
  BY <1>1
<1>3. CASE b \div u = (b + w - 1) \div u
  <2>1. PICK q \in Nat, r \in 0 .. u - 1 : b \div u = q /\ b % u = r /\ b = u * q + r
    BY DivMod
  <2>2. PICK c \in Nat : c = b + w - 1
    OBVIOUS
  <2>3. PICK q2 \in Nat, r2 \in 0 .. u - 1 : c \div u = q2 /\ c = u * q2 + r2
    BY DivMod
  <2>4. q2 = q
    BY <1>3, <2>1, <2>2, <2>3
  <2>5. r + w = r2 + 1
    BY <2>1, <2>2, <2>3, <2>4
  <2>6. (b % u) + w <= u
    BY <2>1, <2>5
  <2> QED
    BY <1>2, <1>3, <2>6 DEF StartAt
<1>4. CASE b \div u # (b + w - 1) \div u
  <2>1. StartAt(b, m) = align_to(b, u)
    BY <1>2, <1>4 DEF StartAt
  <2>2. align_to(b, u) \in Nat /\ b <= align_to(b, u) /\ align_to(b, u) % u = 0
    BY AlignTo
  <2> QED
    BY <1>2, <2>1, <2>2
<1> QED
  BY <1>3, <1>4

\* What a member occupies once the loop has placed it.
LEMMA PlacedMember ==
  ASSUME NEW m \in Member, MemberOK(m), NEW b \in Nat, PlacedAt(b, m)
  PROVE  /\ b <= FirstBit(m)
         /\ m.bitfield => /\ FirstBit(m) = StartAt(b, m)
                          /\ m.offset % m.size = 0
                          /\ m.bit_offset + m.width <= m.size * 8
         /\ ~m.bitfield => /\ FirstBit(m) = align_to(b, m.align * 8)
                           /\ m.offset % m.align = 0
<1>1. m.size \in Nat \ {0} /\ m.align \in Nat \ {0} /\ m.bitfield \in BOOLEAN
  BY MemberFields
<1>2. CASE m.bitfield
  <2>1. PICK s \in Nat : s = StartAt(b, m) /\ b <= s /\ (s % (m.size * 8)) + m.width <= m.size * 8
    BY <1>2, BitfieldInUnit
  <2>2. m.offset = align_down(s \div 8, m.size) /\ m.bit_offset = s % (m.size * 8)
    BY <1>2, <2>1 DEF PlacedAt
  <2>3. FirstBit(m) = s
    BY <1>1, <2>2, UnitOfBit DEF FirstBit
  <2>4. s \div 8 \in Nat
    BY DivModTypes
  <2>5. m.offset % m.size = 0
    BY <1>1, <2>2, <2>4, AlignDown
  <2> QED
    BY <1>2, <2>1, <2>2, <2>3, <2>5
<1>3. CASE ~m.bitfield
  <2>1. PICK u \in Nat \ {0} : u = m.align * 8
    BY <1>1
  <2>2. PICK s \in Nat : s = align_to(b, u) /\ b <= s /\ s % u = 0
    BY AlignTo
  <2>3. PICK q \in Nat : s = u * q
    BY <2>2, MultipleOf
  <2>4. PICK p \in Nat : p = m.align * q
    BY <1>1
  <2>5. s = 8 * p
    BY <1>1, <2>1, <2>3, <2>4
  <2>6. s \div 8 = p
    BY <2>5
  <2>7. m.offset = p
    BY <1>3, <2>1, <2>2, <2>6 DEF PlacedAt
  <2>8. p % m.align = 0
    BY <1>1, <2>4, MultipleOf
  <2>9. FirstBit(m) = s
    BY <1>3, <2>5, <2>7 DEF FirstBit, MemberOK
  <2> QED
    BY <1>3, <2>1, <2>2, <2>7, <2>8, <2>9
<1> QED
  BY <1>1, <1>2, <1>3

\* Whole alignments that hold b bits
LEMMA BytesFor ==
  ASSUME NEW b \in Nat, NEW a \in Nat \ {0}
  PROVE  \E p \in Nat : /\ p = align_to(b, a * 8) \div 8 /\ p * 8 = align_to(b, a * 8)
                        /\ p % a = 0 /\ b <= p * 8
<1>1. PICK u \in Nat \ {0} : u = a * 8
  OBVIOUS
<1>2. PICK s \in Nat : s = align_to(b, u) /\ b <= s /\ s % u = 0
  BY AlignTo
<1>3. PICK q \in Nat : s = u * q
  BY <1>2, MultipleOf
<1>4. PICK p \in Nat : p = a * q
  OBVIOUS
<1>5. s = p * 8
  BY <1>1, <1>3, <1>4
<1>6. p = s \div 8
  BY <1>5
<1>7. p % a = 0
  BY <1>4, MultipleOf
<1> QED
  BY <1>1, <1>2, <1>5, <1>6, <1>7

\* The loop gives a member the place PlacedAt() describes, changes no other
\* member, and goes on behind it (struct_decl, parse.c:2255).
LEMMA LoopPlaces ==
  ASSUME IInv, LoopStruct
  PROVE  /\ members' \in Seq(Member) /\ Len(members') = Len(members)
         /\ \A k \in Members : k # place => members'[k] = members[k]
         /\ \E m \in Member : /\ m = members'[place] /\ MemberOK(m) /\ PlacedAt(bits, m)
                              /\ bits' = EndBit(m)
                              /\ \E n \in Member :
                                   /\ n = members[place] /\ m.align = n.align
                                   /\ m.size = n.size /\ m.bitfield = n.bitfield
                                   /\ m.width = n.width
<1> DEFINE n == members[place]
           m == members'[place]
<1>1. /\ members \in Seq(Member) /\ place \in Members /\ n \in Member /\ MemberOK(n)
      /\ bits \in Nat
  BY ElementOfSeq DEF IInv, LayoutTyped, LoopStruct, Members
<1>2. Members = 1 .. Len(members) /\ Len(members) \in Nat
  BY <1>1 DEF Members
<1>3. \E o, w \in Nat :
        /\ members' = [members EXCEPT ![place] = [n EXCEPT !.offset = o, !.bit_offset = w]]
        /\ PlacedAt(bits, [n EXCEPT !.offset = o, !.bit_offset = w])
        /\ MemberOK([n EXCEPT !.offset = o, !.bit_offset = w])
        /\ bits' = EndBit([n EXCEPT !.offset = o, !.bit_offset = w])
  <2>1. n.size \in Nat \ {0} /\ n.align \in Nat \ {0} /\ n.bitfield \in BOOLEAN
        /\ n.width \in Nat /\ n.offset \in Nat /\ n.bit_offset \in Nat
    BY <1>1, MemberFields
  <2>2. CASE n.bitfield
    <3>1. PICK s \in Nat : s = StartAt(bits, n)
      BY <1>1, <2>2, BitfieldInUnit
    <3>2. PICK o \in Nat, w \in Nat : o = align_down(s \div 8, n.size) /\ w = s % (n.size * 8)
      BY <2>1, <3>1, UnitOfBitTyped
    <3> DEFINE x == [n EXCEPT !.offset = o, !.bit_offset = w]
    <3>3. /\ x.size = n.size /\ x.align = n.align /\ x.bitfield = n.bitfield
          /\ x.width = n.width /\ x.offset = o /\ x.bit_offset = w
      BY <1>1 DEF Member
    <3>4. members' = [members EXCEPT ![place] = x] /\ bits' = s + n.width
      BY <1>1, <2>2, <3>1, <3>2
         DEF LoopStruct, PlaceBitfield, BitfieldStart, StartAt, Member
    <3>5. MemberOK(x)
      BY <1>1, <2>2, <3>3 DEF MemberOK
    <3>6. PlacedAt(bits, x)
      BY <2>2, <3>1, <3>2, <3>3 DEF PlacedAt, StartAt
    <3>7. EndBit(x) = s + n.width
      BY <2>1, <2>2, <3>2, <3>3, UnitOfBit DEF EndBit, FirstBit
    <3> QED
      BY <3>2, <3>4, <3>5, <3>6, <3>7
  <2>3. CASE ~n.bitfield
    <3>1. PICK o \in Nat : /\ o = align_to(bits, n.align * 8) \div 8
                           /\ o * 8 = align_to(bits, n.align * 8)
      BY <1>1, <2>1, BytesFor
    <3> DEFINE x == [n EXCEPT !.offset = o, !.bit_offset = n.bit_offset]
    <3>2. /\ x.size = n.size /\ x.align = n.align /\ x.bitfield = n.bitfield
          /\ x.width = n.width /\ x.offset = o /\ x.bit_offset = n.bit_offset
      BY <1>1 DEF Member
    <3>3. x = [n EXCEPT !.offset = o]
      BY <1>1 DEF Member
    <3>4. members' = [members EXCEPT ![place] = x] /\ bits' = o * 8 + n.size * 8
      BY <1>1, <2>3, <3>1, <3>3 DEF LoopStruct, PlaceMember
    <3>5. MemberOK(x)
      BY <1>1, <2>3, <3>2 DEF MemberOK
    <3>6. PlacedAt(bits, x)
      BY <2>3, <3>1, <3>2 DEF PlacedAt
    <3>7. EndBit(x) = o * 8 + n.size * 8
      BY <1>1, <2>1, <2>3, <3>2 DEF EndBit, FirstBit, MemberOK
    <3> QED
      BY <2>1, <3>1, <3>4, <3>5, <3>6, <3>7
  <2> QED
    BY <2>1, <2>2, <2>3
<1>4. PICK o \in Nat, w \in Nat :
        /\ members' = [members EXCEPT ![place] = [n EXCEPT !.offset = o, !.bit_offset = w]]
        /\ PlacedAt(bits, [n EXCEPT !.offset = o, !.bit_offset = w])
        /\ MemberOK([n EXCEPT !.offset = o, !.bit_offset = w])
        /\ bits' = EndBit([n EXCEPT !.offset = o, !.bit_offset = w])
  BY <1>3
<1> DEFINE x == [n EXCEPT !.offset = o, !.bit_offset = w]
<1>5. /\ x \in Member /\ x.align = n.align /\ x.size = n.size /\ x.bitfield = n.bitfield
      /\ x.width = n.width
  BY <1>1 DEF Member
<1>6. /\ members' \in Seq(Member) /\ Len(members') = Len(members)
      /\ \A k \in Members : members'[k] = IF k = place THEN x ELSE members[k]
  BY <1>1, <1>2, <1>4, <1>5
<1> QED
  BY <1>1, <1>4, <1>5, <1>6

-----------------------------------------------------------------------------
(* The invariant holds in every state.                                     *)

LEMMA MemberAt ==
  ASSUME LayoutTyped, NEW k \in Members
  PROVE  members[k] \in Member /\ MemberOK(members[k])
BY ElementOfSeq DEF LayoutTyped, Members

LEMMA MembersAre ==
  ASSUME LayoutTyped
  PROVE  Members = 1 .. Len(members) /\ Len(members) \in Nat
BY DEF LayoutTyped, Members

LEMMA BeforeTyped ==
  ASSUME LayoutTyped, NEW k \in 1 .. Len(members) + 1
  PROVE  Before(k) \in Nat
<1>1. CASE k = 1
  BY <1>1 DEF Before
<1>2. CASE k # 1
  <2>1. k - 1 \in Members
    BY <1>2, MembersAre
  <2> QED
    BY <1>2, <2>1, MemberAt, MemberFields DEF Before
<1> QED
  BY <1>1, <1>2

LEMMA InitiallyPlaced ==
  ASSUME LayoutInit PROVE IInv
<1>1. Members = {} /\ Done = {} /\ ~Complete
  BY DEF LayoutInit, Members, Done, Complete
<1>2. LayoutTyped
  BY AlignmentsTyped DEF LayoutInit, LayoutTyped, Members
<1> QED
  BY <1>1, <1>2 DEF IInv, LayoutInit, StructPlaced, UnionPlaced, Enclosed

LEMMA ReadingPlaces ==
  ASSUME IInv, struct_members PROVE IInv'
<1>1. PICK m : /\ m \in Member /\ MemberOK(m) /\ m.offset = 0 /\ m.bit_offset = 0
               /\ members' = Append(members, m)
  <2>1. PICK t \in Types :
       \/ members' = Append(members, NewMember(t, t.align))
       \/ \E al \in Alignas : al >= t.align /\ members' = Append(members, NewMember(t, al))
       \/ \E w \in Widths : /\ t.integer /\ w <= t.size * 8
                            /\ members' = Append(members, NewBitfield(t, w))
    BY DEF struct_members
  <2>2. t.size \in Nat \ {0} /\ t.align \in Alignments /\ (t.integer => t.align = t.size)
    BY AlignmentsTyped, LayoutAssumption
  <2>3. ASSUME NEW al \in Alignments
        PROVE  /\ NewMember(t, al) \in Member /\ MemberOK(NewMember(t, al))
               /\ NewMember(t, al).offset = 0 /\ NewMember(t, al).bit_offset = 0
    BY <2>2 DEF NewMember, Member, MemberOK
  <2>4. ASSUME NEW w \in Widths, t.integer, w <= t.size * 8
        PROVE  /\ NewBitfield(t, w) \in Member /\ MemberOK(NewBitfield(t, w))
               /\ NewBitfield(t, w).offset = 0 /\ NewBitfield(t, w).bit_offset = 0
    <3>1. w \in Nat \ {0}
      BY LayoutAssumption
    <3> DEFINE m == NewMember(t, t.align)
               b == NewBitfield(t, w)
    <3>2. m \in Member /\ m.size = t.size /\ m.align = t.align /\ m.offset = 0 /\ m.bit_offset = 0
      BY <2>2 DEF NewMember, Member
    <3>3. /\ b \in Member /\ b.bitfield = TRUE /\ b.width = w /\ b.size = t.size
          /\ b.align = t.align /\ b.offset = 0 /\ b.bit_offset = 0
      <4> HIDE DEF m
      <4>1. b = [m EXCEPT !.bitfield = TRUE, !.width = w]
        BY DEF NewBitfield, m
      <4> QED
        BY <3>1, <3>2, <4>1 DEF Member
    <3>4. w \in 1 .. t.size * 8
      BY <2>2, <2>4, <3>1
    <3> HIDE DEF b
    <3>5. MemberOK(b)
      BY <2>2, <2>4, <3>3, <3>4 DEF MemberOK
    <3> QED
      BY <3>3, <3>5 DEF b
  <2> QED
    BY <2>1, <2>2, <2>3, <2>4, AlignmentsTyped
<1>2. members \in Seq(Member) /\ Members = 1 .. Len(members) /\ Len(members) \in Nat
  BY MembersAre DEF IInv, LayoutTyped
<1>3. /\ members' \in Seq(Member) /\ Len(members') = Len(members) + 1
      /\ \A k \in Members : members'[k] = members[k]
      /\ members'[Len(members) + 1] = m
  BY <1>1, <1>2
<1>4. Members' = Members \cup {Len(members) + 1}
  BY <1>2, <1>3 DEF Members
<1>5. LayoutTyped'
  <2>1. \A k \in Members' : MemberOK(members'[k])
    BY <1>1, <1>3, <1>4 DEF IInv, LayoutTyped
  <2> QED
    BY <1>2, <1>3, <2>1 DEF IInv, LayoutTyped, struct_members, MemberOK
<1>6. Done = {} /\ Done' = {} /\ ~Complete'
  BY DEF IInv, LayoutTyped, struct_members, Done, Complete
<1>7. UnionPlaced'
  BY <1>1, <1>3, <1>4, <1>6 DEF IInv, UnionPlaced, struct_members
<1> QED
  BY <1>5, <1>6, <1>7 DEF IInv, StructPlaced, Enclosed, struct_members

LEMMA StartingPlaces ==
  ASSUME IInv, StartLoop, stage \in {"members", "done"}, UNCHANGED <<members, union, align, size>>,
         uses' \in Nat, stage = "done" <=> uses' > 0
  PROVE  IInv'
<1>1. LayoutTyped'
  <2>1. 1 \in 1 .. Len(members) + 1
    BY MembersAre DEF IInv
  <2>2. Members' = Members
    BY DEF Members
  <2> QED
    BY <2>1, <2>2 DEF IInv, LayoutTyped, StartLoop, MemberOK
<1>2. Members' = Members /\ (\A k : Before(k)' = Before(k))
  BY DEF Members, Before, EndBit, FirstBit
<1>3. Complete' <=> Complete
  BY DEF IInv, LayoutTyped, StartLoop, Complete
<1>4. Done' = Done
  <2>1. {k \in Members : k < 1} = {}
    BY MembersAre DEF IInv
  <2>2. ~Complete => stage = "members"
    BY DEF Complete
  <2> QED
    BY <1>2, <1>3, <2>1, <2>2 DEF Done, StartLoop
<1>5. StructPlaced'
  BY <1>2, <1>4 DEF IInv, StructPlaced, StartLoop, Before, PlacedAt, StartAt, EndBit, FirstBit
<1>6. UnionPlaced'
  BY <1>2, <1>4 DEF IInv, UnionPlaced
<1>7. Enclosed'
  BY <1>2, <1>3, <1>4 DEF IInv, Enclosed
<1> QED
  BY <1>1, <1>5, <1>6, <1>7 DEF IInv

LEMMA LayingOutUnionPlaces ==
  ASSUME IInv, LoopUnion PROVE IInv'
<1> DEFINE n == members[place]
<1>1. /\ place \in Members /\ n \in Member /\ n.align \in Alignments /\ n.size \in Nat \ {0}
      /\ n.align \in Nat \ {0}
  BY MemberAt, MemberFields DEF IInv, LoopUnion
<1>2. Members = 1 .. Len(members) /\ Len(members) \in Nat /\ align \in Nat \ {0} /\ size \in Nat
  BY MembersAre, AlignmentsTyped DEF IInv, LayoutTyped
<1>3. /\ align' \in {align, n.align} /\ align <= align' /\ n.align <= align'
      /\ size' \in {size, n.size} /\ size <= size' /\ n.size <= size'
  BY <1>1, <1>2 DEF LoopUnion, RaiseAlign, Larger
<1>4. Members' = Members /\ (Complete' <=> Complete)
  BY DEF LoopUnion, Members, Complete
<1>5. Done' = Done \cup {place}
  BY <1>1, <1>2, <1>4 DEF Done, LoopUnion, Complete
<1>6. LayoutTyped'
  BY <1>1, <1>2, <1>3, <1>4 DEF IInv, LayoutTyped, LoopUnion, MemberOK
<1>7. UnionPlaced'
  <2>1. \A k \in Members : members[k].size \in Nat
    BY MemberAt, MemberFields DEF IInv
  <2>2. \A k \in Members : k \in Done' => members[k].size <= size'
    BY <1>1, <1>2, <1>3, <1>5, <2>1 DEF IInv, UnionPlaced, LoopUnion
  <2> QED
    BY <1>4, <2>2 DEF IInv, UnionPlaced, LoopUnion
<1>8. Enclosed'
  <2>1. Done \subseteq Members /\ (\A k \in Members : members[k].align \in Nat)
    BY MemberAt, MemberFields DEF IInv, Done
  <2>2. \A k \in Done' : members[k].align <= align'
    BY <1>1, <1>2, <1>3, <1>5, <2>1 DEF IInv, Enclosed
  <2>3. ASSUME Complete PROVE align' = align /\ size' = size
    <3>1. place \in Done
      BY <1>1, <2>3 DEF Done
    <3>2. n.align <= align /\ n.size <= size
      BY <1>1, <3>1 DEF IInv, Enclosed, UnionPlaced, LoopUnion
    <3> QED
      BY <1>1, <1>2, <1>3, <3>2
  <2> QED
    BY <1>4, <2>2, <2>3 DEF IInv, Enclosed, LoopUnion
<1> QED
  BY <1>6, <1>7, <1>8 DEF IInv, StructPlaced, LoopUnion

\* Laying the members out once more changes none of them.
LEMMA LoopRepeats ==
  ASSUME IInv, LoopStruct, place \in Done
  PROVE  members' = members
<1>1. /\ members' \in Seq(Member) /\ Len(members') = Len(members)
      /\ \A k \in Members : k # place => members'[k] = members[k]
  BY LoopPlaces
<1>2. PICK m \in Member, n \in Member :
        /\ m = members'[place] /\ n = members[place] /\ MemberOK(m) /\ PlacedAt(bits, m)
        /\ m.align = n.align /\ m.size = n.size /\ m.bitfield = n.bitfield /\ m.width = n.width
  BY LoopPlaces
<1>3. members \in Seq(Member) /\ place \in Members /\ MemberOK(n)
  BY <1>2, MemberAt DEF IInv, LayoutTyped, LoopStruct
<1>4. PlacedAt(bits, n)
  BY <1>2, <1>3 DEF IInv, StructPlaced, LoopStruct
<1>5. StartAt(bits, m) = StartAt(bits, n)
  BY <1>2 DEF StartAt
<1>6. m.offset = n.offset /\ m.bit_offset = n.bit_offset
  BY <1>2, <1>3, <1>4, <1>5 DEF PlacedAt, MemberOK
<1>7. m = n
  BY <1>2, <1>6 DEF Member
<1>8. \A k \in Members : members'[k] = members[k]
  BY <1>1, <1>2, <1>7
<1>9. \A k \in 1 .. Len(members) : members'[k] = members[k]
  BY <1>8, <1>3 DEF Members
<1> QED
  BY <1>1, <1>3, <1>9, SeqEqual

LEMMA LayingOutStructPlaces ==
  ASSUME IInv, LoopStruct PROVE IInv'
<1> DEFINE n == members[place]
<1>1. /\ members' \in Seq(Member) /\ Len(members') = Len(members)
      /\ \A k \in Members : k # place => members'[k] = members[k]
  BY LoopPlaces
<1>2. PICK m \in Member : /\ m = members'[place] /\ MemberOK(m) /\ PlacedAt(bits, m)
                          /\ bits' = EndBit(m) /\ m.align = members[place].align
  BY LoopPlaces
<1>3. /\ place \in Members /\ n \in Member /\ n.align \in Alignments /\ n.align \in Nat \ {0}
      /\ bits = Before(place) /\ bits \in Nat /\ ~union /\ stage = "loop"
  BY MemberAt, MemberFields DEF IInv, LayoutTyped, LoopStruct, StructPlaced
<1>4. Members = 1 .. Len(members) /\ Len(members) \in Nat /\ align \in Nat \ {0} /\ size \in Nat
  BY MembersAre, AlignmentsTyped DEF IInv, LayoutTyped
<1>5. align' \in {align, n.align} /\ align <= align' /\ n.align <= align'
  BY <1>3, <1>4 DEF LoopStruct, RaiseAlign, Larger
<1>6. Members' = Members /\ (Complete' <=> Complete) /\ place' = place + 1
  BY <1>1, <1>4 DEF LoopStruct, Members, Complete
<1>7. Done' = Done \cup {place}
  BY <1>3, <1>4, <1>6 DEF Done, LoopStruct, Complete
<1>8. LayoutTyped'
  <2>1. \A k \in Members' : MemberOK(members'[k])
    BY <1>1, <1>2, <1>6 DEF IInv, LayoutTyped
  <2>2. bits' \in Nat
    BY <1>2, MemberFields
  <2> QED
    BY <1>1, <1>3, <1>4, <1>5, <1>6, <2>1, <2>2 DEF IInv, LayoutTyped, LoopStruct, MemberOK
<1>9. \A k \in 1 .. place : Before(k)' = Before(k)
  <2>1. \A k \in 1 .. place : k # 1 => k - 1 \in Members /\ k - 1 # place
    BY <1>3, <1>4
  <2> QED
    BY <1>1, <2>1 DEF Before, EndBit, FirstBit
<1>10. bits' = Before(place)'
  <2>1. place' # 1 /\ place' - 1 = place
    BY <1>3, <1>4, <1>6
  <2> QED
    BY <1>2, <2>1 DEF Before, EndBit, FirstBit
<1>11. CASE place \in Done
  <2>1. members' = members /\ Done' = Done
    BY <1>7, <1>11, LoopRepeats
  <2>2. \A k : Before(k)' = Before(k)
    BY <2>1 DEF Before, EndBit, FirstBit
  <2>3. StructPlaced'
    BY <1>10, <2>1, <2>2 DEF IInv, StructPlaced, LoopStruct, PlacedAt, StartAt, EndBit, FirstBit
  <2>4. n.align <= align
    BY <1>11 DEF IInv, Enclosed
  <2>5. align' = align
    BY <1>3, <1>4, <1>5, <2>4
  <2>6. Enclosed'
    BY <1>6, <2>1, <2>2, <2>5 DEF IInv, Enclosed, LoopStruct
  <2> QED
    BY <1>8, <1>3, <2>3, <2>6 DEF IInv, UnionPlaced, LoopStruct
<1>12. CASE place \notin Done
  <2>1. ~Complete /\ ~Complete' /\ Done = {k \in Members : k < place}
    BY <1>3, <1>6, <1>12 DEF Done
  <2>2. \A k \in Done : k \in Members /\ k # place /\ k < place /\ members'[k] = members[k]
    BY <1>1, <1>4, <2>1
  <2>3. ASSUME NEW k \in Done' PROVE PlacedAt(Before(k), members[k])'
    <3>1. CASE k = place
      BY <1>2, <1>3, <1>4, <1>9, <3>1 DEF PlacedAt, StartAt
    <3>2. CASE k \in Done
      <4>1. PlacedAt(Before(k), members[k])
        BY <1>3, <3>2 DEF IInv, StructPlaced
      <4>2. Before(k)' = Before(k) /\ members'[k] = members[k]
        BY <1>3, <1>4, <1>9, <2>2, <3>2
      <4> QED
        BY <4>1, <4>2 DEF PlacedAt, StartAt
    <3> QED
      BY <1>7, <2>3, <3>1, <3>2
  <2>4. ASSUME NEW i \in Done', NEW j \in Done', i < j
        PROVE  EndBit(members'[i]) <= FirstBit(members'[j])
    <3>1. i \in Done
      BY <1>3, <1>4, <1>7, <2>1, <2>4
    <3>2. CASE j \in Done
      BY <1>3, <2>2, <2>4, <3>1, <3>2 DEF IInv, StructPlaced
    <3>3. CASE j = place
      <4>1. place - 1 \in Done /\ place - 1 \in Members /\ place # 1
        BY <1>3, <1>4, <2>1, <3>1
      <4>2. bits = EndBit(members[place - 1])
        BY <1>3, <4>1 DEF Before
      <4>3. members[i] \in Member /\ members[place - 1] \in Member
        BY <2>2, <3>1, <4>1, MemberAt DEF IInv
      <4>4. i = place - 1 \/ EndBit(members[i]) <= FirstBit(members[place - 1])
        BY <1>3, <1>4, <2>2, <3>1, <4>1 DEF IInv, StructPlaced
      <4>5. EndBit(members[i]) \in Nat /\ EndBit(members[i]) <= bits
        BY <4>2, <4>3, <4>4, MemberFields
      <4>6. bits <= FirstBit(m) /\ FirstBit(m) \in Nat
        BY <1>2, <1>3, MemberFields, PlacedMember
      <4> QED
        BY <1>2, <1>3, <2>2, <3>1, <3>3, <4>5, <4>6
    <3> QED
      BY <1>7, <2>4, <3>2, <3>3
  <2>5. StructPlaced'
    BY <1>10, <2>3, <2>4 DEF StructPlaced, LoopStruct
  <2>6. Enclosed'
    <3>1. ASSUME NEW k \in Done' PROVE members'[k].align <= align'
      <4>1. CASE k = place
        BY <1>2, <1>5, <4>1
      <4>2. CASE k \in Done
        <5>1. members[k].align <= align /\ members[k].align \in Nat
          BY <2>2, <4>2, MemberAt, MemberFields DEF IInv, Enclosed
        <5> QED
          BY <1>3, <1>4, <1>5, <2>2, <4>2, <5>1
      <4> QED
        BY <1>7, <3>1, <4>1, <4>2
    <3> QED
      BY <2>1, <3>1 DEF Enclosed
  <2> QED
    BY <1>3, <1>8, <2>5, <2>6 DEF IInv, UnionPlaced, LoopStruct
<1> QED
  BY <1>11, <1>12

LEMMA EndingPlaces ==
  ASSUME IInv, EndLoop PROVE IInv' /\ (uses > 0 => size' = size)
<1>1. /\ Members = 1 .. Len(members) /\ Len(members) \in Nat
      /\ align \in Nat \ {0} /\ size \in Nat /\ bits \in Nat
  BY MembersAre, AlignmentsTyped DEF IInv, LayoutTyped
<1>2. place = Len(members) + 1 /\ Complete' /\ Members' = Members
  BY <1>1 DEF IInv, LayoutTyped, EndLoop, Complete, Members
<1>3. Done = Members /\ Done' = Members
  <2>1. {k \in Members : k < place} = Members
    BY <1>1, <1>2
  <2> QED
    BY <1>2, <2>1 DEF Done, EndLoop
<1>4. (\A k : Before(k)' = Before(k)) /\ (~union => bits = Before(Len(members) + 1))
  BY <1>2 DEF IInv, StructPlaced, EndLoop, Before, EndBit, FirstBit
<1>5. CASE union
  <2>1. /\ size' \in Nat /\ size' % align = 0 /\ size <= size'
        /\ size % align = 0 => size' = size
    BY <1>1, <1>5, AlignTo DEF EndLoop
  <2>2. uses > 0 => size' = size
    BY <2>1 DEF IInv, Enclosed, Complete
  <2>3. \A k \in Members : members[k].size <= size'
    <3>1. ASSUME NEW k \in Members PROVE members[k].size <= size'
      <4>1. members[k].size \in Nat /\ members[k].size <= size
        BY <1>3, <1>5, MemberAt, MemberFields DEF IInv, UnionPlaced
      <4> QED
        BY <1>1, <2>1, <4>1
    <3> QED
      BY <3>1
  <2>4. LayoutTyped'
    BY <1>2, <2>1 DEF IInv, LayoutTyped, EndLoop, MemberOK
  <2>5. UnionPlaced'
    BY <1>2, <1>5, <2>3 DEF IInv, UnionPlaced, EndLoop
  <2>6. Enclosed'
    BY <1>2, <1>3, <1>5, <2>1 DEF IInv, Enclosed, EndLoop
  <2> QED
    BY <1>5, <2>2, <2>4, <2>5, <2>6 DEF IInv, StructPlaced, EndLoop
<1>6. CASE ~union
  <2>1. PICK p \in Nat : p = align_to(bits, align * 8) \div 8 /\ p % align = 0
    BY <1>1, BytesFor
  <2>2. size' = p
    BY <1>6, <2>1 DEF EndLoop
  <2>3. uses > 0 => size' = size
    BY <1>4, <1>6, <2>1, <2>2 DEF IInv, Enclosed, Complete
  <2>4. LayoutTyped'
    BY <1>2, <2>2 DEF IInv, LayoutTyped, EndLoop, MemberOK
  <2>5. StructPlaced'
    BY <1>3, <1>4, <1>6 DEF IInv, StructPlaced, EndLoop, PlacedAt, StartAt, EndBit, FirstBit
  <2>6. Enclosed'
    BY <1>2, <1>3, <1>4, <1>6, <2>1, <2>2 DEF IInv, Enclosed, EndLoop
  <2> QED
    BY <1>6, <2>3, <2>4, <2>5, <2>6 DEF IInv, UnionPlaced, EndLoop
<1> QED
  BY <1>5, <1>6

LEMMA LayoutUnchanged ==
  ASSUME IInv, UNCHANGED layoutVars PROVE IInv'
BY DEF IInv, LayoutTyped, StructPlaced, UnionPlaced, Enclosed, layoutVars, Members, Done, Complete,
       MemberOK, PlacedAt, StartAt, Before, EndBit, FirstBit

LEMMA StepPlaces ==
  ASSUME IInv, [Next]_vars PROVE IInv'
<1>1. CASE struct_members
  BY <1>1, ReadingPlaces
<1>2. CASE struct_union_decl
  BY <1>2, StartingPlaces DEF struct_union_decl, IInv, LayoutTyped
<1>3. CASE use_tag
  <2>1. uses' \in Nat /\ uses' > 0
    BY <1>3 DEF use_tag, IInv, LayoutTyped
  <2> QED
    BY <1>3, <2>1, StartingPlaces DEF use_tag
<1>4. CASE LoopStruct
  BY <1>4, LayingOutStructPlaces
<1>5. CASE LoopUnion
  BY <1>5, LayingOutUnionPlaces
<1>6. CASE EndLoop
  BY <1>6, EndingPlaces
<1>7. CASE UNCHANGED layoutVars
  BY <1>7, LayoutUnchanged
<1> QED
  BY <1>1, <1>2, <1>3, <1>4, <1>5, <1>6, <1>7
     DEF Next, LayoutNext, Define, Initialize, New, Assign, CompoundAssign, vars

LEMMA InvariantHolds == Spec => []IInv
<1>1. Init => IInv
  BY InitiallyPlaced DEF Init
<1> QED
  BY <1>1, StepPlaces, PTL DEF Spec
-----------------------------------------------------------------------------
(* Theorems.                                                               *)

\* No two members of a struct share a bit, whatever bit-fields and members
\* follow one another and however often the tag was used (struct_decl,
\* parse.c:2249).
THEOREM MembersKeepApart == Spec => []MembersDisjoint
<1>1. IInv => MembersDisjoint
  BY DEF IInv, StructPlaced, Done, Complete, MembersDisjoint
<1> QED
  BY <1>1, InvariantHolds, PTL

LEMMA AlignedMembers ==
  ASSUME IInv, stage = "done", NEW k \in Members
  PROVE  LET m == members[k]
         IN /\ align % m.align = 0
            /\ m.offset % (IF m.bitfield THEN m.size ELSE m.align) = 0
            /\ m.offset + m.size <= size
            /\ EndBit(m) <= (m.offset + m.size) * 8
<1> DEFINE m == members[k]
<1>1. /\ m \in Member /\ MemberOK(m) /\ m.size \in Nat \ {0} /\ m.align \in Alignments
      /\ m.align \in Nat \ {0} /\ m.bitfield \in BOOLEAN /\ m.width \in Nat
      /\ m.offset \in Nat /\ m.bit_offset \in Nat
  BY MemberAt, MemberFields DEF IInv
<1>2. /\ Members = 1 .. Len(members) /\ Len(members) \in Nat /\ align \in Alignments
      /\ align \in Nat \ {0} /\ size \in Nat /\ union \in BOOLEAN
  BY MembersAre, AlignmentsTyped DEF IInv, LayoutTyped
<1>3. Complete /\ Done = Members
  BY DEF Complete, Done
<1>4. m.align <= align
  BY <1>3 DEF IInv, Enclosed
<1>5. align % m.align = 0
  BY <1>1, <1>2, <1>4, LayoutAssumption
<1>6. size % align = 0
  BY <1>3 DEF IInv, Enclosed
<1>7. size % m.align = 0
  BY <1>1, <1>2, <1>5, <1>6, MultipleTransitive
<1>8. CASE union
  <2>1. m.offset = 0 /\ m.bit_offset = 0 /\ m.size <= size
    BY <1>3, <1>8 DEF IInv, UnionPlaced
  <2>2. m.offset % (IF m.bitfield THEN m.size ELSE m.align) = 0
    BY <1>1, <2>1
  <2>3. EndBit(m) <= (m.offset + m.size) * 8
    BY <1>1, <2>1 DEF EndBit, FirstBit, MemberOK
  <2> QED
    BY <1>1, <1>2, <1>5, <2>1, <2>2, <2>3
<1>9. CASE ~union
  <2>1. PICK b \in Nat : b = Before(k) /\ PlacedAt(b, m)
    BY <1>2, <1>3, <1>9, BeforeTyped DEF IInv, StructPlaced
  <2>2. PICK e \in Nat : e = Before(Len(members) + 1) /\ EndBit(m) <= e
    <3> DEFINE l == members[Len(members)]
    <3>1. Len(members) \in Members /\ Len(members) + 1 # 1 /\ l \in Member
      BY <1>2, MemberAt DEF IInv
    <3>2. Before(Len(members) + 1) = EndBit(l) /\ EndBit(l) \in Nat
      BY <1>2, <3>1, MemberFields DEF Before
    <3>3. k = Len(members) \/ EndBit(m) <= FirstBit(l)
      BY <1>2, <1>3, <1>9, <3>1 DEF IInv, StructPlaced
    <3>4. EndBit(m) \in Nat /\ FirstBit(l) \in Nat /\ FirstBit(l) <= EndBit(l)
      BY <1>1, <3>1, MemberFields
    <3> QED
      BY <3>2, <3>3, <3>4
  <2>3. e <= size * 8
    <3>1. PICK p \in Nat : p = align_to(e, align * 8) \div 8 /\ e <= p * 8
      BY <1>2, BytesFor
    <3>2. size = p
      BY <1>3, <1>9, <2>2, <3>1 DEF IInv, Enclosed
    <3> QED
      BY <2>2, <3>1, <3>2
  <2>4. CASE m.bitfield
    <3>1. /\ m.align = m.size /\ m.width \in 1 .. m.size * 8
          /\ m.offset % m.size = 0 /\ m.bit_offset + m.width <= m.size * 8
      BY <1>1, <2>1, <2>4, PlacedMember DEF MemberOK
    <3>2. EndBit(m) = m.offset * 8 + m.bit_offset + m.width
      BY <2>4 DEF EndBit, FirstBit
    <3>3. m.offset < size
      <4>1. PICK w \in Nat \ {0} : w = m.width
        BY <1>1, <3>1
      <4>2. PICK o \in Nat : o = m.offset
        BY <1>1
      <4>3. PICK z \in Nat : z = size
        BY <1>2
      <4>4. PICK c \in Nat : c = m.bit_offset
        BY <1>1
      <4>5. EndBit(m) = o * 8 + c + w
        BY <3>2, <4>1, <4>2, <4>4
      <4>6. o * 8 + c + w <= z * 8
        BY <2>2, <2>3, <4>3, <4>5
      <4>7. o < z
        BY <4>6
      <4> QED
        BY <4>2, <4>3, <4>7
    <3>4. m.offset + m.size <= size
      BY <1>1, <1>2, <1>7, <3>1, <3>3, MultiplesApart
    <3> QED
      BY <1>1, <1>5, <2>4, <3>1, <3>2, <3>4
  <2>5. CASE ~m.bitfield
    <3>1. m.offset % m.align = 0
      BY <1>1, <2>1, <2>5, PlacedMember
    <3>2. EndBit(m) = (m.offset + m.size) * 8
      BY <1>1, <2>5 DEF EndBit, FirstBit, MemberOK
    <3>3. m.offset + m.size <= size
      BY <1>1, <1>2, <2>2, <2>3, <3>2
    <3> QED
      BY <1>1, <1>5, <2>5, <3>1, <3>2, <3>3
  <2> QED
    BY <1>1, <2>4, <2>5
<1> QED
  BY <1>2, <1>8, <1>9

\* Every member is aligned in every element of an array of the type, and what
\* is loaded and stored for it, for a bit-field its whole unit, lies inside the
\* object (struct_decl, union_decl, parse.c:2249).
THEOREM ObjectEnclosesMembers == Spec => []MembersAligned
<1>1. ASSUME IInv PROVE MembersAligned
  <2>1. stage = "done" => size % align = 0
    BY <1>1 DEF IInv, Enclosed, Complete
  <2> QED
    BY <1>1, <2>1, AlignedMembers DEF MembersAligned
<1> QED
  BY <1>1, InvariantHolds, PTL

\* Laying the type out anew when its tag is used moves no member and changes
\* neither size nor alignment, under the objects of the type that exist
\* already (parse.c:2216, 2249).
THEOREM TagUsesKeepLayout == Spec => UsesChangeNothing
<1>1. ASSUME IInv, [Next]_vars, uses > 0 PROVE UNCHANGED <<members, align, size>>
  <2>1. CASE struct_members
    BY <1>1, <2>1 DEF struct_members, IInv, LayoutTyped
  <2>2. CASE struct_union_decl
    BY <2>2 DEF struct_union_decl
  <2>3. CASE use_tag
    BY <2>3 DEF use_tag
  <2>4. CASE LoopStruct
    <3>1. /\ place \in Done /\ align \in Nat /\ members[place].align \in Nat
          /\ members[place].align <= align
      BY <1>1, <2>4, MemberAt, MemberFields, AlignmentsTyped
         DEF IInv, LayoutTyped, Enclosed, LoopStruct, Done, Complete
    <3>2. members' = members
      BY <1>1, <2>4, <3>1, LoopRepeats
    <3> QED
      BY <2>4, <3>1, <3>2 DEF LoopStruct, RaiseAlign, Larger
  <2>5. CASE LoopUnion
    <3>1. /\ place \in Done /\ align \in Nat /\ members[place].align \in Nat
          /\ members[place].align <= align
      BY <1>1, <2>5, MemberAt, MemberFields, AlignmentsTyped
         DEF IInv, LayoutTyped, Enclosed, LoopUnion, Done, Complete
    <3>2. size \in Nat /\ members[place].size \in Nat /\ members[place].size <= size
      BY <1>1, <2>5, <3>1, MemberAt, MemberFields
         DEF IInv, LayoutTyped, UnionPlaced, LoopUnion
    <3> QED
      BY <2>5, <3>1, <3>2 DEF LoopUnion, RaiseAlign, Larger
  <2>6. CASE EndLoop
    BY <1>1, <2>6, EndingPlaces DEF EndLoop
  <2>7. CASE UNCHANGED layoutVars
    BY <2>7 DEF layoutVars
  <2> QED
    BY <1>1, <2>1, <2>2, <2>3, <2>4, <2>5, <2>6, <2>7
       DEF Next, LayoutNext, Define, Initialize, New, Assign, CompoundAssign, vars
<1>2. ASSUME IInv, [Next]_vars
      PROVE  [uses > 0 => UNCHANGED <<members, align, size>>]_layoutVars
  BY <1>1, <1>2
<1> QED
  BY <1>2, InvariantHolds, PTL DEF Spec, UsesChangeNothing
-----------------------------------------------------------------------------
(* The bits of registers and of memory.                                    *)

Symbols == Nat \X Nat \X Nat
Bits == Nat \X Symbols

LEMMA BitFields ==
  ASSUME NEW r \in SUBSET Bits
  PROVE  /\ \A b \in r : b[1] \in Nat /\ b[2] \in Symbols /\ b = Bit(b[1], b[2])
         /\ \A i, s : Bit(i, s) \in r => i \in Nat /\ s \in Symbols
  BY DEF Bits, Bit

LEMMA BitIs == \A i, s : Bit(i, s)[1] = i /\ Bit(i, s)[2] = s
  BY DEF Bit

LEMMA ShiftedLeft ==
  ASSUME NEW r \in SUBSET Bits, NEW n \in Nat
  PROVE  /\ sll(r, n) \in SUBSET Bits
         /\ \A i \in Nat : \A s : Bit(i, s) \in sll(r, n) <=> i \in Word /\ Bit(i - n, s) \in r
  <1>1. \A b \in sll(r, n) : \E c \in r : c[1] + n \in Word /\ b = Bit(c[1] + n, c[2])
    BY DEF sll
  <1>2. \A c \in r : c[1] + n \in Word => Bit(c[1] + n, c[2]) \in sll(r, n)
    BY DEF sll
  <1>3. \A b \in sll(r, n) : b \in Bits
    BY <1>1, BitFields DEF Bits, Bit
  <1>4. ASSUME NEW i \in Nat, NEW s, Bit(i, s) \in sll(r, n)
        PROVE  i \in Word /\ Bit(i - n, s) \in r
    <2>1. PICK c \in r : c[1] + n \in Word /\ Bit(i, s) = Bit(c[1] + n, c[2])
      BY <1>1, <1>4
    <2>2. i = c[1] + n /\ s = c[2]
      BY <2>1, BitIs
    <2>3. c[1] \in Nat /\ c = Bit(c[1], c[2])
      BY BitFields
    <2>4. i - n = c[1]
      BY <2>2, <2>3
    <2>. QED BY <2>1, <2>2, <2>3, <2>4
  <1>5. ASSUME NEW i \in Nat, NEW s, i \in Word, Bit(i - n, s) \in r
        PROVE  Bit(i, s) \in sll(r, n)
    <2>1. i - n \in Nat /\ Bit(i - n, s)[1] = i - n /\ Bit(i - n, s)[2] = s
      BY <1>5, BitFields, BitIs
    <2>2. (i - n) + n = i
      OBVIOUS
    <2>. QED BY <1>2, <1>5, <2>1, <2>2
  <1>. QED BY <1>3, <1>4, <1>5

LEMMA ShiftedRight ==
  ASSUME NEW r \in SUBSET Bits, NEW n \in Nat
  PROVE  /\ srl(r, n) \in SUBSET Bits
         /\ \A i \in Nat : \A s : Bit(i, s) \in srl(r, n) <=> i \in Word /\ Bit(i + n, s) \in r
  <1>1. \A b \in srl(r, n) : \E c \in r : c[1] - n \in Word /\ b = Bit(c[1] - n, c[2])
    BY DEF srl
  <1>2. \A c \in r : c[1] - n \in Word => Bit(c[1] - n, c[2]) \in srl(r, n)
    BY DEF srl
  <1>3. \A b \in srl(r, n) : b \in Bits
    <2>1. \A i \in Word : i \in Nat
      BY DEF Word
    <2>. QED BY <1>1, <2>1, BitFields DEF Bits, Bit
  <1>4. ASSUME NEW i \in Nat, NEW s, Bit(i, s) \in srl(r, n)
        PROVE  i \in Word /\ Bit(i + n, s) \in r
    <2>1. PICK c \in r : c[1] - n \in Word /\ Bit(i, s) = Bit(c[1] - n, c[2])
      BY <1>1, <1>4
    <2>2. i = c[1] - n /\ s = c[2]
      BY <2>1, BitIs
    <2>3. c[1] \in Nat /\ c = Bit(c[1], c[2])
      BY BitFields
    <2>4. i + n = c[1]
      BY <2>2, <2>3
    <2>. QED BY <2>1, <2>2, <2>3, <2>4
  <1>5. ASSUME NEW i \in Nat, NEW s, i \in Word, Bit(i + n, s) \in r
        PROVE  Bit(i, s) \in srl(r, n)
    <2>1. Bit(i + n, s)[1] = i + n /\ Bit(i + n, s)[2] = s
      BY BitIs
    <2>2. (i + n) - n = i
      OBVIOUS
    <2>. QED BY <1>2, <1>5, <2>1, <2>2
  <1>. QED BY <1>3, <1>4, <1>5

LEMMA KeptBits ==
  ASSUME NEW r \in SUBSET Bits, NEW S
  PROVE  /\ keep(r, S) \in SUBSET Bits
         /\ \A i, s : Bit(i, s) \in keep(r, S) <=> i \in S /\ Bit(i, s) \in r
  BY BitIs DEF keep

LEMMA OredBits ==
  ASSUME NEW r \in SUBSET Bits, NEW t \in SUBSET Bits
  PROVE  /\ or(r, t) \in SUBSET Bits
         /\ \A i, s : Bit(i, s) \in or(r, t) <=> Bit(i, s) \in r \/ Bit(i, s) \in t
  BY DEF or

\* The bits of a value that a load of member m leaves in the register
LEMMA ExtendedBits ==
  ASSUME NEW r \in SUBSET Bits, NEW m, m.size \in Nat \ {0}
  PROVE  /\ extend(r, m) \in SUBSET Bits
         /\ \A i \in Nat : \A s :
              Bit(i, s) \in extend(r, m)
                <=> \/ i < m.size * 8 /\ Bit(i, s) \in r
                    \/ i \in m.size * 8 .. 63 /\ Bit(m.size * 8 - 1, s) \in r
  <1>. DEFINE n == m.size * 8
              low == {b \in r : b[1] < n}
              sign == {b \in r : b[1] = n - 1}
              high == {Bit(p[1], p[2][2]) : p \in (n .. 63) \X sign}
  <1>1. extend(r, m) = low \cup high
    BY DEF extend
  <1>2. n \in Nat
    OBVIOUS
  <1>. HIDE DEF n
  <1>3. \A i, s : Bit(i, s) \in low <=> i < n /\ Bit(i, s) \in r
    BY BitIs
  <1>4. \A i, s : Bit(i, s) \in sign <=> i = n - 1 /\ Bit(i, s) \in r
    BY BitIs
  <1>5. \A b \in high : \E i \in n .. 63, c \in sign : b = Bit(i, c[2])
    OBVIOUS
  <1>6. \A i \in n .. 63, c \in sign : Bit(i, c[2]) \in high
    <2>. SUFFICES ASSUME NEW i \in n .. 63, NEW c \in sign
                  PROVE  Bit(i, c[2]) \in high
      BY Zenon
    <2>1. <<i, c>> \in (n .. 63) \X sign /\ <<i, c>>[1] = i /\ <<i, c>>[2] = c
      BY Zenon
    <2>. QED BY <2>1, Zenon
  <1>7. ASSUME NEW i \in Nat, NEW s
        PROVE  Bit(i, s) \in high <=> i \in n .. 63 /\ Bit(n - 1, s) \in r
    <2>1. ASSUME Bit(i, s) \in high
          PROVE  i \in n .. 63 /\ Bit(n - 1, s) \in r
      <3>1. PICK j \in n .. 63, c \in sign : Bit(i, s) = Bit(j, c[2])
        BY <1>5, <2>1
      <3>2. i = j /\ s = c[2]
        BY <3>1, BitIs
      <3>3. c \in r /\ c[1] = n - 1 /\ c = Bit(c[1], c[2])
        BY BitFields
      <3>. QED BY <3>2, <3>3
    <2>2. ASSUME i \in n .. 63, Bit(n - 1, s) \in r
          PROVE  Bit(i, s) \in high
      <3>1. Bit(n - 1, s) \in sign /\ Bit(n - 1, s)[2] = s
        BY <1>4, <2>2, BitIs
      <3>. HIDE DEF high, sign
      <3>2. Bit(i, Bit(n - 1, s)[2]) \in high
        BY <1>6, <2>2, <3>1
      <3>. QED BY <3>1, <3>2
    <2>. QED BY <2>1, <2>2
  <1>8. high \in SUBSET Bits
    <2>1. \A c \in sign : c[2] \in Symbols
      BY BitFields
    <2>. HIDE DEF high
    <2>. QED BY <1>2, <1>5, <2>1 DEF Bits, Bit
  <1>9. low \in SUBSET Bits
    OBVIOUS
  <1>. HIDE DEF low, sign, high
  <1>. QED BY <1>1, <1>3, <1>7, <1>8, <1>9 DEF n

\* A set of bits is known by its bits.
LEMMA SameBits ==
  ASSUME NEW r \in SUBSET Bits, NEW t \in SUBSET Bits,
         \A i \in Nat : \A s : Bit(i, s) \in r <=> Bit(i, s) \in t
  PROVE  r = t
  <1>1. \A b \in r : b[1] \in Nat /\ b = Bit(b[1], b[2])
    BY BitFields
  <1>2. \A b \in t : b[1] \in Nat /\ b = Bit(b[1], b[2])
    BY BitFields
  <1>. QED BY <1>1, <1>2
-----------------------------------------------------------------------------
(* What a member's loads and stores do to the bits of the object.          *)

Cell(m) == FirstBit(m) .. EndBit(m) - 1

\* A member as a program may have it that is not miscompiled
Usual(m) ==
  /\ m \in Member /\ MemberOK(m)
  /\ m.bitfield => m.width < 12 /\ m.size <= 8 /\ m.bit_offset + m.width <= m.size * 8

LEMMA UsualFields ==
  ASSUME NEW m, Usual(m)
  PROVE  /\ m.size \in Nat \ {0} /\ m.offset \in Nat /\ m.bit_offset \in Nat /\ m.width \in Nat
         /\ m.bitfield \in BOOLEAN /\ FirstBit(m) = m.offset * 8 + m.bit_offset
         /\ m.bitfield => /\ EndBit(m) = FirstBit(m) + m.width
                          /\ m.width \in 1 .. 11 /\ m.bit_offset + m.width <= m.size * 8
                          /\ m.size * 8 <= 64
         /\ ~ m.bitfield => /\ EndBit(m) = FirstBit(m) + m.size * 8 /\ m.bit_offset = 0
                            /\ FirstBit(m) = m.offset * 8
  <1>1. /\ m.size \in Nat \ {0} /\ m.offset \in Nat /\ m.bit_offset \in Nat /\ m.width \in Nat
        /\ m.bitfield \in BOOLEAN
    BY MemberFields DEF Usual
  <1>. QED BY <1>1 DEF Usual, MemberOK, FirstBit, EndBit

LEMMA LoadedBits ==
  ASSUME NEW mm \in SUBSET Bits, NEW m, m.size \in Nat \ {0}, m.offset \in Nat
  PROVE  /\ load(mm, m) \in SUBSET Bits
         /\ \A i \in Nat : \A s :
              Bit(i, s) \in load(mm, m)
                <=> \/ i < m.size * 8 /\ Bit(i + m.offset * 8, s) \in mm
                    \/ i \in m.size * 8 .. 63 /\ Bit(m.size * 8 - 1 + m.offset * 8, s) \in mm
  <1>. DEFINE o == m.offset * 8
              n == m.size * 8
              r == {Bit(b[1] - o, b[2]) : b \in {c \in mm : c[1] >= o}}
  <1>1. load(mm, m) = extend(r, m)
    BY DEF load
  <1>2. o \in Nat /\ n \in Nat \ {0} /\ n - 1 \in Nat
    OBVIOUS
  <1>. HIDE DEF o, n
  <1>3. \A b \in r : \E c \in mm : c[1] >= o /\ b = Bit(c[1] - o, c[2])
    OBVIOUS
  <1>4. \A c \in mm : c[1] >= o => Bit(c[1] - o, c[2]) \in r
    OBVIOUS
  <1>. HIDE DEF r
  <1>5. r \in SUBSET Bits
    <2>. SUFFICES ASSUME NEW b \in r
                  PROVE  b \in Bits
      OBVIOUS
    <2>1. PICK c \in mm : c[1] >= o /\ b = Bit(c[1] - o, c[2])
      BY <1>3
    <2>2. c[1] - o \in Nat /\ c[2] \in Symbols
      BY <1>2, <2>1, BitFields
    <2>. QED BY <2>1, <2>2 DEF Bits, Bit
  <1>6. ASSUME NEW i \in Nat, NEW s
        PROVE  Bit(i, s) \in r <=> Bit(i + o, s) \in mm
    <2>1. ASSUME Bit(i, s) \in r
          PROVE  Bit(i + o, s) \in mm
      <3>1. PICK c \in mm : c[1] >= o /\ Bit(i, s) = Bit(c[1] - o, c[2])
        BY <1>3, <2>1
      <3>2. i = c[1] - o /\ s = c[2] /\ c[1] \in Nat /\ c = Bit(c[1], c[2])
        BY <3>1, BitIs, BitFields
      <3>3. i + o = c[1]
        BY <1>2, <3>2
      <3>. QED BY <3>2, <3>3
    <2>2. ASSUME Bit(i + o, s) \in mm
          PROVE  Bit(i, s) \in r
      <3>1. Bit(i + o, s)[1] = i + o /\ Bit(i + o, s)[2] = s
        BY BitIs
      <3>2. (i + o) - o = i /\ i + o >= o
        BY <1>2
      <3>. QED BY <1>4, <2>2, <3>1, <3>2
    <2>. QED BY <2>1, <2>2
  <1>7. /\ extend(r, m) \in SUBSET Bits
        /\ \A i \in Nat : \A s :
             Bit(i, s) \in extend(r, m)
               <=> \/ i < n /\ Bit(i, s) \in r
                   \/ i \in n .. 63 /\ Bit(n - 1, s) \in r
    BY <1>5, ExtendedBits DEF n
  <1>8. \A i \in Nat : \A s :
          Bit(i, s) \in load(mm, m)
            <=> \/ i < n /\ Bit(i + o, s) \in mm
                \/ i \in n .. 63 /\ Bit(n - 1 + o, s) \in mm
    BY <1>1, <1>2, <1>6, <1>7
  <1>. QED BY <1>1, <1>7, <1>8 DEF n, o

LEMMA StoredBits ==
  ASSUME NEW mm \in SUBSET Bits, NEW r \in SUBSET Bits,
         NEW m, m.size \in Nat \ {0}, m.offset \in Nat
  PROVE  /\ store(mm, m, r) \in SUBSET Bits
         /\ \A p \in Nat : \A s :
              Bit(p, s) \in store(mm, m, r)
                <=> IF p - m.offset * 8 \in 0 .. m.size * 8 - 1
                    THEN Bit(p - m.offset * 8, s) \in r ELSE Bit(p, s) \in mm
  <1>. DEFINE o == m.offset * 8
              n == m.size * 8
              kept == {b \in mm : b[1] - o \notin 0 .. n - 1}
              put == {Bit(b[1] + o, b[2]) : b \in keep(r, 0 .. n - 1)}
  <1>1. store(mm, m, r) = kept \cup put
    BY DEF store
  <1>2. o \in Nat /\ n \in Nat
    OBVIOUS
  <1>. HIDE DEF o, n
  <1>3. \A p, s : Bit(p, s) \in kept <=> Bit(p, s) \in mm /\ p - o \notin 0 .. n - 1
    BY BitIs
  <1>4. \A b \in put : \E c \in keep(r, 0 .. n - 1) : b = Bit(c[1] + o, c[2])
    OBVIOUS
  <1>5. \A c \in keep(r, 0 .. n - 1) : Bit(c[1] + o, c[2]) \in put
    OBVIOUS
  <1>. HIDE DEF put
  <1>6. \A c \in keep(r, 0 .. n - 1) : c \in r /\ c[1] \in 0 .. n - 1 /\ c = Bit(c[1], c[2])
                                       /\ c[2] \in Symbols
    BY BitFields DEF keep
  <1>7. kept \in SUBSET Bits /\ put \in SUBSET Bits
    <2>1. \A b \in put : b \in Bits
      BY <1>2, <1>4, <1>6 DEF Bits, Bit
    <2>. QED BY <2>1
  <1>8. ASSUME NEW p \in Nat, NEW s
        PROVE  Bit(p, s) \in put <=> p - o \in 0 .. n - 1 /\ Bit(p - o, s) \in r
    <2>1. ASSUME Bit(p, s) \in put
          PROVE  p - o \in 0 .. n - 1 /\ Bit(p - o, s) \in r
      <3>1. PICK c \in keep(r, 0 .. n - 1) : Bit(p, s) = Bit(c[1] + o, c[2])
        BY <1>4, <2>1
      <3>2. p = c[1] + o /\ s = c[2] /\ c \in r /\ c[1] \in 0 .. n - 1 /\ c = Bit(c[1], c[2])
        BY <1>6, <3>1, BitIs
      <3>3. p - o = c[1]
        BY <1>2, <3>2
      <3>. QED BY <3>2, <3>3
    <2>2. ASSUME p - o \in 0 .. n - 1, Bit(p - o, s) \in r
          PROVE  Bit(p, s) \in put
      <3>1. Bit(p - o, s) \in keep(r, 0 .. n - 1)
        BY <2>2, KeptBits
      <3>2. Bit(p - o, s)[1] = p - o /\ Bit(p - o, s)[2] = s
        BY BitIs
      <3>3. (p - o) + o = p
        BY <1>2
      <3>. QED BY <1>5, <3>1, <3>2, <3>3
    <2>. QED BY <2>1, <2>2
  <1>9. \A p \in Nat : \A s :
          Bit(p, s) \in store(mm, m, r)
            <=> IF p - o \in 0 .. n - 1 THEN Bit(p - o, s) \in r ELSE Bit(p, s) \in mm
    BY <1>1, <1>3, <1>8
  <1>. QED BY <1>1, <1>7, <1>9 DEF n, o

LEMMA MergedBits ==
  ASSUME NEW mm \in SUBSET Bits, NEW r \in SUBSET Bits, NEW m, Usual(m), m.bitfield
  PROVE  /\ MergeBitfield(mm, m, r) \in SUBSET Bits
         /\ \A i \in 0 .. m.size * 8 - 1 : \A s :
              Bit(i, s) \in MergeBitfield(mm, m, r)
                <=> IF i \in m.bit_offset .. m.bit_offset + m.width - 1
                    THEN Bit(i - m.bit_offset, s) \in r
                    ELSE Bit(i + m.offset * 8, s) \in mm
  <1>. DEFINE ones == andi_ones(r, m.width)
              field == sll(ones, m.bit_offset)
              S == Word \ (m.bit_offset .. m.bit_offset + m.width - 1)
              rest == keep(load(mm, m), S)
  <1>1. /\ m.size \in Nat \ {0} /\ m.offset \in Nat /\ m.bit_offset \in Nat
        /\ m.width \in 1 .. 11 /\ m.bit_offset + m.width <= m.size * 8
        /\ m.size * 8 <= 64
    BY UsualFields
  <1>2. ones = keep(r, 0 .. m.width - 1)
    BY <1>1 DEF andi_ones
  <1>. HIDE DEF ones
  <1>3. ones \in SUBSET Bits /\ \A i, s : Bit(i, s) \in ones <=> i \in 0 .. m.width - 1 /\ Bit(i, s) \in r
    <2>. DEFINE T == 0 .. m.width - 1
    <2>. HIDE DEF T
    <2>1. keep(r, T) \in SUBSET Bits /\ \A i, s : Bit(i, s) \in keep(r, T) <=> i \in T /\ Bit(i, s) \in r
      BY KeptBits
    <2>. QED BY <1>2, <2>1 DEF T
  <1>4. /\ field \in SUBSET Bits
        /\ \A i \in Nat : \A s : Bit(i, s) \in field <=> i \in Word /\ Bit(i - m.bit_offset, s) \in ones
    BY <1>1, <1>3, ShiftedLeft
  <1>5. /\ load(mm, m) \in SUBSET Bits
        /\ \A i \in 0 .. m.size * 8 - 1 : \A s :
             Bit(i, s) \in load(mm, m) <=> Bit(i + m.offset * 8, s) \in mm
    BY <1>1, LoadedBits
  <1>6. rest \in SUBSET Bits /\ \A i, s : Bit(i, s) \in rest <=> i \in S /\ Bit(i, s) \in load(mm, m)
    BY <1>5, KeptBits
  <1>7. MergeBitfield(mm, m, r) = or(field, rest)
    BY DEF MergeBitfield, ones
  <1>. HIDE DEF field, rest
  <1>8. /\ MergeBitfield(mm, m, r) \in SUBSET Bits
        /\ \A i, s : Bit(i, s) \in MergeBitfield(mm, m, r) <=> Bit(i, s) \in field \/ Bit(i, s) \in rest
    BY <1>4, <1>6, <1>7, OredBits
  <1>9. ASSUME NEW i \in 0 .. m.size * 8 - 1, NEW s
        PROVE  Bit(i, s) \in MergeBitfield(mm, m, r)
                <=> IF i \in m.bit_offset .. m.bit_offset + m.width - 1
                    THEN Bit(i - m.bit_offset, s) \in r
                    ELSE Bit(i + m.offset * 8, s) \in mm
    <2>1. i \in Nat /\ i \in Word
      BY <1>1 DEF Word
    <2>2. Bit(i, s) \in field <=> i - m.bit_offset \in 0 .. m.width - 1 /\ Bit(i - m.bit_offset, s) \in r
      BY <1>3, <1>4, <2>1
    <2>3. i - m.bit_offset \in 0 .. m.width - 1 <=> i \in m.bit_offset .. m.bit_offset + m.width - 1
      BY <1>1, <2>1
    <2>4. i \in S <=> i \notin m.bit_offset .. m.bit_offset + m.width - 1
      BY <2>1
    <2>5. Bit(i, s) \in rest <=> i \in S /\ Bit(i + m.offset * 8, s) \in mm
      BY <1>5, <1>6
    <2>. HIDE DEF S
    <2>. QED BY <1>8, <2>2, <2>3, <2>4, <2>5
  <1>. QED BY <1>8, <1>9

\* An assignment writes the member's bits and no others.
LEMMA AssignedBits ==
  ASSUME NEW mm \in SUBSET Bits, NEW r \in SUBSET Bits, NEW m, Usual(m)
  PROVE  /\ AssignMember(mm, m, r) \in SUBSET Bits
         /\ \A p \in Nat : \A s :
              Bit(p, s) \in AssignMember(mm, m, r)
                <=> IF p \in Cell(m) THEN Bit(p - FirstBit(m), s) \in r ELSE Bit(p, s) \in mm
  <1>1. /\ m.size \in Nat \ {0} /\ m.offset \in Nat /\ m.bit_offset \in Nat /\ m.width \in Nat
        /\ m.bitfield \in BOOLEAN /\ FirstBit(m) = m.offset * 8 + m.bit_offset
    BY UsualFields
  <1>2. CASE ~ m.bitfield
    <2>1. AssignMember(mm, m, r) = store(mm, m, r)
      BY <1>2 DEF AssignMember
    <2>2. EndBit(m) = FirstBit(m) + m.size * 8 /\ FirstBit(m) = m.offset * 8
      BY <1>2, UsualFields
    <2>3. \A p \in Nat : p \in Cell(m) <=> p - m.offset * 8 \in 0 .. m.size * 8 - 1
      BY <1>1, <2>2 DEF Cell
    <2>. QED BY <1>1, <2>1, <2>2, <2>3, StoredBits
  <1>3. CASE m.bitfield
    <2>. DEFINE t == MergeBitfield(mm, m, r)
    <2>1. AssignMember(mm, m, r) = store(mm, m, t)
      BY <1>3 DEF AssignMember
    <2>2. /\ EndBit(m) = FirstBit(m) + m.width /\ m.width \in 1 .. 11
          /\ m.bit_offset + m.width <= m.size * 8
      BY <1>3, UsualFields
    <2>3. /\ t \in SUBSET Bits
          /\ \A i \in 0 .. m.size * 8 - 1 : \A s :
               Bit(i, s) \in t <=> IF i \in m.bit_offset .. m.bit_offset + m.width - 1
                                   THEN Bit(i - m.bit_offset, s) \in r
                                   ELSE Bit(i + m.offset * 8, s) \in mm
      BY <1>3, MergedBits
    <2>. HIDE DEF t
    <2>4. /\ store(mm, m, t) \in SUBSET Bits
          /\ \A p \in Nat : \A s :
               Bit(p, s) \in store(mm, m, t)
                 <=> IF p - m.offset * 8 \in 0 .. m.size * 8 - 1
                     THEN Bit(p - m.offset * 8, s) \in t ELSE Bit(p, s) \in mm
      BY <1>1, <2>3, StoredBits
    <2>5. ASSUME NEW p \in Nat, NEW s
          PROVE  Bit(p, s) \in store(mm, m, t)
                  <=> IF p \in Cell(m) THEN Bit(p - FirstBit(m), s) \in r ELSE Bit(p, s) \in mm
      <3>. DEFINE i == p - m.offset * 8
      <3>1. i + m.offset * 8 = p /\ i - m.bit_offset = p - FirstBit(m) /\ i \in Int
        BY <1>1
      <3>2. p \in Cell(m) <=> i \in m.bit_offset .. m.bit_offset + m.width - 1
        BY <1>1, <2>2 DEF Cell
      <3>3. i \in m.bit_offset .. m.bit_offset + m.width - 1 => i \in 0 .. m.size * 8 - 1
        BY <1>1, <2>2, <3>1
      <3>4. Bit(p, s) \in store(mm, m, t)
              <=> IF i \in 0 .. m.size * 8 - 1 THEN Bit(i, s) \in t ELSE Bit(p, s) \in mm
        BY <2>4
      <3>. HIDE DEF i
      <3>. QED BY <2>3, <3>1, <3>2, <3>3, <3>4
    <2>. QED BY <2>1, <2>4, <2>5
  <1>. QED BY <1>1, <1>2, <1>3

\* The bits of the member are read, and for a type with a sign it fills the
\* register.
LEMMA ReadBits ==
  ASSUME NEW mm \in SUBSET Bits, NEW m, Usual(m)
  PROVE  /\ ReadMember(mm, m) \in SUBSET Bits
         /\ \A i \in Nat : \A s :
              Bit(i, s) \in ReadMember(mm, m)
                <=> IF m.bitfield THEN i < m.width /\ Bit(i + FirstBit(m), s) \in mm
                    ELSE \/ i < m.size * 8 /\ Bit(i + FirstBit(m), s) \in mm
                         \/ i \in m.size * 8 .. 63 /\ Bit(m.size * 8 - 1 + FirstBit(m), s) \in mm
  <1>1. /\ m.size \in Nat \ {0} /\ m.offset \in Nat /\ m.bit_offset \in Nat /\ m.width \in Nat
        /\ m.bitfield \in BOOLEAN /\ FirstBit(m) = m.offset * 8 + m.bit_offset
    BY UsualFields
  <1>2. /\ load(mm, m) \in SUBSET Bits
        /\ \A i \in Nat : \A s :
             Bit(i, s) \in load(mm, m)
               <=> \/ i < m.size * 8 /\ Bit(i + m.offset * 8, s) \in mm
                   \/ i \in m.size * 8 .. 63 /\ Bit(m.size * 8 - 1 + m.offset * 8, s) \in mm
    BY <1>1, LoadedBits
  <1>3. CASE ~ m.bitfield
    <2>1. ReadMember(mm, m) = load(mm, m) /\ FirstBit(m) = m.offset * 8
      BY <1>3, UsualFields DEF ReadMember
    <2>. QED BY <1>2, <1>3, <2>1
  <1>4. CASE m.bitfield
    <2>. DEFINE a == 64 - m.width - m.bit_offset
                c == 64 - m.width
                up == sll(load(mm, m), a)
    <2>1. /\ m.width \in 1 .. 11 /\ m.bit_offset + m.width <= m.size * 8 /\ m.size * 8 <= 64
      BY <1>4, UsualFields
    <2>2. a \in Nat /\ c \in Nat /\ c = a + m.bit_offset /\ c + m.width = 64
      BY <1>1, <2>1
    <2>3. ReadMember(mm, m) = srl(up, c)
      BY <1>4 DEF ReadMember
    <2>. HIDE DEF a, c
    <2>4. /\ up \in SUBSET Bits
          /\ \A i \in Nat : \A s : Bit(i, s) \in up <=> i \in Word /\ Bit(i - a, s) \in load(mm, m)
      BY <1>2, <2>2, ShiftedLeft
    <2>. HIDE DEF up
    <2>5. /\ srl(up, c) \in SUBSET Bits
          /\ \A i \in Nat : \A s : Bit(i, s) \in srl(up, c) <=> i \in Word /\ Bit(i + c, s) \in up
      BY <2>2, <2>4, ShiftedRight
    <2>6. ASSUME NEW i \in Nat, NEW s
          PROVE  Bit(i, s) \in srl(up, c) <=> i < m.width /\ Bit(i + FirstBit(m), s) \in mm
      <3>1. i + c \in Nat /\ (i + c) - a = i + m.bit_offset
        BY <1>1, <2>2
      <3>2. Bit(i, s) \in srl(up, c)
              <=> i \in Word /\ i + c \in Word /\ Bit(i + m.bit_offset, s) \in load(mm, m)
        BY <2>4, <2>5, <3>1
      <3>3. (i \in Word /\ i + c \in Word) <=> i < m.width
        BY <1>1, <2>1, <2>2 DEF Word
      <3>4. ASSUME i < m.width
            PROVE  Bit(i + m.bit_offset, s) \in load(mm, m) <=> Bit(i + FirstBit(m), s) \in mm
        <4>1. i + m.bit_offset \in Nat /\ i + m.bit_offset < m.size * 8
              /\ (i + m.bit_offset) + m.offset * 8 = i + FirstBit(m)
          BY <1>1, <2>1, <3>4
        <4>2. ~ (i + m.bit_offset \in m.size * 8 .. 63)
          BY <1>1, <4>1
        <4>. QED BY <1>2, <4>1, <4>2
      <3>. QED BY <3>2, <3>3, <3>4
    <2>. QED BY <1>4, <2>3, <2>5, <2>6
  <1>. QED BY <1>1, <1>3, <1>4
-----------------------------------------------------------------------------
(* The values of the members.                                              *)

\* What bit i of member k is when the member's value is v
SymbolsOf(k, v, i) == IF v = Unknown THEN {Unset} ELSE IF v = 0 THEN {} ELSE {<<k, v, i>>}

Contents(mm, k, v) ==
  \A p \in Cell(members[k]) : \A s :
    Bit(p, s) \in mm <=> s \in SymbolsOf(k, v, p - FirstBit(members[k]))

LEMMA VersionsTyped == /\ Unknown \notin Versions /\ 0 \in Versions
                       /\ \A v \in Versions : v \in Nat
  BY ObjectAssumption DEF Unknown

LEMMA ValueBits ==
  ASSUME NEW k \in Nat, Usual(members[k]), NEW v \in Versions
  PROVE  /\ Value(k, v) \in SUBSET Bits
         /\ \A i \in Nat : \A s :
              i < members[k].size * 8 \/ i < 64
                => (Bit(i, s) \in Value(k, v) <=> s \in SymbolsOf(k, v, i))
  <1>1. members[k].size \in Nat /\ members[k].size * 8 \in Nat
    BY UsualFields
  <1>2. v # Unknown /\ v \in Nat
    BY VersionsTyped
  <1>3. CASE v = 0
    <2>1. Value(k, v) = {} /\ \A i : SymbolsOf(k, v, i) = {}
      BY <1>2, <1>3 DEF Value, SymbolsOf
    <2>. QED BY <2>1
  <1>4. CASE v # 0
    <2>. DEFINE n == Larger(64, members[k].size * 8)
    <2>1. Value(k, v) = {Bit(i, <<k, v, i>>) : i \in 0 .. n - 1}
      BY <1>4 DEF Value
    <2>2. n \in Nat /\ 64 <= n /\ members[k].size * 8 <= n
      BY <1>1 DEF Larger
    <2>. HIDE DEF n
    <2>3. \A i : SymbolsOf(k, v, i) = {<<k, v, i>>}
      BY <1>2, <1>4 DEF SymbolsOf
    <2>4. \A b \in Value(k, v) : \E i \in 0 .. n - 1 : b = Bit(i, <<k, v, i>>)
      BY <2>1
    <2>5. \A i \in 0 .. n - 1 : Bit(i, <<k, v, i>>) \in Value(k, v)
      BY <2>1
    <2>6. \A b \in Value(k, v) : b \in Bits
      BY <1>2, <2>2, <2>4 DEF Bits, Bit, Symbols
    <2>7. ASSUME NEW i \in Nat, NEW s, Bit(i, s) \in Value(k, v)
          PROVE  s = <<k, v, i>>
      <3>1. PICK j \in 0 .. n - 1 : Bit(i, s) = Bit(j, <<k, v, j>>)
        BY <2>4, <2>7
      <3>2. i = j /\ s = <<k, v, j>>
        BY <3>1, BitIs
      <3>. QED BY <3>2
    <2>8. \A i \in Nat : i < members[k].size * 8 \/ i < 64 => i \in 0 .. n - 1
      BY <1>1, <2>2
    <2>. QED BY <2>3, <2>5, <2>6, <2>7, <2>8
  <1>. QED BY <1>3, <1>4

\* What the bits of a member's value are, as the register has them
LEMMA ReadingBits ==
  ASSUME NEW k \in Nat, Usual(members[k]), NEW v \in Versions
  PROVE  /\ Reading(k, v) \in SUBSET Bits
         /\ \A i \in Nat : \A s :
              Bit(i, s) \in Reading(k, v)
                <=> IF members[k].bitfield THEN i < members[k].width /\ s \in SymbolsOf(k, v, i)
                    ELSE \/ i < members[k].size * 8 /\ s \in SymbolsOf(k, v, i)
                         \/ /\ i \in members[k].size * 8 .. 63
                            /\ s \in SymbolsOf(k, v, members[k].size * 8 - 1)
  <1>. DEFINE m == members[k]
              r == Value(k, v)
  <1>1. /\ m.size \in Nat \ {0} /\ m.width \in Nat /\ m.bitfield \in BOOLEAN
        /\ m.bitfield => m.width \in 1 .. 11
    BY UsualFields
  <1>2. /\ r \in SUBSET Bits
        /\ \A i \in Nat : \A s :
             i < m.size * 8 \/ i < 64 => (Bit(i, s) \in r <=> s \in SymbolsOf(k, v, i))
    BY ValueBits
  <1>3. Reading(k, v) = IF m.bitfield THEN keep(r, 0 .. m.width - 1) ELSE extend(r, m)
    BY DEF Reading
  <1>. HIDE DEF m, r
  <1>4. CASE m.bitfield
    <2>. DEFINE T == 0 .. m.width - 1
    <2>1. Reading(k, v) = keep(r, T) /\ \A i \in Nat : i \in T <=> i < m.width
      BY <1>1, <1>3, <1>4
    <2>2. \A i \in Nat : i < m.width => i < 64
      BY <1>1, <1>4
    <2>. HIDE DEF T
    <2>3. /\ keep(r, T) \in SUBSET Bits
          /\ \A i, s : Bit(i, s) \in keep(r, T) <=> i \in T /\ Bit(i, s) \in r
      BY <1>2, KeptBits
    <2>4. \A i \in Nat : \A s : Bit(i, s) \in Reading(k, v) <=> i < m.width /\ s \in SymbolsOf(k, v, i)
      BY <1>2, <2>1, <2>2, <2>3
    <2>. QED BY <1>4, <2>1, <2>3, <2>4 DEF m
  <1>5. CASE ~ m.bitfield
    <2>1. PICK n \in Nat : n = m.size * 8 /\ n - 1 \in Nat /\ n - 1 < n
      BY <1>1
    <2>2. /\ extend(r, m) \in SUBSET Bits
          /\ \A i \in Nat : \A s :
               Bit(i, s) \in extend(r, m)
                 <=> \/ i < m.size * 8 /\ Bit(i, s) \in r
                     \/ i \in m.size * 8 .. 63 /\ Bit(m.size * 8 - 1, s) \in r
      BY <1>1, <1>2, ExtendedBits
    <2>3. ASSUME NEW i \in Nat, NEW s
          PROVE  Bit(i, s) \in extend(r, m)
                   <=> \/ i < m.size * 8 /\ s \in SymbolsOf(k, v, i)
                       \/ i \in m.size * 8 .. 63 /\ s \in SymbolsOf(k, v, m.size * 8 - 1)
      <3>1. i < m.size * 8 => (Bit(i, s) \in r <=> s \in SymbolsOf(k, v, i))
        BY <1>2
      <3>2. Bit(m.size * 8 - 1, s) \in r <=> s \in SymbolsOf(k, v, m.size * 8 - 1)
        <4>1. n - 1 < m.size * 8
          BY <2>1
        <4>2. Bit(n - 1, s) \in r <=> s \in SymbolsOf(k, v, n - 1)
          BY <1>2, <2>1, <4>1
        <4>. QED BY <2>1, <4>2
      <3>. QED BY <2>2, <3>1, <3>2
    <2>4. Reading(k, v) = extend(r, m)
      BY <1>3, <1>5
    <2>. QED BY <1>5, <2>2, <2>3, <2>4 DEF m
  <1>. QED BY <1>4, <1>5

\* An assignment leaves the value in the member's bits, and what other bits hold
\* as it is.
LEMMA AssignedContents ==
  ASSUME NEW mm \in SUBSET Bits, NEW k \in Nat, Usual(members[k]), NEW v \in Versions,
         NEW t, t = AssignMember(mm, members[k], Value(k, v))
  PROVE  /\ t \in SUBSET Bits /\ Contents(t, k, v)
         /\ \A j, w : Cell(members[j]) \cap Cell(members[k]) = {} /\ Cell(members[j]) \subseteq Nat
                      /\ Contents(mm, j, w)
                        => Contents(t, j, w)
  <1>. DEFINE m == members[k]
              r == Value(k, v)
  <1>1. /\ r \in SUBSET Bits
        /\ \A i \in Nat : \A s :
             i < m.size * 8 \/ i < 64 => (Bit(i, s) \in r <=> s \in SymbolsOf(k, v, i))
    BY ValueBits
  <1>2. /\ m.size \in Nat \ {0} /\ m.width \in Nat /\ m.bitfield \in BOOLEAN
        /\ m.offset \in Nat /\ m.bit_offset \in Nat /\ FirstBit(m) = m.offset * 8 + m.bit_offset
        /\ m.bitfield => m.width \in 1 .. 11 /\ EndBit(m) = FirstBit(m) + m.width
        /\ ~ m.bitfield => EndBit(m) = FirstBit(m) + m.size * 8
    BY UsualFields
  <1>. HIDE DEF r
  <1>3. /\ t \in SUBSET Bits
        /\ \A p \in Nat : \A s :
             Bit(p, s) \in t <=> IF p \in Cell(m) THEN Bit(p - FirstBit(m), s) \in r ELSE Bit(p, s) \in mm
    BY <1>1, AssignedBits DEF r
  <1>4. \A p \in Cell(m) : /\ p \in Nat /\ p - FirstBit(m) \in Nat
                           /\ p - FirstBit(m) < m.size * 8 \/ p - FirstBit(m) < 64
    BY <1>2 DEF Cell
  <1>5. Contents(t, k, v)
    BY <1>1, <1>3, <1>4 DEF Contents
  <1>6. ASSUME NEW j, NEW w, Cell(members[j]) \cap Cell(m) = {}, Cell(members[j]) \subseteq Nat,
               Contents(mm, j, w)
        PROVE  Contents(t, j, w)
    <2>1. \A p \in Cell(members[j]) : p \in Nat /\ p \notin Cell(m)
      BY <1>6
    <2>. QED BY <1>3, <1>6, <2>1 DEF Contents
  <1>. QED BY <1>3, <1>5, <1>6

LEMMA StoredPlainly ==
  ASSUME NEW mm, NEW m, NEW r, ~ m.bitfield
  PROVE  store(mm, m, r) = AssignMember(mm, m, r)
  BY DEF AssignMember

\* A member reads as its value.
LEMMA ContentsRead ==
  ASSUME NEW mm \in SUBSET Bits, NEW k \in Nat, Usual(members[k]), NEW v \in Versions,
         Contents(mm, k, v)
  PROVE  ReadMember(mm, members[k]) = Reading(k, v)
  <1>. DEFINE m == members[k]
              b == FirstBit(m)
              rd == ReadMember(mm, m)
              val == Reading(k, v)
  <1>1. /\ m.size \in Nat \ {0} /\ m.width \in Nat /\ m.bitfield \in BOOLEAN
        /\ m.offset \in Nat /\ m.bit_offset \in Nat /\ b = m.offset * 8 + m.bit_offset
        /\ m.bitfield => m.width \in 1 .. 11 /\ EndBit(m) = b + m.width
        /\ ~ m.bitfield => EndBit(m) = b + m.size * 8
    BY UsualFields
  <1>2. /\ rd \in SUBSET Bits
        /\ \A i \in Nat : \A s :
             Bit(i, s) \in rd
               <=> IF m.bitfield THEN i < m.width /\ Bit(i + b, s) \in mm
                   ELSE \/ i < m.size * 8 /\ Bit(i + b, s) \in mm
                        \/ i \in m.size * 8 .. 63 /\ Bit(m.size * 8 - 1 + b, s) \in mm
    BY ReadBits
  <1>3. /\ val \in SUBSET Bits
        /\ \A i \in Nat : \A s :
             Bit(i, s) \in val
               <=> IF m.bitfield THEN i < m.width /\ s \in SymbolsOf(k, v, i)
                   ELSE \/ i < m.size * 8 /\ s \in SymbolsOf(k, v, i)
                        \/ i \in m.size * 8 .. 63 /\ s \in SymbolsOf(k, v, m.size * 8 - 1)
    BY ReadingBits
  <1>4. \A i \in Nat : (IF m.bitfield THEN i < m.width ELSE i < m.size * 8)
                         => i + b \in Cell(m) /\ (i + b) - b = i
    BY <1>1 DEF Cell
  <1>5. m.size * 8 - 1 \in Nat /\ m.size * 8 - 1 < m.size * 8
    BY <1>1
  <1>6. \A p \in Cell(m) : \A s : Bit(p, s) \in mm <=> s \in SymbolsOf(k, v, p - b)
    BY DEF Contents
  <1>. HIDE DEF m, b, rd, val
  <1>7. \A i \in Nat : \A s : Bit(i, s) \in rd <=> Bit(i, s) \in val
    <2>1. CASE m.bitfield
      BY <1>2, <1>3, <1>4, <1>6, <2>1
    <2>2. CASE ~ m.bitfield
      BY <1>2, <1>3, <1>4, <1>5, <1>6, <2>2
    <2>. QED BY <2>1, <2>2
  <1>8. rd = val
    BY <1>2, <1>3, <1>7, SameBits
  <1>. QED BY <1>8 DEF rd, val, m
-----------------------------------------------------------------------------
(* The invariant of the object.                                            *)

\* A bit-field has an integer type.
UnitsFit == \A k \in Members : members[k].bitfield => members[k].size <= 8

ObjectOK ==
  /\ memory \in SUBSET Bits /\ defined \in BOOLEAN
  /\ defined =>
       /\ Complete /\ Len(members) <= MaxFields
       /\ \A k \in Members : Usual(members[k])
       /\ last \in [Members -> Versions \cup {Unknown}]
       /\ \A k \in Members : (last[k] = Unknown /\ union) \/ Contents(memory, k, last[k])

LEMMA UnitsKept ==
  ASSUME IInv, UnitsFit, [Next]_vars
  PROVE  UnitsFit'
  <1>1. CASE UNCHANGED members
    BY <1>1 DEF UnitsFit, Members
  <1>2. CASE struct_members
    <2>1. PICK t \in Types :
            \/ members' = Append(members, NewMember(t, t.align))
            \/ \E al \in Alignas : al >= t.align /\ members' = Append(members, NewMember(t, al))
            \/ \E w \in Widths : /\ t.integer /\ w <= t.size * 8
                                 /\ members' = Append(members, NewBitfield(t, w))
      BY <1>2 DEF struct_members
    <2>2. PICK m : members' = Append(members, m) /\ (m.bitfield => m.size <= 8)
      <3>1. \A al : NewMember(t, al).bitfield = FALSE /\ NewMember(t, al).size = t.size
        BY DEF NewMember
      <3>2. \A w : NewBitfield(t, w).size = t.size
        BY DEF NewBitfield, NewMember
      <3>3. t.integer => t.size <= 8
        BY ObjectAssumption
      <3>. QED BY <2>1, <3>1, <3>2, <3>3
    <2>3. members \in Seq(Member)
      BY DEF IInv, LayoutTyped
    <2>4. \A k \in DOMAIN members' : members'[k] = m \/ (k \in DOMAIN members /\ members'[k] = members[k])
      BY <2>2, <2>3
    <2>. QED BY <2>2, <2>4 DEF UnitsFit, Members
  <1>3. CASE LoopStruct
    <2>1. /\ members \in Seq(Member) /\ members' \in Seq(Member) /\ Len(members') = Len(members)
          /\ \A k \in Members : k # place => members'[k] = members[k]
          /\ members'[place].size = members[place].size
          /\ members'[place].bitfield = members[place].bitfield
      BY <1>3, LoopPlaces DEF IInv, LayoutTyped
    <2>2. DOMAIN members' = DOMAIN members
      BY <2>1
    <2>. QED BY <2>1, <2>2 DEF UnitsFit, Members
  <1>. QED BY <1>1, <1>2, <1>3
         DEF Next, LayoutNext, Define, Initialize, New, Assign, CompoundAssign, vars, layoutVars,
             struct_union_decl, use_tag, LoopUnion, EndLoop

\* Laid out once, the type stays as it is.
LEMMA LayoutStays ==
  ASSUME IInv, [Next]_vars, Complete
  PROVE  UNCHANGED <<members, union>> /\ Complete'
  <1>1. uses \in Nat /\ (stage = "members" => uses = 0)
    BY DEF IInv, LayoutTyped
  <1>2. CASE use_tag
    BY <1>1, <1>2 DEF use_tag, Complete, StartLoop
  <1>3. CASE LoopStruct
    <2>1. place \in Done
      BY <1>3 DEF LoopStruct, Done
    <2>2. members' = members
      BY <1>3, <2>1, LoopRepeats
    <2>. QED BY <1>3, <2>2 DEF LoopStruct, Complete
  <1>4. CASE LoopUnion
    BY <1>4 DEF LoopUnion, Complete
  <1>5. CASE EndLoop
    BY <1>5 DEF EndLoop, Complete
  <1>6. CASE UNCHANGED layoutVars
    BY <1>6 DEF layoutVars, Complete
  <1>7. ~ struct_members /\ ~ struct_union_decl
    BY <1>1 DEF struct_members, struct_union_decl, Complete
  <1>. QED BY <1>2, <1>3, <1>4, <1>5, <1>6, <1>7
         DEF Next, LayoutNext, Define, Initialize, New, Assign, CompoundAssign, vars

LEMMA ObjectStays ==
  ASSUME IInv, ObjectOK, [Next]_vars, UNCHANGED objectVars
  PROVE  ObjectOK'
  <1>1. UNCHANGED <<memory, defined, last>>
    BY DEF objectVars
  <1>2. CASE ~ defined
    BY <1>1, <1>2 DEF ObjectOK
  <1>3. CASE defined
    <2>1. UNCHANGED <<members, union>> /\ Complete'
      BY <1>3, LayoutStays DEF ObjectOK
    <2>2. \A k \in Members : Contents(memory, k, last[k])' <=> Contents(memory, k, last[k])
      BY <1>1, <2>1 DEF Contents
    <2>3. Members' = Members
      BY <2>1 DEF Members
    <2>. QED BY <1>1, <1>3, <2>1, <2>2, <2>3 DEF ObjectOK
  <1>. QED BY <1>2, <1>3 DEF ObjectOK

\* The type of a new object
LEMMA NewObject ==
  ASSUME IInv, UnitsFit, Programs = {}, New
  PROVE  /\ \A k \in Members : Usual(members[k])
         /\ Complete /\ Len(members) <= MaxFields /\ stage = "done" /\ defined' = TRUE
         /\ UNCHANGED layoutVars
  <1>1. /\ stage = "done" /\ Complete /\ Len(members) <= MaxFields /\ defined' = TRUE
        /\ UNCHANGED layoutVars /\ \A k \in Members : ~ (members[k].width >= 12)
    BY DEF New, Complete
  <1>2. ASSUME NEW k \in Members
        PROVE  Usual(members[k])
    <2>. DEFINE m == members[k]
    <2>1. m \in Member /\ MemberOK(m) /\ m.width \in Nat /\ m.size \in Nat \ {0} /\ m.bitfield \in BOOLEAN
      BY MemberAt, MemberFields DEF IInv
    <2>2. m.width < 12 /\ (m.bitfield => m.size <= 8)
      BY <1>1, <2>1 DEF UnitsFit
    <2>3. m.bitfield => m.bit_offset + m.width <= m.size * 8
      <3>1. CASE union
        <4>1. m.bit_offset = 0
          BY <3>1 DEF IInv, UnionPlaced
        <4>. QED BY <2>1, <4>1 DEF MemberOK
      <3>2. CASE ~ union
        <4>1. k \in 1 .. Len(members) + 1 /\ k \in Done
          BY <1>1, MembersAre DEF IInv, Done
        <4>2. PICK b \in Nat : b = Before(k) /\ PlacedAt(b, m)
          BY <3>2, <4>1, BeforeTyped DEF IInv, StructPlaced
        <4>. QED BY <2>1, <4>2, PlacedMember
      <3>. QED BY <3>1, <3>2 DEF IInv, LayoutTyped
    <2>. QED BY <2>1, <2>2, <2>3 DEF Usual
  <1>. QED BY <1>1, <1>2

\* The bits of a member lie in the object, and not in another member.
LEMMA CellsOf ==
  ASSUME IInv, stage = "done"
  PROVE  /\ \A k \in Members : Cell(members[k]) \subseteq 0 .. size * 8 - 1
         /\ ~ union => \A i, j \in Members : i # j => Cell(members[i]) \cap Cell(members[j]) = {}
  <1>1. \A k \in Members : /\ FirstBit(members[k]) \in Nat /\ EndBit(members[k]) \in Nat
                           /\ members[k].offset \in Nat /\ members[k].size \in Nat
    BY MemberAt, MemberFields DEF IInv
  <1>2. size \in Nat /\ Members = 1 .. Len(members)
    BY MembersAre DEF IInv, LayoutTyped
  <1>3. ASSUME NEW k \in Members
        PROVE  Cell(members[k]) \subseteq 0 .. size * 8 - 1
    <2>1. PICK o, n, e \in Nat : o = members[k].offset /\ n = members[k].size /\ e = EndBit(members[k])
      BY <1>1
    <2>2. o + n <= size /\ e <= (o + n) * 8
      BY <2>1, AlignedMembers
    <2>3. e <= size * 8
      BY <1>2, <2>2
    <2>. QED BY <1>1, <1>2, <2>1, <2>3 DEF Cell
  <1>4. ASSUME ~ union, NEW i \in Members, NEW j \in Members, i # j
        PROVE  Cell(members[i]) \cap Cell(members[j]) = {}
    <2>1. \A a, b \in Members : a < b => EndBit(members[a]) <= FirstBit(members[b])
      BY <1>4 DEF IInv, StructPlaced, Done, Complete
    <2>2. i < j \/ j < i
      BY <1>2, <1>4
    <2>. QED BY <1>1, <2>1, <2>2 DEF Cell
  <1>. QED BY <1>3, <1>4

LEMMA CellsInNat ==
  ASSUME IInv, stage = "done"
  PROVE  \A k \in Members : Cell(members[k]) \subseteq Nat
  <1>1. \A k \in Members : Cell(members[k]) \subseteq 0 .. size * 8 - 1
    BY CellsOf
  <1>2. 0 .. size * 8 - 1 \subseteq Nat
    OBVIOUS
  <1>. QED BY <1>1, <1>2

\* A variable without an initializer
LEMMA Undetermined ==
  ASSUME NEW k, Cell(members[k]) \subseteq 0 .. size * 8 - 1, size \in Nat
  PROVE  Filled(Unset) \in SUBSET Bits /\ Contents(Filled(Unset), k, Unknown)
  <1>1. Unset \in Symbols
    BY DEF Unset, Symbols
  <1>2. \A b \in Filled(Unset) : \E i \in 0 .. size * 8 - 1 : b = Bit(i, Unset)
    BY DEF Filled
  <1>3. \A i \in 0 .. size * 8 - 1 : Bit(i, Unset) \in Filled(Unset)
    BY DEF Filled
  <1>4. \A b \in Filled(Unset) : b \in Bits
    BY <1>1, <1>2 DEF Bits, Bit
  <1>5. \A p, s : Bit(p, s) \in Filled(Unset) => s = Unset
    BY <1>2, BitIs
  <1>6. \A i : SymbolsOf(k, Unknown, i) = {Unset}
    BY DEF SymbolsOf
  <1>. QED BY <1>3, <1>4, <1>5, <1>6 DEF Contents

LEMMA ObjectDefined ==
  ASSUME IInv, UnitsFit, Programs = {}, Define
  PROVE  ObjectOK'
  <1>1. /\ \A k \in Members : Usual(members[k])
        /\ Complete /\ Len(members) <= MaxFields /\ stage = "done" /\ defined' = TRUE
        /\ UNCHANGED layoutVars /\ memory' = Filled(Unset) /\ last' = NoMembers
    BY NewObject DEF Define
  <1>2. size \in Nat
    BY DEF IInv, LayoutTyped
  <1>3. Filled(Unset) \in SUBSET Bits
    <2>1. \A i \in 0 .. size * 8 - 1 : Bit(i, Unset) \in Bits
      BY <1>2 DEF Bits, Bit, Unset, Symbols
    <2>. QED BY <2>1 DEF Filled
  <1>4. \A k \in Members : Contents(Filled(Unset), k, Unknown)
    BY <1>1, <1>2, CellsOf, Undetermined
  <1>5. members' = members /\ Members' = Members /\ Complete'
    BY <1>1 DEF layoutVars, Members, Complete
  <1>6. last' \in [Members -> Versions \cup {Unknown}] /\ \A k \in Members : last'[k] = Unknown
    BY <1>1 DEF NoMembers
  <1>7. \A k \in Members : Contents(memory, k, last[k])'
    BY <1>1, <1>4, <1>5, <1>6 DEF Contents
  <1>. QED BY <1>1, <1>3, <1>5, <1>6, <1>7 DEF ObjectOK
-----------------------------------------------------------------------------
(* An initializer writes the members one after the other.                  *)

\* A local variable is given its members as assignments give them.
Write(local, mm, k, v) ==
  IF local THEN AssignMember(mm, members[k], Value(k, v)) ELSE store(mm, members[k], Value(k, v))

\* The object after each member up to n, by the number of the member
Writes(f, local, mm, values, n) ==
  f = [k \in 0 .. n |-> IF k = 0 THEN mm ELSE Write(local, f[k - 1], k, values[k])]

LEMMA LeastOf ==
  ASSUME NEW S, S \subseteq Nat, S # {}
  PROVE  \E m \in S : \A k \in S : m <= k
  <1> DEFINE R == {p \in Nat \X Nat : p[1] < p[2]}
  <1>1. IsWellFoundedOn(R, Nat)
    BY NatLessThanWellFounded DEF OpToRel
  <1>2. PICK m \in S : \A k \in S : ~ (<<k, m>> \in R)
    BY <1>1, WFMin
  <1>3. \A k \in S : ~ (k < m)
    BY <1>2
  <1>. QED BY <1>3

LEMMA WritesExist ==
  ASSUME NEW local, NEW mm, NEW values, NEW n \in Nat
  PROVE  \E f : Writes(f, local, mm, values, n)
  <1> DEFINE Missing == {j \in Nat : ~ \E f : Writes(f, local, mm, values, j)}
             put(f, k) == IF k = 0 THEN mm ELSE Write(local, f[k - 1], k, values[k])
  <1>1. ASSUME Missing # {} PROVE FALSE
    <2>1. PICK j \in Missing : \A i \in Missing : j <= i
      <3>1. Missing \subseteq Nat
        OBVIOUS
      <3>. HIDE DEF Missing
      <3>. QED BY <1>1, <3>1, LeastOf
    <2>2. j \in Nat /\ ~ \E f : Writes(f, local, mm, values, j)
      BY <2>1
    <2>3. CASE j = 0
      <3> DEFINE f == [k \in 0 .. j |-> mm]
      <3>1. \A k \in 0 .. j : k = 0
        BY <2>3
      <3>2. Writes(f, local, mm, values, j)
        BY <3>1 DEF Writes
      <3>. QED BY <2>2, <3>2
    <2>4. CASE j # 0
      <3>1. j - 1 \in Nat /\ j - 1 \notin Missing
        BY <2>1, <2>2, <2>4
      <3>2. PICK f : Writes(f, local, mm, values, j - 1)
        BY <3>1
      <3> DEFINE g == [k \in 0 .. j |-> put(f, k)]
      <3>3. \A k \in 0 .. j : k # 0 => k - 1 \in 0 .. j - 1 /\ k - 1 \in 0 .. j
        BY <2>2
      <3>4. \A k \in 0 .. j - 1 : f[k] = put(f, k)
        BY <3>2, Zenon DEF Writes
      <3>5. \A k \in 0 .. j : k # 0 => g[k - 1] = f[k - 1]
        <4>. SUFFICES ASSUME NEW k \in 0 .. j, k # 0
                      PROVE  g[k - 1] = f[k - 1]
          OBVIOUS
        <4>1. k - 1 \in 0 .. j - 1 /\ k - 1 \in 0 .. j
          BY <3>3
        <4>2. g[k - 1] = put(f, k - 1)
          BY <4>1, Zenon
        <4>. QED BY <3>4, <4>1, <4>2, Zenon
      <3>6. \A k \in 0 .. j : put(f, k) = put(g, k)
        BY <3>5, Zenon
      <3>7. Writes(g, local, mm, values, j)
        <4>1. g = [k \in 0 .. j |-> put(g, k)]
          <5>. HIDE DEF put
          <5>. QED BY <3>6
        <4>. QED BY <4>1, Zenon DEF Writes
      <3>. QED BY <2>2, <3>7
    <2>. QED BY <2>3, <2>4
  <1>. QED BY <1>1

LEMMA OneWritten ==
  ASSUME NEW f, NEW values, NEW m \in Nat, f[m - 1] \in SUBSET Bits, Usual(members[m]),
         values[m] \in Versions, f[m] = AssignMember(f[m - 1], members[m], Value(m, values[m]))
  PROVE  /\ f[m] \in SUBSET Bits /\ Contents(f[m], m, values[m])
         /\ \A j, w : Cell(members[j]) \cap Cell(members[m]) = {} /\ Cell(members[j]) \subseteq Nat
                      /\ Contents(f[m - 1], j, w)
                        => Contents(f[m], j, w)
  <1>1. PICK x \in SUBSET Bits : x = f[m - 1]
    OBVIOUS
  <1>2. PICK v \in Versions : v = values[m]
    OBVIOUS
  <1>3. PICK y : y = f[m]
    OBVIOUS
  <1>4. y = AssignMember(x, members[m], Value(m, v))
    BY <1>1, <1>2, <1>3
  <1>5. y \in SUBSET Bits
    <2>1. Value(m, v) \in SUBSET Bits
      BY ValueBits
    <2>2. AssignMember(x, members[m], Value(m, v)) \in SUBSET Bits
      BY <2>1, AssignedBits
    <2>. QED BY <1>4, <2>2
  <1>6. Contents(y, m, v)
    BY <1>4, AssignedContents
  <1>7. ASSUME NEW j, NEW w, Cell(members[j]) \cap Cell(members[m]) = {},
               Cell(members[j]) \subseteq Nat, Contents(x, j, w)
        PROVE  Contents(y, j, w)
    BY <1>4, <1>7, AssignedContents
  <1>8. \A j, w : Cell(members[j]) \cap Cell(members[m]) = {} /\ Cell(members[j]) \subseteq Nat
                  /\ Contents(x, j, w)
                    => Contents(y, j, w)
    BY <1>7
  <1>. QED BY <1>1, <1>2, <1>3, <1>5, <1>6, <1>8

\* A member has what was written to it, although others were written since.
LEMMA WritesKeep ==
  ASSUME NEW local, NEW mm \in SUBSET Bits, NEW n \in Nat, 1 .. n \subseteq Members,
         Members \subseteq Nat, NEW values, \A k \in 1 .. n : values[k] \in Versions,
         \A k \in Members : Usual(members[k]) /\ Cell(members[k]) \subseteq Nat,
         local \/ \A k \in Members : ~ members[k].bitfield,
         n <= 1 \/ \A i, j \in Members : i # j => Cell(members[i]) \cap Cell(members[j]) = {},
         NEW f, Writes(f, local, mm, values, n), NEW last_one \in 0 .. n
  PROVE  /\ f[last_one] \in SUBSET Bits
         /\ \A j \in 1 .. last_one : Contents(f[last_one], j, values[j])
         /\ \A j \in Members : \A w :
              j > last_one /\ Contents(mm, j, w)
              /\ (\A i \in Members : i # j => Cell(members[i]) \cap Cell(members[j]) = {})
                => Contents(f[last_one], j, w)
  <1> DEFINE Alone(j) == \A i \in Members : i # j => Cell(members[i]) \cap Cell(members[j]) = {}
             Good(m) == /\ f[m] \in SUBSET Bits
                        /\ \A j \in 1 .. m : Contents(f[m], j, values[j])
                        /\ \A j \in Members : \A w :
                             j > m /\ Contents(mm, j, w) /\ Alone(j) => Contents(f[m], j, w)
             Bad == {m \in 0 .. n : ~ Good(m)}
  <1>1. \A m \in 0 .. n : f[m] = IF m = 0 THEN mm ELSE Write(local, f[m - 1], m, values[m])
    BY Zenon DEF Writes
  <1>2. ASSUME Bad # {} PROVE FALSE
    <2>1. PICK m \in Bad : \A i \in Bad : m <= i
      <3>1. Bad \subseteq Nat
        OBVIOUS
      <3>. HIDE DEF Bad
      <3>. QED BY <1>2, <3>1, LeastOf
    <2>2. m \in 0 .. n /\ ~ Good(m)
      BY <2>1
    <2>3. CASE m = 0
      <3>1. f[m] = mm
        BY <1>1, <2>2, <2>3
      <3>2. \A j \in 1 .. m : FALSE
        BY <2>3
      <3>. QED BY <2>2, <3>1, <3>2
    <2>4. CASE m # 0
      <3>1. m - 1 \in 0 .. n /\ m - 1 \notin Bad /\ m \in 1 .. n /\ m \in Members /\ m \in Nat
        BY <2>1, <2>2, <2>4
      <3>2. Good(m - 1)
        BY <3>1
      <3>3. f[m] = AssignMember(f[m - 1], members[m], Value(m, values[m]))
        <4>1. f[m] = Write(local, f[m - 1], m, values[m])
          BY <1>1, <2>2, <2>4
        <4>. QED BY <3>1, <4>1, StoredPlainly DEF Write
      <3>4. /\ f[m] \in SUBSET Bits /\ Contents(f[m], m, values[m])
            /\ \A j, w : Cell(members[j]) \cap Cell(members[m]) = {} /\ Cell(members[j]) \subseteq Nat
                         /\ Contents(f[m - 1], j, w)
                           => Contents(f[m], j, w)
        <4>1. f[m - 1] \in SUBSET Bits /\ Usual(members[m]) /\ values[m] \in Versions
          BY <3>1, <3>2
        <4>. HIDE DEF Good, Bad
        <4>. QED BY <3>1, <3>3, <4>1, OneWritten
      <3>5. ASSUME NEW j \in 1 .. m
            PROVE  Contents(f[m], j, values[j])
        <4>1. CASE j = m
          BY <3>4, <4>1
        <4>2. CASE j # m
          <5>1. j \in 1 .. m - 1 /\ j \in Members /\ ~ (n <= 1)
            BY <3>1, <4>2
          <5>2. Contents(f[m - 1], j, values[j])
            BY <3>2, <5>1
          <5>3. Cell(members[j]) \cap Cell(members[m]) = {} /\ Cell(members[j]) \subseteq Nat
            BY <3>1, <4>2, <5>1
          <5>. QED BY <3>4, <5>2, <5>3
        <4>. QED BY <4>1, <4>2
      <3>6. ASSUME NEW j \in Members, NEW w, j > m, Contents(mm, j, w), Alone(j)
            PROVE  Contents(f[m], j, w)
        <4>1. j > m - 1 /\ m # j
          BY <3>1, <3>6
        <4>2. Contents(f[m - 1], j, w)
          BY <3>2, <3>6, <4>1
        <4>3. Cell(members[j]) \cap Cell(members[m]) = {} /\ Cell(members[j]) \subseteq Nat
          BY <3>1, <3>6, <4>1
        <4>. QED BY <3>4, <4>2, <4>3
      <3>7. Good(m)
        BY <3>4, <3>5, <3>6
      <3>. QED BY <2>2, <3>7
    <2>. QED BY <2>3, <2>4
  <1>3. last_one \notin Bad
    BY <1>2
  <1>4. Good(last_one)
    BY <1>3
  <1>. QED BY <1>4

LEMMA LocalWritten ==
  ASSUME IInv, stage = "done", ~ union, \A k \in Members : Usual(members[k]),
         NEW values \in [Members -> Versions]
  PROVE  /\ LocalInitializer(values) \in SUBSET Bits
         /\ \A k \in Members : Contents(LocalInitializer(values), k, values[k])
  <1>. DEFINE L == Len(members)
              P(f) == f = [k \in 0 .. L |->
                             IF k = 0 THEN Filled(Unset)
                             ELSE AssignMember(f[k - 1], members[k], Value(k, values[k]))]
              after == CHOOSE f : P(f)
  <1>1. LocalInitializer(values) = after[L]
    BY DEF LocalInitializer
  <1>2. \A f : P(f) <=> Writes(f, TRUE, Filled(Unset), values, L)
    BY DEF Writes, Write
  <1>3. L \in Nat /\ Members = 1 .. L
    BY MembersAre DEF IInv, LayoutTyped
  <1>4. P(after)
    <2>1. \E f : P(f)
      <3>. HIDE DEF P
      <3>. QED BY <1>2, <1>3, WritesExist
    <2>. HIDE DEF P
    <2>. QED BY <2>1
  <1>5. Writes(after, TRUE, Filled(Unset), values, L)
    BY <1>2, <1>4
  <1>. HIDE DEF P, after
  <1>6. Filled(Unset) \in SUBSET Bits
    <2>1. \A i \in 0 .. size * 8 - 1 : Bit(i, Unset) \in Bits
      BY DEF Bits, Bit, Unset, Symbols, IInv, LayoutTyped
    <2>. QED BY <2>1 DEF Filled
  <1>7. /\ \A k \in Members : Cell(members[k]) \subseteq Nat
        /\ \A i, j \in Members : i # j => Cell(members[i]) \cap Cell(members[j]) = {}
    BY CellsInNat, CellsOf
  <1>8. /\ 1 .. L \subseteq Members /\ Members \subseteq Nat /\ L \in 0 .. L
        /\ \A k \in 1 .. L : values[k] \in Versions
    BY <1>3
  <1>. HIDE DEF L
  <1>9. /\ after[L] \in SUBSET Bits
        /\ \A j \in 1 .. L : Contents(after[L], j, values[j])
    BY <1>3, <1>5, <1>6, <1>7, <1>8, WritesKeep
  <1>. QED BY <1>1, <1>3, <1>9

\* The members an initializer of a global variable omits are zero.
LEMMA GlobalWritten ==
  ASSUME IInv, stage = "done", \A k \in Members : Usual(members[k]) /\ ~ members[k].bitfield,
         NEW n \in Members, union => n = 1,
         NEW values \in [Members -> Versions], \A k \in Members : k > n => values[k] = 0
  PROVE  /\ GlobalInitializer(n, values) \in SUBSET Bits
         /\ union => Contents(GlobalInitializer(n, values), 1, values[1])
         /\ ~ union => \A k \in Members : Contents(GlobalInitializer(n, values), k, values[k])
  <1>. DEFINE P(f) == f = [k \in 0 .. n |->
                             IF k = 0 THEN {} ELSE store(f[k - 1], members[k], Value(k, values[k]))]
              after == CHOOSE f : P(f)
  <1>1. GlobalInitializer(n, values) = after[n]
    BY DEF GlobalInitializer
  <1>2. \A f : P(f) <=> Writes(f, FALSE, {}, values, n)
    BY DEF Writes, Write
  <1>3. n \in Nat \ {0} /\ Members \subseteq Nat \ {0} /\ 1 .. n \subseteq Members
    BY MembersAre DEF IInv, LayoutTyped
  <1>4. P(after)
    <2>1. \E f : P(f)
      <3>. HIDE DEF P
      <3>. QED BY <1>2, <1>3, WritesExist
    <2>. HIDE DEF P
    <2>. QED BY <2>1
  <1>5. Writes(after, FALSE, {}, values, n)
    BY <1>2, <1>4
  <1>. HIDE DEF P, after
  <1>6. {} \in SUBSET Bits
    OBVIOUS
  <1>7. /\ \A k \in Members : Cell(members[k]) \subseteq Nat
        /\ ~ union => \A i, j \in Members : i # j => Cell(members[i]) \cap Cell(members[j]) = {}
    BY CellsInNat, CellsOf
  <1>8. n <= 1 \/ \A i, j \in Members : i # j => Cell(members[i]) \cap Cell(members[j]) = {}
    BY <1>7
  <1>9. Members \subseteq Nat /\ n \in 0 .. n /\ \A k \in 1 .. n : values[k] \in Versions
    BY <1>3
  <1>10. /\ after[n] \in SUBSET Bits
         /\ \A j \in 1 .. n : Contents(after[n], j, values[j])
         /\ \A j \in Members : \A w :
              j > n /\ Contents({}, j, w)
              /\ (\A i \in Members : i # j => Cell(members[i]) \cap Cell(members[j]) = {})
                => Contents(after[n], j, w)
    BY <1>3, <1>5, <1>6, <1>7, <1>8, <1>9, WritesKeep
  <1>11. \A j : Contents({}, j, 0)
    BY DEF Contents, SymbolsOf, Unknown
  <1>12. ASSUME ~ union, NEW k \in Members
         PROVE  Contents(after[n], k, values[k])
    <2>1. CASE k \in 1 .. n
      BY <1>10, <2>1
    <2>2. CASE k > n
      BY <1>7, <1>10, <1>11, <1>12, <2>2
    <2>. QED BY <1>3, <2>1, <2>2
  <1>13. 1 \in 1 .. n
    BY <1>3
  <1>. QED BY <1>1, <1>10, <1>12, <1>13

LEMMA ObjectInitialized ==
  ASSUME IInv, UnitsFit, Programs = {}, Initialize
  PROVE  ObjectOK'
  <1>1. /\ \A k \in Members : Usual(members[k])
        /\ Complete /\ Len(members) <= MaxFields /\ stage = "done" /\ defined' = TRUE
        /\ UNCHANGED layoutVars
    BY NewObject DEF Initialize
  <1>2. PICK n \in Members, v \in [Members -> Versions] :
          /\ union => n = 1
          /\ \/ ~ union /\ memory' = LocalInitializer(Given(n, v))
             \/ /\ \A k \in Members : ~ members[k].bitfield
                /\ memory' = GlobalInitializer(n, Given(n, v))
          /\ last' = Meant(Given(n, v))
    BY DEF Initialize
  <1>3. PICK values : values = Given(n, v)
    OBVIOUS
  <1>4. /\ values \in [Members -> Versions]
        /\ \A k \in Members : k > n => values[k] = 0
    <2>1. Members \subseteq Nat
      BY MembersAre DEF IInv, LayoutTyped
    <2>. QED BY <1>3, <2>1, VersionsTyped DEF Given
  <1>5. /\ members' = members /\ Members' = Members /\ union' = union /\ Complete'
    BY <1>1 DEF layoutVars, Members, Complete
  <1>6. CASE ~ union
    <2>1. last' = values
      BY <1>2, <1>3, <1>6 DEF Meant
    <2>2. memory' \in SUBSET Bits /\ \A k \in Members : Contents(memory', k, values[k])
      <3>1. CASE memory' = LocalInitializer(Given(n, v))
        BY <1>1, <1>3, <1>4, <1>6, <3>1, LocalWritten
      <3>2. CASE /\ \A k \in Members : ~ members[k].bitfield
                 /\ memory' = GlobalInitializer(n, Given(n, v))
        BY <1>1, <1>3, <1>4, <1>6, <3>2, GlobalWritten
      <3>. QED BY <1>2, <1>6, <3>1, <3>2
    <2>3. \A k \in Members : Contents(memory, k, last[k])'
      BY <1>5, <2>1, <2>2 DEF Contents
    <2>. QED BY <1>1, <1>4, <1>5, <2>1, <2>2, <2>3 DEF ObjectOK
  <1>7. CASE union
    <2>1. n = 1 /\ memory' = GlobalInitializer(1, values) /\ \A k \in Members : ~ members[k].bitfield
      BY <1>2, <1>3, <1>7
    <2>2. memory' \in SUBSET Bits /\ Contents(memory', 1, values[1])
      BY <1>1, <1>4, <1>7, <2>1, GlobalWritten
    <2>3. last' = [NoMembers EXCEPT ![1] = values[1]]
      BY <1>2, <1>3, <1>7 DEF Meant
    <2>4. /\ last' \in [Members -> Versions \cup {Unknown}]
          /\ \A k \in Members : last'[k] = Unknown \/ (k = 1 /\ last'[k] = values[1])
      BY <1>4, <2>1, <2>3 DEF NoMembers
    <2>5. \A k \in Members : last'[k] = Unknown \/ Contents(memory, k, last[k])'
      BY <1>5, <2>2, <2>4 DEF Contents
    <2>. QED BY <1>1, <1>5, <1>7, <2>2, <2>4, <2>5 DEF ObjectOK
  <1>. QED BY <1>6, <1>7 DEF IInv, LayoutTyped

LEMMA ObjectAssigned ==
  ASSUME IInv, ObjectOK, stage = "done", defined, NEW k \in Members, NEW v \in Versions,
         memory' = AssignMember(memory, members[k], Value(k, v)), last' = LastIs(k, v),
         UNCHANGED <<layoutVars, defined>>
  PROVE  ObjectOK'
  <1>1. /\ members' = members /\ Members' = Members /\ union' = union /\ Complete' /\ defined'
        /\ Complete /\ Len(members) <= MaxFields /\ \A i \in Members : Usual(members[i])
        /\ memory \in SUBSET Bits /\ last \in [Members -> Versions \cup {Unknown}]
        /\ \A i \in Members : (last[i] = Unknown /\ union) \/ Contents(memory, i, last[i])
    BY DEF ObjectOK, layoutVars, Members, Complete
  <1>2. k \in Nat /\ Usual(members[k])
    BY <1>1, MembersAre DEF IInv, LayoutTyped
  <1>3. PICK mm \in SUBSET Bits : mm = memory
    BY <1>1
  <1>4. PICK t : t = memory' /\ t = AssignMember(mm, members[k], Value(k, v))
    BY <1>3
  <1>5. /\ t \in SUBSET Bits /\ Contents(t, k, v)
        /\ \A j, w : Cell(members[j]) \cap Cell(members[k]) = {} /\ Cell(members[j]) \subseteq Nat
                      /\ Contents(mm, j, w)
                        => Contents(t, j, w)
    BY <1>2, <1>4, AssignedContents
  <1>6. /\ last' \in [Members -> Versions \cup {Unknown}] /\ last'[k] = v
        /\ \A i \in Members : i # k => last'[i] = IF union THEN Unknown ELSE last[i]
    BY <1>1 DEF LastIs, NoMembers
  <1>7. ASSUME NEW i \in Members
        PROVE  (last'[i] = Unknown /\ union) \/ Contents(t, i, last'[i])
    <2>1. CASE i = k
      BY <1>5, <1>6, <2>1
    <2>2. CASE i # k /\ union
      BY <1>6, <2>2
    <2>3. CASE i # k /\ ~ union
      <3>1. last'[i] = last[i] /\ Contents(mm, i, last[i])
        BY <1>1, <1>3, <1>6, <2>3
      <3>2. Cell(members[i]) \cap Cell(members[k]) = {} /\ Cell(members[i]) \subseteq Nat
        BY <2>3, CellsOf, CellsInNat
      <3>. QED BY <1>5, <3>1, <3>2
    <2>. QED BY <2>1, <2>2, <2>3
  <1>8. \A i \in Members : (last'[i] = Unknown /\ union') \/ Contents(memory, i, last[i])'
    BY <1>1, <1>4, <1>7 DEF Contents
  <1>. QED BY <1>1, <1>4, <1>5, <1>6, <1>8 DEF ObjectOK

LEMMA ObjectStep ==
  ASSUME IInv, UnitsFit, ObjectOK, Programs = {}, [Next]_vars
  PROVE  ObjectOK'
  <1>1. CASE UNCHANGED objectVars
    BY <1>1, ObjectStays
  <1>2. CASE Define
    BY <1>2, ObjectDefined
  <1>3. CASE Initialize
    BY <1>3, ObjectInitialized
  <1>4. CASE Assign
    BY <1>4, ObjectAssigned DEF Assign
  <1>5. CASE CompoundAssign
    <2>1. PICK k \in Members, v \in Versions :
            /\ ~ members[k].bitfield
            /\ memory' = store(memory, members[k], Value(k, v))
            /\ last' = LastIs(k, v)
      <3>1. \A k \in Members : members[k].bitfield \in BOOLEAN
        BY MemberAt, MemberFields DEF IInv
      <3>. QED BY <1>5, <3>1 DEF CompoundAssign
    <2>2. memory' = AssignMember(memory, members[k], Value(k, v))
      BY <2>1, StoredPlainly
    <2>. QED BY <1>5, <2>1, <2>2, ObjectAssigned DEF CompoundAssign
  <1>. QED BY <1>1, <1>2, <1>3, <1>4, <1>5 DEF Next, vars

LEMMA ObjectHolds ==
  ASSUME Programs = {}
  PROVE  Spec => [](IInv /\ UnitsFit /\ ObjectOK)
  <1>1. Init => UnitsFit /\ ObjectOK
    <2>1. Init => Members = {} /\ memory = {} /\ defined = FALSE
      BY DEF Init, LayoutInit, Members
    <2>. QED BY <2>1 DEF UnitsFit, ObjectOK
  <1>2. IInv /\ UnitsFit /\ ObjectOK /\ [Next]_vars => UnitsFit' /\ ObjectOK'
    BY UnitsKept, ObjectStep
  <1>. QED BY <1>1, <1>2, InvariantHolds, PTL DEF Spec

\* Every member of an object reads as what it was given last, unless the program
\* uses a construct that is miscompiled (gen_expr, codegen.c:350, 365).
THEOREM MembersReadBack ==
  ASSUME Programs = {}
  PROVE  Spec => []ReadsBack
  <1>1. ASSUME IInv, ObjectOK
        PROVE  ReadsBack
    <2>. SUFFICES ASSUME defined, NEW k \in Members, last[k] # Unknown
                  PROVE  ReadMember(memory, members[k]) = Reading(k, last[k])
      BY DEF ReadsBack
    <2>1. /\ memory \in SUBSET Bits /\ Usual(members[k]) /\ last[k] \in Versions
          /\ Contents(memory, k, last[k])
      BY <1>1 DEF ObjectOK
    <2>2. k \in Nat
      BY <1>1, MembersAre DEF IInv, LayoutTyped
    <2>. QED BY <2>1, <2>2, ContentsRead
  <1>. QED BY <1>1, ObjectHolds, PTL
-----------------------------------------------------------------------------
(* The object implements a record.                                         *)

\* Only one value reads as the member does, and none while it has none.
LEMMA ReadsAs ==
  ASSUME NEW mm \in SUBSET Bits, NEW k \in Nat \ {0}, Usual(members[k]),
         NEW w \in Versions \cup {Unknown}, Contents(mm, k, w), NEW v \in Versions
  PROVE  ReadMember(mm, members[k]) = Reading(k, v) <=> v = w
  <1>. DEFINE m == members[k]
  <1>1. ASSUME v = w
        PROVE  ReadMember(mm, m) = Reading(k, v)
    BY <1>1, ContentsRead
  <1>2. /\ m.size \in Nat \ {0} /\ FirstBit(m) \in Nat /\ m.bitfield \in BOOLEAN
        /\ m.bitfield => m.width \in 1 .. 11
        /\ FirstBit(m) \in Cell(m)
    BY UsualFields DEF Cell
  <1>3. 0 < m.size * 8 /\ 0 \notin m.size * 8 .. 63 /\ (m.bitfield => 0 < m.width)
    BY <1>2
  <1>4. \A s : Bit(0, s) \in ReadMember(mm, m) <=> Bit(FirstBit(m), s) \in mm
    <2>1. \A i \in Nat : \A s :
            Bit(i, s) \in ReadMember(mm, m)
              <=> IF m.bitfield THEN i < m.width /\ Bit(i + FirstBit(m), s) \in mm
                  ELSE \/ i < m.size * 8 /\ Bit(i + FirstBit(m), s) \in mm
                       \/ i \in m.size * 8 .. 63 /\ Bit(m.size * 8 - 1 + FirstBit(m), s) \in mm
      BY ReadBits
    <2>2. 0 + FirstBit(m) = FirstBit(m)
      BY <1>2
    <2>. QED BY <1>3, <2>1, <2>2
  <1>5. \A s : Bit(FirstBit(m), s) \in mm <=> s \in SymbolsOf(k, w, 0)
    <2>1. FirstBit(m) - FirstBit(m) = 0
      BY <1>2
    <2>. QED BY <1>2, <2>1 DEF Contents
  <1>6. \A s : Bit(0, s) \in Reading(k, v) <=> s \in SymbolsOf(k, v, 0)
    <2>1. \A i \in Nat : \A s :
            Bit(i, s) \in Reading(k, v)
              <=> IF m.bitfield THEN i < m.width /\ s \in SymbolsOf(k, v, i)
                  ELSE \/ i < m.size * 8 /\ s \in SymbolsOf(k, v, i)
                       \/ i \in m.size * 8 .. 63 /\ s \in SymbolsOf(k, v, m.size * 8 - 1)
      BY ReadingBits
    <2>. QED BY <1>3, <2>1
  <1>7. ASSUME ReadMember(mm, m) = Reading(k, v)
        PROVE  v = w
    <2>1. \A s : s \in SymbolsOf(k, w, 0) <=> s \in SymbolsOf(k, v, 0)
      BY <1>4, <1>5, <1>6, <1>7
    <2>2. v \in Nat /\ v # Unknown
      BY VersionsTyped
    <2>3. SymbolsOf(k, w, 0) = SymbolsOf(k, v, 0)
      BY <2>1
    <2>4. SymbolsOf(k, v, 0) = IF v = 0 THEN {} ELSE {<<k, v, 0>>}
      BY <2>2 DEF SymbolsOf
    <2>5. CASE w = Unknown
      <3>1. SymbolsOf(k, w, 0) = {Unset} /\ Unset = <<0, 0, 0>>
        BY <2>5 DEF SymbolsOf, Unset
      <3>2. <<k, v, 0>> # <<0, 0, 0>>
        OBVIOUS
      <3>. QED BY <2>3, <2>4, <3>1, <3>2
    <2>6. CASE w # Unknown
      <3>1. SymbolsOf(k, w, 0) = IF w = 0 THEN {} ELSE {<<k, w, 0>>}
        BY <2>6 DEF SymbolsOf
      <3>2. <<k, v, 0>> = <<k, w, 0>> => v = w
        OBVIOUS
      <3>. QED BY <2>3, <2>4, <3>1, <3>2
    <2>. QED BY <2>5, <2>6
  <1>. QED BY <1>1, <1>7

\* The values of the record's fields
Field(k) ==
  IF union \/ ~ defined \/ k \notin Members THEN {}
  ELSE IF last[k] = Unknown THEN {} ELSE {last[k]}

Fielded == \A k \in 1 .. MaxFields : Holds(k) = Field(k)

LEMMA FieldsAre ==
  ASSUME IInv, ObjectOK
  PROVE  Fielded
  <1>. SUFFICES ASSUME NEW k \in 1 .. MaxFields, ~ union, defined, k \in Members
                PROVE  Holds(k) = Field(k)
    BY DEF Fielded, Holds, Field
  <1>1. /\ memory \in SUBSET Bits /\ Usual(members[k]) /\ last[k] \in Versions \cup {Unknown}
        /\ Contents(memory, k, last[k]) /\ k \in Nat \ {0}
    BY DEF ObjectOK
  <1>2. PICK w \in Versions \cup {Unknown} : w = last[k]
    BY <1>1
  <1>3. \A v \in Versions : ReadMember(memory, members[k]) = Reading(k, v) <=> v = w
    BY <1>1, <1>2, ReadsAs
  <1>4. Holds(k) = {v \in Versions : v = w}
    BY <1>3 DEF Holds
  <1>5. Field(k) = IF w = Unknown THEN {} ELSE {w}
    BY <1>2 DEF Field
  <1>. QED BY <1>4, <1>5, VersionsTyped

Bar == [k \in 1 .. MaxFields |-> Holds(k)]

LEMMA BarIs ==
  ASSUME Fielded
  PROVE  Bar = [k \in 1 .. MaxFields |-> Field(k)]
  BY DEF Fielded, Bar

\* A step that changes the fields of F alone, to values
LEMMA Changes ==
  ASSUME NEW F \in SUBSET (1 .. MaxFields),
         \A k \in 1 .. MaxFields \ F : Bar'[k] = Bar[k],
         \A k \in F : \E v \in Versions : Bar'[k] = {v},
         Bar' = [k \in 1 .. MaxFields |-> Bar'[k]]
  PROVE  Abstract!Change(F)
  <1>1. Bar' = [k \in 1 .. MaxFields |-> IF k \in F THEN Bar'[k] ELSE Bar[k]]
    OBVIOUS
  <1>2. \A k \in F : Bar'[k] \in {{v} : v \in Versions}
    OBVIOUS
  <1>. QED BY <1>1, <1>2 DEF Abstract!Change, Bar

LEMMA RecordStep ==
  ASSUME IInv, ObjectOK, Fielded, Fielded', ObjectOK', Programs = {}, [Next]_vars
  PROVE  [Abstract!Next]_Bar
  <1>1. /\ Bar = [k \in 1 .. MaxFields |-> Field(k)]
        /\ Bar' = [k \in 1 .. MaxFields |-> Field(k)']
    <2>1. Bar' = [k \in 1 .. MaxFields |-> Field(k)']
      BY DEF Fielded, Bar
    <2>. QED BY <2>1, BarIs
  <1>2. union' = union
    BY DEF Next, LayoutNext, Define, Initialize, New, Assign, CompoundAssign, vars, layoutVars,
           struct_members, struct_union_decl, use_tag, LoopStruct, LoopUnion, EndLoop
  <1>3. CASE union \/ (~ defined /\ ~ defined')
    <2>1. \A k \in 1 .. MaxFields : Field(k) = {} /\ Field(k)' = {}
      BY <1>2, <1>3 DEF Field
    <2>. QED BY <1>1, <2>1
  <1>4. CASE UNCHANGED objectVars
    <2>1. CASE ~ defined
      BY <1>3, <1>4, <2>1 DEF objectVars
    <2>2. CASE defined
      <3>1. members' = members /\ defined' = defined /\ last' = last
        BY <1>4, <2>2, LayoutStays DEF objectVars, ObjectOK
      <3>2. \A k \in 1 .. MaxFields : Field(k)' = Field(k)
        BY <1>2, <3>1 DEF Field, Members
      <3>. QED BY <1>1, <3>2
    <2>. QED BY <2>1, <2>2
  <1>5. CASE Define
    <2>1. ~ defined /\ last' = NoMembers /\ members' = members
      BY <1>5 DEF Define, New, layoutVars
    <2>2. \A k \in 1 .. MaxFields : Field(k) = {} /\ Field(k)' = {}
      BY <2>1 DEF Field, Members, NoMembers
    <2>. QED BY <1>1, <2>2
  <1>6. CASE Initialize /\ ~ union
    <2>1. ~ defined /\ defined' /\ members' = members /\ Len(members) <= MaxFields
      BY <1>6 DEF Initialize, New, layoutVars
    <2>2. PICK values \in [Members -> Versions] : last' = values
      <3>1. PICK n \in Members, v \in [Members -> Versions] : last' = Meant(Given(n, v))
        BY <1>6 DEF Initialize
      <3>2. Given(n, v) \in [Members -> Versions]
        BY VersionsTyped DEF Given
      <3>. QED BY <1>6, <3>1, <3>2 DEF Meant
    <2>3. Members \in SUBSET (1 .. MaxFields)
      BY <2>1, MembersAre, ObjectAssumption DEF IInv, LayoutTyped
    <2>4. \A k \in 1 .. MaxFields : Field(k) = {}
      BY <2>1 DEF Field
    <2>5. \A k \in 1 .. MaxFields \ Members : Field(k)' = {}
      BY <2>1 DEF Field, Members
    <2>6. \A k \in Members : Field(k)' = {values[k]} /\ values[k] \in Versions
      BY <1>2, <1>6, <2>1, <2>2, VersionsTyped DEF Field, Members
    <2>7. Abstract!Change(Members)
      BY <1>1, <2>3, <2>4, <2>5, <2>6, Changes
    <2>8. \A k \in 1 .. MaxFields : Bar[k] = {}
      BY <1>1, <2>4
    <2>. QED BY <2>3, <2>7, <2>8 DEF Abstract!Next, Abstract!Initialize, Bar
  <1>7. CASE (Assign \/ CompoundAssign) /\ ~ union
    <2>1. PICK k \in Members, v \in Versions : last' = LastIs(k, v)
      BY <1>7 DEF Assign, CompoundAssign
    <2>2. /\ defined /\ defined' /\ members' = members /\ Len(members) <= MaxFields
          /\ last \in [Members -> Versions \cup {Unknown}]
      BY <1>7 DEF Assign, CompoundAssign, layoutVars, ObjectOK
    <2>3. k \in 1 .. MaxFields
      BY <2>2, MembersAre, ObjectAssumption DEF IInv, LayoutTyped
    <2>4. last' = [last EXCEPT ![k] = v]
      BY <1>7, <2>1 DEF LastIs
    <2>5. Field(k)' = {v}
      BY <1>2, <1>7, <2>2, <2>4, VersionsTyped DEF Field, Members
    <2>6. \A j \in 1 .. MaxFields : j # k => Field(j)' = Field(j)
      BY <1>2, <1>7, <2>2, <2>4 DEF Field, Members
    <2>7. Abstract!Change({k})
      BY <1>1, <2>3, <2>5, <2>6, Changes
    <2>. QED BY <2>3, <2>7 DEF Abstract!Next, Abstract!Assign
  <1>. QED BY <1>3, <1>4, <1>5, <1>6, <1>7 DEF Next, vars

\* The bytes of an object implement a record whose members are independent, in
\* every program that uses no construct which is miscompiled (struct_decl,
\* parse.c:2249; gen_expr, codegen.c:350, 365).
THEOREM ObjectImplementsRecord ==
  ASSUME Programs = {}
  PROVE  Spec => ImplementsRecord
  <1>1. Init => Abstract!Init
    <2>1. Init => \A k \in 1 .. MaxFields : Holds(k) = {}
      BY DEF Init, Holds
    <2>. QED BY <2>1 DEF Abstract!Init
  <1>2. IInv /\ ObjectOK => Fielded
    BY FieldsAre
  <1>3. IInv /\ ObjectOK /\ Fielded /\ Fielded' /\ ObjectOK' /\ [Next]_vars => [Abstract!Next]_Bar
    BY RecordStep
  <1>. QED BY <1>1, <1>2, <1>3, ObjectHolds, PTL DEF Spec, ImplementsRecord, Abstract!Spec, Bar
=============================================================================

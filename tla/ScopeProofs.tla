----------------------------- MODULE ScopeProofs -----------------------------
(***************************************************************************)
(* The two lists with depths implement nested blocks, for any names, tags  *)
(* and depth, every variable in scope has a place to live in, and what was *)
(* declared with a tag is completed with it.                               *)
(***************************************************************************)
EXTENDS Scope, SequenceTheorems, FiniteSetTheorems, WellFoundedInduction, TLAPS

\* A function on 1 .. n is a sequence of length n.
LEMMA FunctionIsSeq ==
  ASSUME NEW n \in Nat, NEW S, NEW f \in [1 .. n -> S]
  PROVE  f \in Seq(S) /\ Len(f) = n
OBVIOUS

\* The stack without its top entry.
LEMMA PopProperties ==
  ASSUME NEW S, NEW s \in Seq(S), s # <<>>
  PROVE  /\ Len(s) \in Nat \ {0}
         /\ SubSeq(s, 1, Len(s) - 1) \in Seq(S)
         /\ Len(SubSeq(s, 1, Len(s) - 1)) = Len(s) - 1
         /\ \A i \in 1 .. Len(s) - 1 : SubSeq(s, 1, Len(s) - 1)[i] = s[i]
<1> DEFINE f == [i \in 1 .. Len(s) - 1 |-> s[i]]
<1>1. Len(s) \in Nat \ {0}
  OBVIOUS
<1>2. SubSeq(s, 1, Len(s) - 1) = f
  BY <1>1
<1>3. f \in [1 .. Len(s) - 1 -> S] /\ \A i \in 1 .. Len(s) - 1 : f[i] = s[i]
  BY <1>1
<1> HIDE DEF f
<1>4. f \in Seq(S) /\ Len(f) = Len(s) - 1
  BY <1>1, <1>3, FunctionIsSeq
<1> QED
  BY <1>1, <1>2, <1>3, <1>4

\* A sequence that extends s by e is Append(s, e).
LEMMA AppendIs ==
  ASSUME NEW S, NEW s \in Seq(S), NEW e \in S, NEW t \in Seq(S),
         Len(t) = Len(s) + 1, \A i \in 1 .. Len(s) : t[i] = s[i], t[Len(s) + 1] = e
  PROVE  Append(s, e) = t
<1>1. /\ Append(s, e) \in Seq(S)
      /\ Len(Append(s, e)) = Len(s) + 1
      /\ \A i \in 1 .. Len(s) + 1 : Append(s, e)[i] = t[i]
  OBVIOUS
<1> QED
  BY <1>1, SeqEqual
-----------------------------------------------------------------------------
-----------------------------------------------------------------------------
(***************************************************************************)
(* Lists of entries                                                        *)
(***************************************************************************)
\* A bounded set of positions has a largest one.
LEMMA LargestExists ==
  ASSUME NEW n \in Nat, NEW S \in SUBSET (1 .. n), S # {}
  PROVE  Largest(S) \in S /\ \A j \in S : j <= Largest(S)
  <1>. DEFINE from(i) == {j \in S : i <= j}
              F == {from(i) : i \in S}
  <1>1. IsWellFoundedOn(StrictSubsetOrdering(S), FiniteSubsetsOf(S))
    BY FS_StrictSubsetOrderingWellFounded
  <1>2. F \subseteq FiniteSubsetsOf(S) /\ F # {}
    <2>1. IsFiniteSet(1 .. n)
      BY FS_Interval
    <2>2. IsFiniteSet(S)
      BY <2>1, FS_Subset
    <2>3. \A i \in S : from(i) \in SUBSET S
      OBVIOUS
    <2>4. \A i \in S : IsFiniteSet(from(i))
      BY <2>2, <2>3, FS_Subset
    <2>. QED BY <2>3, <2>4 DEF FiniteSubsetsOf
  <1>3. \E x \in F : \A y \in F : <<y, x>> \notin StrictSubsetOrdering(S)
    <2>. HIDE DEF F
    <2>. QED BY <1>1, <1>2, WFMin
  <1>4. PICK i \in S : \A k \in S : <<from(k), from(i)>> \notin StrictSubsetOrdering(S)
    BY <1>3
  <1>5. \A k \in S : k <= i
    <2>. SUFFICES ASSUME NEW k \in S, i < k
                  PROVE  FALSE
      OBVIOUS
    <2>1. from(k) \subseteq from(i) /\ i \in from(i) /\ i \notin from(k)
      <3>1. i \in Int /\ k \in Int /\ S \subseteq Int
        OBVIOUS
      <3>2. i <= i /\ ~ (k <= i) /\ \A j \in Int : k <= j => i <= j
        BY <3>1
      <3>. QED BY <3>1, <3>2
    <2>2. from(k) \in SUBSET S /\ from(i) \in SUBSET S
      OBVIOUS
    <2>3. <<from(k), from(i)>> \in StrictSubsetOrdering(S)
      <3>. HIDE DEF from
      <3>. QED BY <2>1, <2>2 DEF StrictSubsetOrdering
    <2>. QED BY <1>4, <2>3
  <1>. QED BY <1>5 DEF Largest

\* ... and it is the only one of that kind.
LEMMA LargestIs ==
  ASSUME NEW n \in Nat, NEW S \in SUBSET (1 .. n), NEW i \in S, \A j \in S : j <= i
  PROVE  Largest(S) = i
  <1>1. Largest(S) \in S /\ i <= Largest(S)
    BY LargestExists
  <1>2. S \subseteq Int /\ \A j, k \in Int : j <= k /\ k <= j => j = k
    OBVIOUS
  <1>. QED BY <1>1, <1>2

\* The first k members of a sequence
LEMMA Prefix ==
  ASSUME NEW E, NEW s \in Seq(E), NEW k \in 0 .. Len(s)
  PROVE  /\ SubSeq(s, 1, k) \in Seq(E) /\ Len(SubSeq(s, 1, k)) = k
         /\ \A i \in 1 .. k : SubSeq(s, 1, k)[i] = s[i]
  <1>. DEFINE f == [i \in 1 .. k |-> s[i]]
  <1>1. SubSeq(s, 1, k) = f
    OBVIOUS
  <1>2. f \in [1 .. k -> E] /\ k \in Nat
    OBVIOUS
  <1>3. \A i \in 1 .. k : f[i] = s[i]
    OBVIOUS
  <1>. HIDE DEF f
  <1>. QED BY <1>1, <1>2, <1>3, FunctionIsSeq

Depths(s) == \A i \in DOMAIN s : s[i].depth \in Nat

\* The entries stand in the order of their scopes.
Sorted(s) == \A i, j \in DOMAIN s : i < j => s[i].depth <= s[j].depth

At(s, d, n) == {i \in Called(s, n) : s[i].depth = d}

\* leave_scope() takes off the entries that are too deep, and no others.
LEMMA Cut ==
  ASSUME NEW E, NEW s \in Seq(E), Depths(s), Sorted(s), NEW d \in Int
  PROVE  /\ UpTo(s, d) \in Seq(E) /\ Len(UpTo(s, d)) \in 0 .. Len(s)
         /\ \A i \in 1 .. Len(UpTo(s, d)) : UpTo(s, d)[i] = s[i] /\ s[i].depth <= d
         /\ \A i \in 1 .. Len(s) : i > Len(UpTo(s, d)) => d < s[i].depth
  <1>1. DOMAIN s = 1 .. Len(s) /\ Len(s) \in Nat /\ Shallow(s, d) \in SUBSET (1 .. Len(s))
    BY DEF Shallow
  <1>2. CASE Shallow(s, d) = {}
    <2>1. UpTo(s, d) = <<>>
      BY <1>2 DEF UpTo
    <2>2. \A i \in 1 .. Len(s) : d < s[i].depth
      BY <1>1, <1>2 DEF Shallow, Depths
    <2>. QED BY <2>1, <2>2
  <1>3. CASE Shallow(s, d) # {}
    <2>. DEFINE k == Largest(Shallow(s, d))
    <2>1. k \in Shallow(s, d) /\ \A j \in Shallow(s, d) : j <= k
      BY <1>1, <1>3, LargestExists
    <2>2. UpTo(s, d) = SubSeq(s, 1, k) /\ k \in 1 .. Len(s)
      BY <1>1, <1>3, <2>1 DEF UpTo
    <2>. HIDE DEF k
    <2>3. \A i \in 1 .. k : s[i].depth <= d
      <3>. SUFFICES ASSUME NEW i \in 1 .. k
                    PROVE  s[i].depth <= d
        OBVIOUS
      <3>1. s[k].depth <= d /\ i \in DOMAIN s /\ k \in DOMAIN s
        BY <1>1, <2>1, <2>2 DEF Shallow
      <3>2. s[i].depth <= s[k].depth
        <4>1. i = k \/ i < k
          BY <2>2
        <4>2. s[k].depth <= s[k].depth
          BY <3>1 DEF Depths
        <4>. QED BY <3>1, <4>1, <4>2 DEF Sorted
      <3>3. s[i].depth \in Int /\ s[k].depth \in Int
        BY <3>1 DEF Depths
      <3>. QED BY <3>1, <3>2, <3>3
    <2>4. \A i \in 1 .. Len(s) : i > k => d < s[i].depth
      <3>. SUFFICES ASSUME NEW i \in 1 .. Len(s), i > k, ~ (d < s[i].depth)
                    PROVE  FALSE
        OBVIOUS
      <3>1. i \in Shallow(s, d)
        BY <1>1 DEF Shallow, Depths
      <3>. QED BY <2>1, <2>2, <3>1
    <2>. QED BY <2>2, <2>3, <2>4, Prefix
  <1>. QED BY <1>2, <1>3

\* The blocks that stay open keep their entries.
LEMMA CutKeeps ==
  ASSUME NEW E, NEW s \in Seq(E), Depths(s), Sorted(s), NEW d \in Int,
         NEW e \in Int, e <= d, NEW n
  PROVE  /\ At(UpTo(s, d), e, n) = At(s, e, n)
         /\ \A i \in At(s, e, n) : UpTo(s, d)[i] = s[i]
  <1>. DEFINE t == UpTo(s, d)
  <1>1. /\ t \in Seq(E) /\ Len(t) \in 0 .. Len(s)
        /\ \A i \in 1 .. Len(t) : t[i] = s[i] /\ s[i].depth <= d
        /\ \A i \in 1 .. Len(s) : i > Len(t) => d < s[i].depth
    BY Cut
  <1>. HIDE DEF t
  <1>2. DOMAIN t = 1 .. Len(t) /\ DOMAIN s = 1 .. Len(s)
    BY <1>1
  <1>3. \A i \in At(s, e, n) : i \in 1 .. Len(t)
    <2>. SUFFICES ASSUME NEW i \in At(s, e, n), i \notin 1 .. Len(t)
                  PROVE  FALSE
      OBVIOUS
    <2>1. i \in 1 .. Len(s) /\ s[i].depth = e
      BY <1>2 DEF At, Called
    <2>2. d < s[i].depth
      BY <1>1, <2>1
    <2>. QED BY <2>1, <2>2
  <1>4. At(t, e, n) = At(s, e, n)
    BY <1>1, <1>2, <1>3 DEF At, Called
  <1>. QED BY <1>1, <1>3, <1>4 DEF t

LEMMA CutSorted ==
  ASSUME NEW E, NEW s \in Seq(E), Depths(s), Sorted(s), NEW d \in Int
  PROVE  Depths(UpTo(s, d)) /\ Sorted(UpTo(s, d))
  <1>. DEFINE t == UpTo(s, d)
  <1>1. /\ t \in Seq(E) /\ Len(t) \in 0 .. Len(s)
        /\ \A i \in 1 .. Len(t) : t[i] = s[i]
    BY Cut
  <1>. HIDE DEF t
  <1>2. DOMAIN t = 1 .. Len(t) /\ DOMAIN s = 1 .. Len(s)
    BY <1>1
  <1>3. Depths(t) /\ Sorted(t)
    BY <1>1, <1>2 DEF Depths, Sorted
  <1>. QED BY <1>3 DEF t

\* A new entry of the innermost scope
LEMMA Pushed ==
  ASSUME NEW E, NEW s \in Seq(E), Depths(s), Sorted(s), NEW e \in E, NEW d \in Nat,
         e.depth = d, \A i \in DOMAIN s : s[i].depth <= d
  PROVE  /\ Append(s, e) \in Seq(E) /\ Len(Append(s, e)) = Len(s) + 1
         /\ Depths(Append(s, e)) /\ Sorted(Append(s, e))
         /\ \A i \in DOMAIN Append(s, e) : Append(s, e)[i].depth <= d
         /\ \A i \in DOMAIN s : Append(s, e)[i] = s[i]
         /\ Append(s, e)[Len(s) + 1] = e
  <1>. DEFINE t == Append(s, e)
  <1>1. /\ t \in Seq(E) /\ Len(t) = Len(s) + 1 /\ Len(s) \in Nat
        /\ DOMAIN s = 1 .. Len(s) /\ DOMAIN t = 1 .. Len(s) + 1
        /\ \A i \in DOMAIN s : t[i] = s[i]
        /\ t[Len(s) + 1] = e
    OBVIOUS
  <1>. HIDE DEF t
  <1>2. Depths(t) /\ \A i \in DOMAIN t : t[i].depth <= d
    BY <1>1 DEF Depths
  <1>3. Sorted(t)
    BY <1>1, <1>2 DEF Sorted, Depths
  <1>. QED BY <1>1, <1>2, <1>3 DEF t

LEMMA PushedAt ==
  ASSUME NEW E, NEW s \in Seq(E), NEW e \in E, NEW d, NEW n
  PROVE  /\ e.name = n /\ e.depth = d => At(Append(s, e), d, n) = At(s, d, n) \cup {Len(s) + 1}
         /\ ~ (e.name = n /\ e.depth = d) => At(Append(s, e), d, n) = At(s, d, n)
  <1>. DEFINE t == Append(s, e)
  <1>1. /\ Len(s) \in Nat /\ DOMAIN s = 1 .. Len(s) /\ DOMAIN t = 1 .. Len(s) + 1
        /\ \A i \in DOMAIN s : t[i] = s[i]
        /\ t[Len(s) + 1] = e
    OBVIOUS
  <1>. HIDE DEF t
  <1>2. DOMAIN t = DOMAIN s \cup {Len(s) + 1} /\ Len(s) + 1 \notin DOMAIN s
    BY <1>1
  <1>3. /\ e.name = n /\ e.depth = d => At(t, d, n) = At(s, d, n) \cup {Len(s) + 1}
        /\ ~ (e.name = n /\ e.depth = d) => At(t, d, n) = At(s, d, n)
    BY <1>1, <1>2 DEF At, Called
  <1>. QED BY <1>3 DEF t

\* What is found first is of the innermost scope that has the name.
LEMMA FoundInnermost ==
  ASSUME NEW E, NEW s \in Seq(E), Depths(s), Sorted(s), NEW n, Called(s, n) # {},
         NEW i, i = Largest(Called(s, n))
  PROVE  /\ i \in Called(s, n) /\ s[i].depth \in Nat
         /\ Largest(At(s, s[i].depth, n)) = i
         /\ At(s, s[i].depth, n) # {}
         /\ \A d \in Nat : At(s, d, n) # {} => d <= s[i].depth
  <1>. DEFINE d == s[i].depth
  <1>1. /\ DOMAIN s = 1 .. Len(s) /\ Len(s) \in Nat
        /\ Called(s, n) \in SUBSET (1 .. Len(s))
    BY DEF Called
  <1>2. i \in Called(s, n) /\ \A j \in Called(s, n) : j <= i
    BY <1>1, LargestExists
  <1>3. i \in DOMAIN s /\ d \in Nat /\ i \in At(s, d, n)
    BY <1>2 DEF Called, At, Depths
  <1>4. At(s, d, n) \in SUBSET (1 .. Len(s)) /\ \A j \in At(s, d, n) : j <= i
    BY <1>1, <1>2 DEF At
  <1>5. Largest(At(s, d, n)) = i
    <2>. HIDE DEF d
    <2>. QED BY <1>1, <1>3, <1>4, LargestIs
  <1>6. ASSUME NEW e \in Nat, At(s, e, n) # {}
        PROVE  e <= d
    <2>1. PICK j \in At(s, e, n) : TRUE
      BY <1>6
    <2>2. j \in DOMAIN s /\ j \in Called(s, n) /\ s[j].depth = e
      BY <2>1 DEF At, Called
    <2>3. j <= i
      BY <1>2, <2>2
    <2>4. j < i \/ j = i
      BY <1>1, <1>3, <2>2, <2>3
    <2>. QED BY <1>3, <2>2, <2>4 DEF Sorted
  <1>. QED BY <1>2, <1>3, <1>5, <1>6
-----------------------------------------------------------------------------
(***************************************************************************)
(* The blocks that two lists vs and ts stand for                           *)
(***************************************************************************)
KeyNames == Names \cup {"__func__"}

NameIn(vs, d, n) == IF At(vs, d, n) = {} THEN None ELSE Entity(vs[Largest(At(vs, d, n))])
TagIn(ts, d, t) == IF At(ts, d, t) = {} THEN None ELSE TagEntity(ts[Largest(At(ts, d, t))].ty)

BlockOf(vs, ts, d) ==
  [k \in Keys |-> IF k[1] = "name" THEN NameIn(vs, d, k[2]) ELSE TagIn(ts, d, k[2])]

BlocksOf(vs, ts, sd) == [d \in 1 .. sd + 1 |-> BlockOf(vs, ts, d - 1)]

LEMMA BarIs ==
  /\ blocksBar = BlocksOf(var_scope, tag_scope, scope_depth)
  /\ blocksBar' = BlocksOf(var_scope', tag_scope', scope_depth')
  <1>1. \A d : BlockAt(d) = BlockOf(var_scope, tag_scope, d)
    BY DEF BlockAt, BlockOf, NameIn, TagIn, NamesAt, TagsAt, At
  <1>2. \A d : BlockAt(d)' = BlockOf(var_scope', tag_scope', d)
    BY DEF BlockAt, BlockOf, NameIn, TagIn, NamesAt, TagsAt, At, Called
  <1>. QED BY <1>1, <1>2 DEF blocksBar, BlocksOf

LEMMA KeyFields ==
  ASSUME NEW n
  PROVE  /\ NameKey(n)[1] = "name" /\ NameKey(n)[2] = n
         /\ TagKey(n)[1] = "tag" /\ TagKey(n)[2] = n
  BY DEF NameKey, TagKey

LEMMA KeysAre ==
  /\ \A n \in KeyNames : NameKey(n) \in Keys
  /\ \A t \in Tags : TagKey(t) \in Keys
  /\ \A k \in Keys : (k[1] = "name" /\ k[2] \in KeyNames /\ k = NameKey(k[2]))
                       \/ (k[1] = "tag" /\ k[2] \in Tags /\ k = TagKey(k[2]))
  BY DEF Keys, NameKey, TagKey, KeyNames

LEMMA BlocksList ==
  ASSUME NEW vs, NEW ts, NEW sd \in Nat
  PROVE  /\ Len(BlocksOf(vs, ts, sd)) = sd + 1 /\ DOMAIN BlocksOf(vs, ts, sd) = 1 .. sd + 1
         /\ \A d \in 1 .. sd + 1 : BlocksOf(vs, ts, sd)[d] = BlockOf(vs, ts, d - 1)
  BY DEF BlocksOf

LEMMA BlockBinds ==
  ASSUME NEW vs, NEW ts, NEW d
  PROVE  /\ DOMAIN BlockOf(vs, ts, d) = Keys
         /\ \A n \in KeyNames : BlockOf(vs, ts, d)[NameKey(n)] = NameIn(vs, d, n)
         /\ \A t \in Tags : BlockOf(vs, ts, d)[TagKey(t)] = TagIn(ts, d, t)
  <1>1. ASSUME NEW n \in KeyNames
        PROVE  BlockOf(vs, ts, d)[NameKey(n)] = NameIn(vs, d, n)
    <2>1. NameKey(n) \in Keys /\ NameKey(n)[1] = "name" /\ NameKey(n)[2] = n
      BY KeysAre, KeyFields
    <2>. QED BY <2>1 DEF BlockOf
  <1>2. ASSUME NEW t \in Tags
        PROVE  BlockOf(vs, ts, d)[TagKey(t)] = TagIn(ts, d, t)
    <2>1. TagKey(t) \in Keys /\ TagKey(t)[1] = "tag" /\ TagKey(t)[2] = t
      BY KeysAre, KeyFields
    <2>. QED BY <2>1 DEF BlockOf
  <1>. QED BY <1>1, <1>2 DEF BlockOf

\* Two blocks are equal that bind the same.
LEMMA SameBlock ==
  ASSUME NEW vs, NEW ts, NEW d, NEW ws, NEW us, NEW e,
         \A n \in KeyNames : NameIn(ws, e, n) = NameIn(vs, d, n),
         \A t \in Tags : TagIn(us, e, t) = TagIn(ts, d, t)
  PROVE  BlockOf(ws, us, e) = BlockOf(vs, ts, d)
  <1>1. \A k \in Keys : (IF k[1] = "name" THEN NameIn(ws, e, k[2]) ELSE TagIn(us, e, k[2]))
                         = (IF k[1] = "name" THEN NameIn(vs, d, k[2]) ELSE TagIn(ts, d, k[2]))
    BY KeysAre
  <1>. QED BY <1>1 DEF BlockOf

LEMMA NameInPushed ==
  ASSUME NEW E, NEW vs \in Seq(E), NEW e \in E, NEW d, NEW n
  PROVE  NameIn(Append(vs, e), d, n) =
           IF e.name = n /\ e.depth = d THEN Entity(e) ELSE NameIn(vs, d, n)
  <1>. DEFINE t == Append(vs, e)
  <1>1. /\ e.name = n /\ e.depth = d => At(t, d, n) = At(vs, d, n) \cup {Len(vs) + 1}
        /\ ~ (e.name = n /\ e.depth = d) => At(t, d, n) = At(vs, d, n)
    BY PushedAt
  <1>2. /\ Len(vs) \in Nat /\ Len(vs) + 1 \in Nat /\ t[Len(vs) + 1] = e
        /\ At(vs, d, n) \in SUBSET (1 .. Len(vs)) /\ \A i \in 1 .. Len(vs) : t[i] = vs[i]
    BY DEF At, Called
  <1>. HIDE DEF t
  <1>3. CASE e.name = n /\ e.depth = d
    <2>1. At(t, d, n) \in SUBSET (1 .. Len(vs) + 1) /\ Len(vs) + 1 \in At(t, d, n)
          /\ \A j \in At(t, d, n) : j <= Len(vs) + 1
      BY <1>1, <1>2, <1>3
    <2>2. Largest(At(t, d, n)) = Len(vs) + 1
      BY <1>2, <2>1, LargestIs
    <2>. QED BY <1>2, <1>3, <2>1, <2>2 DEF NameIn, t
  <1>4. CASE ~ (e.name = n /\ e.depth = d)
    <2>1. At(t, d, n) = At(vs, d, n)
      BY <1>1, <1>4
    <2>2. At(vs, d, n) # {} => Largest(At(vs, d, n)) \in At(vs, d, n)
      BY <1>2, LargestExists
    <2>. QED BY <1>2, <1>4, <2>1, <2>2 DEF NameIn, t
  <1>. QED BY <1>3, <1>4

LEMMA TagInPushed ==
  ASSUME NEW E, NEW ts \in Seq(E), NEW e \in E, NEW d, NEW n
  PROVE  TagIn(Append(ts, e), d, n) =
           IF e.name = n /\ e.depth = d THEN TagEntity(e.ty) ELSE TagIn(ts, d, n)
  <1>. DEFINE t == Append(ts, e)
  <1>1. /\ e.name = n /\ e.depth = d => At(t, d, n) = At(ts, d, n) \cup {Len(ts) + 1}
        /\ ~ (e.name = n /\ e.depth = d) => At(t, d, n) = At(ts, d, n)
    BY PushedAt
  <1>2. /\ Len(ts) \in Nat /\ Len(ts) + 1 \in Nat /\ t[Len(ts) + 1] = e
        /\ At(ts, d, n) \in SUBSET (1 .. Len(ts)) /\ \A i \in 1 .. Len(ts) : t[i] = ts[i]
    BY DEF At, Called
  <1>. HIDE DEF t
  <1>3. CASE e.name = n /\ e.depth = d
    <2>1. At(t, d, n) \in SUBSET (1 .. Len(ts) + 1) /\ Len(ts) + 1 \in At(t, d, n)
          /\ \A j \in At(t, d, n) : j <= Len(ts) + 1
      BY <1>1, <1>2, <1>3
    <2>2. Largest(At(t, d, n)) = Len(ts) + 1
      BY <1>2, <2>1, LargestIs
    <2>. QED BY <1>2, <1>3, <2>1, <2>2 DEF TagIn, t
  <1>4. CASE ~ (e.name = n /\ e.depth = d)
    <2>1. At(t, d, n) = At(ts, d, n)
      BY <1>1, <1>4
    <2>2. At(ts, d, n) # {} => Largest(At(ts, d, n)) \in At(ts, d, n)
      BY <1>2, LargestExists
    <2>. QED BY <1>2, <1>4, <2>1, <2>2 DEF TagIn, t
  <1>. QED BY <1>3, <1>4

\* What a block that is opened, or one that stays when another is closed, binds.
LEMMA NothingIn ==
  ASSUME NEW vs, NEW d, NEW n, \A i \in DOMAIN vs : vs[i].depth # d
  PROVE  NameIn(vs, d, n) = None /\ TagIn(vs, d, n) = None
  <1>1. At(vs, d, n) = {}
    BY DEF At, Called
  <1>. QED BY <1>1 DEF NameIn, TagIn

LEMMA InCut ==
  ASSUME NEW E, NEW s \in Seq(E), Depths(s), Sorted(s), NEW d \in Int,
         NEW e \in Int, e <= d, NEW n
  PROVE  /\ NameIn(UpTo(s, d), e, n) = NameIn(s, e, n)
         /\ TagIn(UpTo(s, d), e, n) = TagIn(s, e, n)
  <1>1. /\ At(UpTo(s, d), e, n) = At(s, e, n)
        /\ \A i \in At(s, e, n) : UpTo(s, d)[i] = s[i]
    BY CutKeeps
  <1>2. Len(s) \in Nat /\ At(s, e, n) \in SUBSET (1 .. Len(s))
    BY DEF At, Called
  <1>3. At(s, e, n) # {} => Largest(At(s, e, n)) \in At(s, e, n)
    BY <1>2, LargestExists
  <1>. QED BY <1>1, <1>3 DEF NameIn, TagIn

LEMMA SameBlocks ==
  ASSUME NEW vs, NEW ts, NEW ws, NEW us, NEW sd \in Nat,
         \A d \in 0 .. sd : BlockOf(ws, us, d) = BlockOf(vs, ts, d)
  PROVE  BlocksOf(ws, us, sd) = BlocksOf(vs, ts, sd)
  <1>1. \A d \in 1 .. sd + 1 : d - 1 \in 0 .. sd
    OBVIOUS
  <1>. QED BY <1>1 DEF BlocksOf

BoundTo(bs, k, v) == [bs EXCEPT ![Len(bs)] = [@ EXCEPT ![k] = v]]

\* Only the innermost block changes, and only at k.
LEMMA BoundAt ==
  ASSUME NEW vs, NEW ts, NEW ws, NEW us, NEW sd \in Nat, NEW k \in Keys, NEW v,
         \A d \in 0 .. sd, key \in Keys :
           BlockOf(ws, us, d)[key] = IF d = sd /\ key = k THEN v ELSE BlockOf(vs, ts, d)[key]
  PROVE  BlocksOf(ws, us, sd) = BoundTo(BlocksOf(vs, ts, sd), k, v)
  <1>. DEFINE bs == BlocksOf(vs, ts, sd)
  <1>1. Len(bs) = sd + 1 /\ bs = [d \in 1 .. sd + 1 |-> BlockOf(vs, ts, d - 1)]
    BY BlocksList DEF BlocksOf
  <1>2. \A d \in Nat : BlockOf(vs, ts, d) = [key \in Keys |-> BlockOf(vs, ts, d)[key]]
    BY DEF BlockOf
  <1>3. \A d \in Nat : BlockOf(ws, us, d) = [key \in Keys |-> BlockOf(ws, us, d)[key]]
    BY DEF BlockOf
  <1>4. BoundTo(bs, k, v) =
          [d \in 1 .. sd + 1 |-> IF d = sd + 1 THEN [BlockOf(vs, ts, d - 1) EXCEPT ![k] = v]
                                 ELSE BlockOf(vs, ts, d - 1)]
    <2>. HIDE DEF bs
    <2>. QED BY <1>1 DEF BoundTo
  <1>5. ASSUME NEW d \in 0 .. sd
        PROVE  BlockOf(ws, us, d) = IF d = sd THEN [BlockOf(vs, ts, d) EXCEPT ![k] = v]
                                    ELSE BlockOf(vs, ts, d)
    <2>1. d \in Nat
      OBVIOUS
    <2>2. CASE d = sd
      <3>1. [BlockOf(vs, ts, d) EXCEPT ![k] = v] =
              [key \in Keys |-> IF key = k THEN v ELSE BlockOf(vs, ts, d)[key]]
        BY <1>2, <2>1
      <3>2. BlockOf(ws, us, d) = [key \in Keys |-> IF key = k THEN v ELSE BlockOf(vs, ts, d)[key]]
        BY <1>3, <2>1, <2>2
      <3>. QED BY <2>2, <3>1, <3>2
    <2>3. CASE d # sd
      <3>1. \A key \in Keys : BlockOf(ws, us, d)[key] = BlockOf(vs, ts, d)[key]
        BY <2>3
      <3>. QED BY <1>2, <1>3, <2>1, <2>3, <3>1
    <2>. QED BY <2>2, <2>3
  <1>6. \A d \in 1 .. sd + 1 : d - 1 \in 0 .. sd /\ (d - 1 = sd <=> d = sd + 1)
    OBVIOUS
  <1>7. \A d \in 1 .. sd + 1 :
          BlockOf(ws, us, d - 1) = IF d = sd + 1 THEN [BlockOf(vs, ts, d - 1) EXCEPT ![k] = v]
                                   ELSE BlockOf(vs, ts, d - 1)
    BY <1>5, <1>6
  <1>. HIDE DEF bs
  <1>8. BlocksOf(ws, us, sd) = BoundTo(bs, k, v)
    BY <1>4, <1>7 DEF BlocksOf
  <1>. QED BY <1>8 DEF bs

\* An entry for a name that is a key binds it; one that has no name binds nothing.
LEMMA NameBound ==
  ASSUME NEW E, NEW vs \in Seq(E), NEW e \in E, NEW ts, NEW sd \in Nat, e.depth = sd,
         NEW n \in KeyNames, e.name = n
  PROVE  BlocksOf(Append(vs, e), ts, sd) = BoundTo(BlocksOf(vs, ts, sd), NameKey(n), Entity(e))
  <1>1. ASSUME NEW d \in 0 .. sd, NEW key \in Keys
        PROVE  BlockOf(Append(vs, e), ts, d)[key] =
                 IF d = sd /\ key = NameKey(n) THEN Entity(e) ELSE BlockOf(vs, ts, d)[key]
    <2>1. CASE key[1] = "name" /\ key[2] \in KeyNames /\ key = NameKey(key[2])
      <3>1. BlockOf(Append(vs, e), ts, d)[key] = NameIn(Append(vs, e), d, key[2])
            /\ BlockOf(vs, ts, d)[key] = NameIn(vs, d, key[2])
        BY <2>1 DEF BlockOf
      <3>2. key = NameKey(n) <=> key[2] = n
        BY <2>1, KeyFields
      <3>3. NameIn(Append(vs, e), d, key[2]) =
              IF e.name = key[2] /\ e.depth = d THEN Entity(e) ELSE NameIn(vs, d, key[2])
        BY NameInPushed
      <3>. QED BY <3>1, <3>2, <3>3
    <2>2. CASE key[1] = "tag" /\ key[2] \in Tags /\ key = TagKey(key[2])
      <3>1. key # NameKey(n)
        BY <2>2, KeyFields
      <3>. QED BY <2>2, <3>1 DEF BlockOf
    <2>. QED BY <2>1, <2>2, KeysAre
  <1>2. NameKey(n) \in Keys
    BY KeysAre
  <1>. QED BY <1>1, <1>2, BoundAt

LEMMA UnnamedBinds ==
  ASSUME NEW E, NEW vs \in Seq(E), NEW e \in E, NEW ts, NEW sd \in Nat, e.name \notin KeyNames
  PROVE  BlocksOf(Append(vs, e), ts, sd) = BlocksOf(vs, ts, sd)
  <1>1. \A d, n : n \in KeyNames => NameIn(Append(vs, e), d, n) = NameIn(vs, d, n)
    BY NameInPushed
  <1>2. \A d \in 0 .. sd : BlockOf(Append(vs, e), ts, d) = BlockOf(vs, ts, d)
    BY <1>1, SameBlock
  <1>. QED BY <1>2, SameBlocks

LEMMA TagBound ==
  ASSUME NEW E, NEW ts \in Seq(E), NEW e \in E, NEW vs, NEW sd \in Nat, e.depth = sd,
         NEW t \in Tags, e.name = t
  PROVE  BlocksOf(vs, Append(ts, e), sd) = BoundTo(BlocksOf(vs, ts, sd), TagKey(t), TagEntity(e.ty))
  <1>1. ASSUME NEW d \in 0 .. sd, NEW key \in Keys
        PROVE  BlockOf(vs, Append(ts, e), d)[key] =
                 IF d = sd /\ key = TagKey(t) THEN TagEntity(e.ty) ELSE BlockOf(vs, ts, d)[key]
    <2>1. CASE key[1] = "tag" /\ key[2] \in Tags /\ key = TagKey(key[2])
      <3>1. BlockOf(vs, Append(ts, e), d)[key] = TagIn(Append(ts, e), d, key[2])
            /\ BlockOf(vs, ts, d)[key] = TagIn(ts, d, key[2])
        BY <2>1 DEF BlockOf
      <3>2. key = TagKey(t) <=> key[2] = t
        BY <2>1, KeyFields
      <3>3. TagIn(Append(ts, e), d, key[2]) =
              IF e.name = key[2] /\ e.depth = d THEN TagEntity(e.ty) ELSE TagIn(ts, d, key[2])
        BY TagInPushed
      <3>. QED BY <3>1, <3>2, <3>3
    <2>2. CASE key[1] = "name" /\ key[2] \in KeyNames /\ key = NameKey(key[2])
      <3>1. key # TagKey(t)
        BY <2>2, KeyFields
      <3>. QED BY <2>2, <3>1 DEF BlockOf
    <2>. QED BY <2>1, <2>2, KeysAre
  <1>2. TagKey(t) \in Keys
    BY KeysAre
  <1>. QED BY <1>1, <1>2, BoundAt

\* enter_scope() opens an empty block.
LEMMA BlockOpened ==
  ASSUME NEW vs, NEW ts, NEW sd \in Nat,
         \A i \in DOMAIN vs : vs[i].depth # sd + 1, \A i \in DOMAIN ts : ts[i].depth # sd + 1
  PROVE  BlocksOf(vs, ts, sd + 1) = Append(BlocksOf(vs, ts, sd), B!Unbound)
  <1>1. BlockOf(vs, ts, sd + 1) = B!Unbound
    <2>1. \A n : NameIn(vs, sd + 1, n) = None /\ TagIn(ts, sd + 1, n) = None
      BY NothingIn
    <2>. QED BY <2>1 DEF BlockOf, B!Unbound
  <1>. DEFINE bs == BlocksOf(vs, ts, sd)
              cs == BlocksOf(vs, ts, sd + 1)
              S == {BlockOf(vs, ts, d) : d \in Nat}
  <1>2. sd + 1 \in Nat /\ (sd + 1) + 1 \in Nat
    OBVIOUS
  <1>3. \A d \in 1 .. (sd + 1) + 1 : d - 1 \in Nat
    OBVIOUS
  <1>4. bs \in [1 .. sd + 1 -> S] /\ cs \in [1 .. (sd + 1) + 1 -> S]
    BY <1>2, <1>3 DEF BlocksOf
  <1>5. B!Unbound \in S
    BY <1>1, <1>2
  <1>6. /\ Len(bs) = sd + 1 /\ Len(cs) = Len(bs) + 1
        /\ \A d \in 1 .. sd + 1 : cs[d] = bs[d]
        /\ cs[(sd + 1) + 1] = B!Unbound
    <2>1. (sd + 1) + 1 \in 1 .. (sd + 1) + 1 /\ ((sd + 1) + 1) - 1 = sd + 1
      OBVIOUS
    <2>2. \A d \in 1 .. sd + 1 : d \in 1 .. (sd + 1) + 1
      OBVIOUS
    <2>. QED BY <1>1, <1>2, <2>1, <2>2, BlocksList
  <1>. HIDE DEF bs, cs, S
  <1>7. bs \in Seq(S) /\ cs \in Seq(S)
    BY <1>2, <1>4, FunctionIsSeq
  <1>8. Append(bs, B!Unbound) = cs
    BY <1>5, <1>6, <1>7, AppendIs
  <1>. QED BY <1>8 DEF bs, cs

\* leave_scope() closes the innermost block and changes no other.
LEMMA BlockClosed ==
  ASSUME NEW E, NEW vs \in Seq(E), Depths(vs), Sorted(vs),
         NEW F, NEW ts \in Seq(F), Depths(ts), Sorted(ts), NEW sd \in Nat \ {0}
  PROVE  BlocksOf(UpTo(vs, sd - 1), UpTo(ts, sd - 1), sd - 1) = SubSeq(BlocksOf(vs, ts, sd), 1, sd)
  <1>1. ASSUME NEW d \in 1 .. sd
        PROVE  BlockOf(UpTo(vs, sd - 1), UpTo(ts, sd - 1), d - 1) = BlockOf(vs, ts, d - 1)
    <2>1. d - 1 \in Int /\ sd - 1 \in Int /\ d - 1 <= sd - 1
      OBVIOUS
    <2>2. \A n : NameIn(UpTo(vs, sd - 1), d - 1, n) = NameIn(vs, d - 1, n)
      BY <2>1, InCut
    <2>3. \A n : TagIn(UpTo(ts, sd - 1), d - 1, n) = TagIn(ts, d - 1, n)
      BY <2>1, InCut
    <2>. QED BY <2>2, <2>3, SameBlock
  <1>2. BlocksOf(UpTo(vs, sd - 1), UpTo(ts, sd - 1), sd - 1)
          = [d \in 1 .. sd |-> BlockOf(UpTo(vs, sd - 1), UpTo(ts, sd - 1), d - 1)]
    <2>1. (sd - 1) + 1 = sd
      OBVIOUS
    <2>. QED BY <2>1 DEF BlocksOf
  <1>3. \A d \in 1 .. sd : BlocksOf(vs, ts, sd)[d] = BlockOf(vs, ts, d - 1)
    BY BlocksList
  <1>4. SubSeq(BlocksOf(vs, ts, sd), 1, sd) = [d \in 1 .. sd |-> BlocksOf(vs, ts, sd)[d]]
    OBVIOUS
  <1>. QED BY <1>1, <1>2, <1>3, <1>4
-----------------------------------------------------------------------------
(***************************************************************************)
(* The lists of the parser, and what a search of them finds                *)
(***************************************************************************)
VarNames == Names \cup {"", "__func__"}

VarEntry ==
  [name : VarNames, depth : Nat, is : {"var", "type_def", "enum"}, id : Nat, ty : Nat,
   home : {"local", "global", "extern", "none"}]

TagEntry == [name : Tags, depth : Nat, ty : Nat \ {0}]

ListsOK ==
  /\ var_scope \in Seq(VarEntry) /\ tag_scope \in Seq(TagEntry)
  /\ scope_depth \in Nat
  /\ Sorted(var_scope) /\ \A i \in DOMAIN var_scope : var_scope[i].depth <= scope_depth
  /\ Sorted(tag_scope) /\ \A i \in DOMAIN tag_scope : tag_scope[i].depth <= scope_depth

LEMMA EntryFields ==
  ASSUME ListsOK
  PROVE  /\ Depths(var_scope) /\ Depths(tag_scope) /\ Sorted(var_scope) /\ Sorted(tag_scope)
         /\ \A i \in DOMAIN var_scope :
              /\ var_scope[i] \in VarEntry /\ var_scope[i].depth \in 0 .. scope_depth
              /\ var_scope[i].is \in {"var", "type_def", "enum"} /\ var_scope[i].ty \in Nat
         /\ \A i \in DOMAIN tag_scope :
              /\ tag_scope[i] \in TagEntry /\ tag_scope[i].depth \in 0 .. scope_depth
              /\ tag_scope[i].ty \in Nat \ {0}
  <1>1. \A i \in DOMAIN var_scope :
          var_scope[i] \in VarEntry /\ var_scope[i].depth \in Nat /\ var_scope[i].ty \in Nat
          /\ var_scope[i].is \in {"var", "type_def", "enum"}
    <2>. SUFFICES ASSUME NEW i \in DOMAIN var_scope
                  PROVE  var_scope[i] \in VarEntry /\ var_scope[i].depth \in Nat /\ var_scope[i].ty \in Nat
                         /\ var_scope[i].is \in {"var", "type_def", "enum"}
      OBVIOUS
    <2>1. var_scope[i] \in VarEntry
      BY DEF ListsOK
    <2>. QED BY <2>1 DEF VarEntry
  <1>2. \A i \in DOMAIN tag_scope :
          tag_scope[i] \in TagEntry /\ tag_scope[i].depth \in Nat /\ tag_scope[i].ty \in Nat \ {0}
    <2>. SUFFICES ASSUME NEW i \in DOMAIN tag_scope
                  PROVE  tag_scope[i] \in TagEntry /\ tag_scope[i].depth \in Nat
                         /\ tag_scope[i].ty \in Nat \ {0}
      OBVIOUS
    <2>1. tag_scope[i] \in TagEntry
      BY DEF ListsOK
    <2>. QED BY <2>1 DEF TagEntry
  <1>. QED BY <1>1, <1>2 DEF ListsOK, Depths

LEMMA Binders ==
  ASSUME ListsOK, NEW k \in Keys
  PROVE  B!Binders(k) = {d \in 1 .. scope_depth + 1 : BlockOf(var_scope, tag_scope, d - 1)[k] # None}
  <1>1. scope_depth \in Nat
    BY DEF ListsOK
  <1>. QED BY <1>1, BarIs, BlocksList DEF B!Binders

\* The meaning of a key is what the innermost block says that binds it.
LEMMA MeaningIs ==
  ASSUME ListsOK, NEW k \in Keys, NEW d \in 0 .. scope_depth,
         BlockOf(var_scope, tag_scope, d)[k] # None,
         \A e \in 0 .. scope_depth : BlockOf(var_scope, tag_scope, e)[k] # None => e <= d
  PROVE  B!Meaning(k) = BlockOf(var_scope, tag_scope, d)[k]
  <1>1. scope_depth \in Nat /\ scope_depth + 1 \in Nat
    BY DEF ListsOK
  <1>2. /\ B!Binders(k) \in SUBSET (1 .. scope_depth + 1) /\ d + 1 \in B!Binders(k)
        /\ \A e \in B!Binders(k) : e <= d + 1
    <2>1. (d + 1) - 1 = d /\ d + 1 \in 1 .. scope_depth + 1
      BY <1>1
    <2>2. \A e \in 1 .. scope_depth + 1 : e - 1 \in 0 .. scope_depth /\ (e - 1 <= d => e <= d + 1)
      BY <1>1
    <2>. QED BY <2>1, <2>2, Binders
  <1>3. Largest(B!Binders(k)) = d + 1
    BY <1>1, <1>2, LargestIs
  <1>4. blocksBar[d + 1] = BlockOf(var_scope, tag_scope, (d + 1) - 1) /\ (d + 1) - 1 = d
    BY <1>1, BarIs, BlocksList
  <1>. QED BY <1>2, <1>3, <1>4 DEF B!Meaning, Largest

LEMMA MeaningNone ==
  ASSUME ListsOK, NEW k \in Keys,
         \A e \in 0 .. scope_depth : BlockOf(var_scope, tag_scope, e)[k] = None
  PROVE  B!Meaning(k) = None
  <1>1. scope_depth \in Nat
    BY DEF ListsOK
  <1>2. \A e \in 1 .. scope_depth + 1 : e - 1 \in 0 .. scope_depth
    BY <1>1
  <1>3. B!Binders(k) = {}
    BY <1>2, Binders
  <1>. QED BY <1>3 DEF B!Meaning

LEMMA EntityFields ==
  /\ \A sc : Entity(sc)[1] = sc.is /\ Entity(sc) = <<sc.is, sc.id>>
  /\ \A sc : sc.is # "none" => Entity(sc) # None
  /\ None[1] = "none" /\ \A ty : TagEntity(ty) # None
  /\ \A ty, sc : TagEntity(ty)[1] = "tag"
  BY DEF Entity, None, TagEntity

LEMMA Nothing ==
  /\ NoVar.is = "none" /\ NoTag.ty = 0 /\ Entity(NoVar) = None
  BY Zenon DEF NoVar, NoTag, Entity, None, NoType

\* find_var() finds the innermost declaration.
LEMMA FindVar ==
  ASSUME ListsOK, NEW n \in KeyNames
  PROVE  /\ Entity(find_var(n)) = B!Meaning(NameKey(n))
         /\ find_var(n).is \in {"var", "type_def", "enum", "none"}
  <1>1. NameKey(n) \in Keys /\ scope_depth \in Nat /\ var_scope \in Seq(VarEntry)
    BY KeysAre DEF ListsOK
  <1>2. \A d \in 0 .. scope_depth :
          BlockOf(var_scope, tag_scope, d)[NameKey(n)] = NameIn(var_scope, d, n)
    BY BlockBinds
  <1>3. CASE Called(var_scope, n) = {}
    <2>1. find_var(n) = NoVar
      BY <1>3 DEF find_var
    <2>2. \A d : NameIn(var_scope, d, n) = None
      BY <1>3 DEF NameIn, At
    <2>. QED BY <1>1, <1>2, <2>1, <2>2, MeaningNone, Nothing
  <1>4. CASE Called(var_scope, n) # {}
    <2>. DEFINE i == Largest(Called(var_scope, n))
                d == var_scope[i].depth
    <2>1. /\ i \in Called(var_scope, n) /\ d \in Nat
          /\ Largest(At(var_scope, d, n)) = i /\ At(var_scope, d, n) # {}
          /\ \A e \in Nat : At(var_scope, e, n) # {} => e <= d
      BY <1>1, <1>4, EntryFields, FoundInnermost
    <2>2. find_var(n) = var_scope[i]
      BY <1>4 DEF find_var
    <2>. HIDE DEF i
    <2>3. i \in DOMAIN var_scope
      BY <2>1 DEF Called
    <2>4. d \in 0 .. scope_depth /\ var_scope[i].is \in {"var", "type_def", "enum"}
      BY <2>3, EntryFields
    <2>. HIDE DEF d
    <2>5. NameIn(var_scope, d, n) = Entity(var_scope[i]) /\ Entity(var_scope[i]) # None
      BY <2>1, <2>4, EntityFields DEF NameIn
    <2>6. \A e \in 0 .. scope_depth : NameIn(var_scope, e, n) # None => e <= d
      BY <1>1, <2>1 DEF NameIn
    <2>7. B!Meaning(NameKey(n)) = BlockOf(var_scope, tag_scope, d)[NameKey(n)]
      BY <1>1, <1>2, <2>4, <2>5, <2>6, MeaningIs
    <2>. QED BY <1>2, <2>2, <2>4, <2>5, <2>7
  <1>. QED BY <1>3, <1>4

\* find_tag() finds the innermost tag; it is of this scope iff this block binds it.
LEMMA FindTag ==
  ASSUME ListsOK, NEW t \in Tags
  PROVE  \/ /\ find_tag(t) = NoTag /\ B!Meaning(TagKey(t)) = None
            /\ blocksBar[Len(blocksBar)][TagKey(t)] = None
         \/ /\ find_tag(t) # NoTag /\ B!Meaning(TagKey(t)) # None
            /\ find_tag(t) \in TagEntry
            /\ \E i \in DOMAIN tag_scope : find_tag(t) = tag_scope[i]
            /\ TagEntity(find_tag(t).ty) = B!Meaning(TagKey(t))
            /\ (find_tag(t).depth = scope_depth <=> blocksBar[Len(blocksBar)][TagKey(t)] # None)
  <1>1. TagKey(t) \in Keys /\ scope_depth \in Nat /\ tag_scope \in Seq(TagEntry)
    BY KeysAre DEF ListsOK
  <1>2. \A d \in 0 .. scope_depth :
          BlockOf(var_scope, tag_scope, d)[TagKey(t)] = TagIn(tag_scope, d, t)
    BY BlockBinds
  <1>3. blocksBar[Len(blocksBar)][TagKey(t)] = TagIn(tag_scope, scope_depth, t)
    <2>1. Len(blocksBar) = scope_depth + 1 /\ (scope_depth + 1) - 1 = scope_depth
      BY <1>1, BarIs, BlocksList
    <2>2. blocksBar[scope_depth + 1] = BlockOf(var_scope, tag_scope, (scope_depth + 1) - 1)
      BY <1>1, BarIs, BlocksList
    <2>. QED BY <1>1, <1>2, <2>1, <2>2
  <1>4. CASE Called(tag_scope, t) = {}
    <2>1. find_tag(t) = NoTag
      BY <1>4 DEF find_tag
    <2>2. \A d : TagIn(tag_scope, d, t) = None
      BY <1>4 DEF TagIn, At
    <2>. QED BY <1>1, <1>2, <1>3, <2>1, <2>2, MeaningNone
  <1>5. CASE Called(tag_scope, t) # {}
    <2>. DEFINE i == Largest(Called(tag_scope, t))
                d == tag_scope[i].depth
    <2>1. /\ i \in Called(tag_scope, t) /\ d \in Nat
          /\ Largest(At(tag_scope, d, t)) = i /\ At(tag_scope, d, t) # {}
          /\ \A e \in Nat : At(tag_scope, e, t) # {} => e <= d
      BY <1>1, <1>5, EntryFields, FoundInnermost
    <2>2. find_tag(t) = tag_scope[i]
      BY <1>5 DEF find_tag
    <2>. HIDE DEF i
    <2>3. i \in DOMAIN tag_scope
      BY <2>1 DEF Called
    <2>4. d \in 0 .. scope_depth /\ tag_scope[i] \in TagEntry /\ tag_scope[i].ty # 0
      BY <2>3, EntryFields
    <2>5. TagIn(tag_scope, d, t) = TagEntity(tag_scope[i].ty) /\ TagIn(tag_scope, d, t) # None
      <3>. HIDE DEF d
      <3>. QED BY <2>1, EntityFields DEF TagIn
    <2>6. \A e \in 0 .. scope_depth : TagIn(tag_scope, e, t) # None => e <= d
      <3>. HIDE DEF d
      <3>. QED BY <1>1, <2>1 DEF TagIn
    <2>7. B!Meaning(TagKey(t)) = BlockOf(var_scope, tag_scope, d)[TagKey(t)]
      <3>. HIDE DEF d
      <3>. QED BY <1>1, <1>2, <2>4, <2>5, <2>6, MeaningIs
    <2>8. find_tag(t) # NoTag
      BY <2>2, <2>4, Nothing
    <2>9. d = scope_depth <=> TagIn(tag_scope, scope_depth, t) # None
      <3>1. TagIn(tag_scope, scope_depth, t) # None => scope_depth <= d
        BY <1>1, <2>6
      <3>. QED BY <1>1, <2>4, <2>5, <3>1
    <2>. QED BY <1>2, <1>3, <2>2, <2>3, <2>4, <2>5, <2>7, <2>8, <2>9
  <1>. QED BY <1>4, <1>5
-----------------------------------------------------------------------------
(***************************************************************************)
(* The open calls of the parser                                            *)
(***************************************************************************)
Loops == {"for_init", "for_head", "for_body", "for_end"}
Inner == Loops \cup {"decl", "enum", "block"}

\* The calls that have entered a scope and not left it
Scoped == Loops \cup {"params", "ident", "function", "block"}
Places == Scoped \cup {"decl", "enum", "function_decl"}

TagNames == Tags \cup {""}

CallRec == [at : Places, attr : Attributes \cup {"sizeof"}, ty : Nat, tag : TagNames]

Opened(c) == {i \in DOMAIN c : c[i].at \in Scoped}
Enums(c) == {i \in DOMAIN c : c[i].at = "enum"}

\* At file level, in the head of a function, in its body
FileCalls(c) ==
  \A i \in DOMAIN c : /\ c[i].at \in {"decl", "enum"}
                      /\ i = 1 => c[i].attr # "sizeof"
                      /\ i > 1 => c[i].at = "enum" /\ c[i].attr = "sizeof"

HeadCalls(c) == Len(c) = 1 /\ c[1].at \in {"function_decl", "params", "ident"}

BodyCalls(c) ==
  c # <<>> /\ c[1].at = "function" /\ \A i \in DOMAIN c : i > 1 => c[i].at \in Inner

Shape(c) == FileCalls(c) \/ HeadCalls(c) \/ BodyCalls(c)

LEMMA CallIs ==
  ASSUME NEW at \in Places
  PROVE  Call(at) \in CallRec /\ Call(at).at = at /\ Call(at).ty = NoType
  <1>1. "none" \in Attributes \cup {"sizeof"} /\ NoType \in Nat /\ "" \in TagNames
    BY Zenon DEF Attributes, NoType, TagNames
  <1>. QED BY <1>1, Zenon DEF Call, CallRec

LEMMA CallFields ==
  ASSUME NEW c \in Seq(CallRec), NEW i \in DOMAIN c
  PROVE  /\ c[i] \in CallRec /\ c[i].at \in Places /\ c[i].attr \in Attributes \cup {"sizeof"}
         /\ c[i].ty \in Nat /\ c[i].tag \in TagNames
  <1>1. c[i] \in CallRec
    OBVIOUS
  <1>. QED BY <1>1 DEF CallRec

LEMMA OpenedFinite ==
  ASSUME NEW c \in Seq(CallRec)
  PROVE  IsFiniteSet(Opened(c)) /\ Cardinality(Opened(c)) \in Nat
  <1>1. IsFiniteSet(1 .. Len(c))
    BY FS_Interval
  <1>2. Opened(c) \in SUBSET (1 .. Len(c))
    BY DEF Opened
  <1>3. IsFiniteSet(Opened(c))
    BY <1>1, <1>2, FS_Subset
  <1>. QED BY <1>3, FS_CardinalityType

\* A call begins.
LEMMA CallBegins ==
  ASSUME NEW c \in Seq(CallRec), NEW e \in CallRec
  PROVE  /\ Append(c, e) \in Seq(CallRec) /\ Len(Append(c, e)) = Len(c) + 1
         /\ \A i \in DOMAIN c : Append(c, e)[i] = c[i]
         /\ Append(c, e)[Len(c) + 1] = e
         /\ Cardinality(Opened(Append(c, e)))
              = Cardinality(Opened(c)) + (IF e.at \in Scoped THEN 1 ELSE 0)
         /\ Enums(Append(c, e)) = Enums(c) \cup (IF e.at = "enum" THEN {Len(c) + 1} ELSE {})
  <1>. DEFINE t == Append(c, e)
  <1>1. /\ t \in Seq(CallRec) /\ Len(t) = Len(c) + 1 /\ Len(c) \in Nat
        /\ DOMAIN c = 1 .. Len(c) /\ DOMAIN t = 1 .. Len(c) + 1
        /\ \A i \in DOMAIN c : t[i] = c[i]
        /\ t[Len(c) + 1] = e
    OBVIOUS
  <1>. HIDE DEF t
  <1>2. DOMAIN t = DOMAIN c \cup {Len(c) + 1} /\ Len(c) + 1 \notin DOMAIN c
    BY <1>1
  <1>3. Opened(t) = IF e.at \in Scoped THEN Opened(c) \cup {Len(c) + 1} ELSE Opened(c)
    BY <1>1, <1>2 DEF Opened
  <1>4. Len(c) + 1 \notin Opened(c)
    BY <1>2 DEF Opened
  <1>5. Cardinality(Opened(c) \cup {Len(c) + 1}) = Cardinality(Opened(c)) + 1
    BY <1>4, OpenedFinite, FS_AddElement
  <1>6. Cardinality(Opened(t)) = Cardinality(Opened(c)) + (IF e.at \in Scoped THEN 1 ELSE 0)
    BY <1>3, <1>5, OpenedFinite
  <1>7. Enums(t) = Enums(c) \cup (IF e.at = "enum" THEN {Len(c) + 1} ELSE {})
    BY <1>1, <1>2 DEF Enums
  <1>. QED BY <1>1, <1>6, <1>7 DEF t

\* A call ends.
Before(c) == SubSeq(c, 1, Len(c) - 1)

LEMMA CallEnds ==
  ASSUME NEW c \in Seq(CallRec), c # <<>>
  PROVE  /\ Len(c) \in Nat \ {0}
         /\ Before(c) \in Seq(CallRec) /\ Len(Before(c)) = Len(c) - 1
         /\ \A i \in 1 .. Len(c) - 1 : Before(c)[i] = c[i]
         /\ Cardinality(Opened(c))
              = Cardinality(Opened(Before(c))) + (IF c[Len(c)].at \in Scoped THEN 1 ELSE 0)
         /\ Enums(Before(c)) = Enums(c) \ {Len(c)}
         /\ Shape(c) => Shape(Before(c))
         /\ BodyCalls(c) /\ Len(c) > 1 => BodyCalls(Before(c))
  <1>. DEFINE b == Before(c)
              e == c[Len(c)]
  <1>1. /\ Len(c) \in Nat \ {0} /\ b \in Seq(CallRec) /\ Len(b) = Len(c) - 1
        /\ \A i \in 1 .. Len(c) - 1 : b[i] = c[i]
    BY PopProperties DEF Before
  <1>2. e \in CallRec
    BY <1>1
  <1>. HIDE DEF b
  <1>3. Append(b, e) = c
    BY <1>1, <1>2, AppendIs
  <1>4. Cardinality(Opened(c)) = Cardinality(Opened(b)) + (IF e.at \in Scoped THEN 1 ELSE 0)
    <2>. HIDE DEF e
    <2>. QED BY <1>1, <1>2, <1>3, CallBegins
  <1>. HIDE DEF e
  <1>5. DOMAIN c = 1 .. Len(c) /\ DOMAIN b = 1 .. Len(c) - 1 /\ DOMAIN b = DOMAIN c \ {Len(c)}
    <2>1. DOMAIN c = 1 .. Len(c) /\ DOMAIN b = 1 .. Len(c) - 1
      BY <1>1
    <2>2. \A n \in Nat \ {0} : 1 .. n - 1 = (1 .. n) \ {n}
      OBVIOUS
    <2>. QED BY <1>1, <2>1, <2>2
  <1>6. Enums(b) = Enums(c) \ {Len(c)}
    BY <1>1, <1>5 DEF Enums
  <1>7. BodyCalls(c) /\ Len(c) > 1 => BodyCalls(b)
    BY <1>1, <1>5 DEF BodyCalls
  <1>8. Len(c) = 1 => FileCalls(b)
    BY <1>1, <1>5 DEF FileCalls
  <1>9. FileCalls(c) => FileCalls(b)
    BY <1>1, <1>5 DEF FileCalls
  <1>10. Shape(c) => Shape(b)
    BY <1>1, <1>7, <1>8, <1>9 DEF Shape, HeadCalls
  <1>. QED BY <1>1, <1>4, <1>6, <1>7, <1>10 DEF b, e

\* What is read goes on in the next part of a for statement.
Same(c, t) ==
  /\ t \in Seq(CallRec) /\ Len(t) = Len(c)
  /\ \A i \in DOMAIN c : \/ t[i] = c[i]
                         \/ c[i].at \in Loops /\ t[i].at \in Loops /\ t[i].ty = NoType

LEMMA SameFacts ==
  ASSUME NEW c \in Seq(CallRec), NEW t, Same(c, t)
  PROVE  /\ Opened(t) = Opened(c) /\ Enums(t) = Enums(c)
         /\ \A i \in Enums(c) : t[i] = c[i]
         /\ Shape(c) => Shape(t)
         /\ BodyCalls(c) => BodyCalls(t)
         /\ FileCalls(c) => t = c
  <1>1. DOMAIN t = DOMAIN c /\ DOMAIN c = 1 .. Len(c) /\ t \in Seq(CallRec) /\ Len(t) = Len(c)
    BY DEF Same
  <1>2. \A x \in Loops : x \in Scoped /\ x # "enum" /\ x \in Inner /\ x \notin {"decl", "enum"}
                         /\ x \notin {"function_decl", "params", "ident"} /\ x # "function"
    BY DEF Loops, Scoped, Inner
  <1>3. \A i \in DOMAIN c : /\ t[i].at \in Scoped <=> c[i].at \in Scoped
                            /\ t[i].at = "enum" <=> c[i].at = "enum"
                            /\ c[i].at \in Inner => t[i].at \in Inner
                            /\ c[i].at \notin Loops => t[i] = c[i]
    BY <1>2 DEF Same
  <1>4. Opened(t) = Opened(c) /\ Enums(t) = Enums(c)
    BY <1>1, <1>3 DEF Opened, Enums
  <1>5. \A i \in Enums(c) : t[i] = c[i]
    BY <1>2, <1>3 DEF Enums
  <1>6. BodyCalls(c) => BodyCalls(t)
    <2>. SUFFICES ASSUME BodyCalls(c)
                  PROVE  BodyCalls(t)
      OBVIOUS
    <2>1. 1 \in DOMAIN c /\ c[1].at = "function"
      BY <1>1 DEF BodyCalls
    <2>2. t[1] = c[1] /\ t # <<>>
      BY <1>1, <1>2, <1>3, <2>1
    <2>. QED BY <1>1, <1>3, <2>1, <2>2 DEF BodyCalls
  <1>7. FileCalls(c) => t = c
    <2>. SUFFICES ASSUME FileCalls(c)
                  PROVE  t = c
      OBVIOUS
    <2>1. \A i \in DOMAIN c : t[i] = c[i]
      BY <1>2, <1>3 DEF FileCalls
    <2>. QED BY <1>1, <2>1, SeqEqual
  <1>8. HeadCalls(c) => HeadCalls(t)
    <2>. SUFFICES ASSUME HeadCalls(c)
                  PROVE  HeadCalls(t)
      OBVIOUS
    <2>1. t[1] = c[1]
      BY <1>1, <1>2, <1>3 DEF HeadCalls
    <2>. QED BY <1>1, <2>1 DEF HeadCalls
  <1>. QED BY <1>4, <1>5, <1>6, <1>7, <1>8 DEF Shape

\* The last call becomes another.
LEMMA LastBecomes ==
  ASSUME NEW c \in Seq(CallRec), c # <<>>, c[Len(c)].at \in Loops, NEW at \in Loops
  PROVE  Same(c, Append(SubSeq(c, 1, Len(c) - 1), Call(at)))
  <1>1. /\ Len(c) \in Nat \ {0} /\ Before(c) \in Seq(CallRec) /\ Len(Before(c)) = Len(c) - 1
        /\ \A i \in 1 .. Len(c) - 1 : Before(c)[i] = c[i]
    BY CallEnds
  <1>2. Call(at) \in CallRec /\ Call(at).at = at /\ Call(at).ty = NoType
    BY CallIs DEF Places, Scoped
  <1>. DEFINE t == Append(Before(c), Call(at))
  <1>3. /\ t \in Seq(CallRec) /\ Len(t) = Len(c) /\ t[Len(c)] = Call(at)
        /\ \A i \in 1 .. Len(c) - 1 : t[i] = c[i]
    BY <1>1, <1>2
  <1>. HIDE DEF t
  <1>4. \A i \in DOMAIN c : i = Len(c) \/ i \in 1 .. Len(c) - 1
    BY <1>1
  <1>5. Same(c, t)
    BY <1>2, <1>3, <1>4 DEF Same
  <1>. QED BY <1>5 DEF t, Before

LEMMA SameItself == \A c \in Seq(CallRec) : Same(c, c)
  BY DEF Same

LEMMA StatementRead ==
  ASSUME NEW c \in Seq(CallRec), c # <<>>
  PROVE  Same(c, AfterStatement(c))
  <1>1. CASE c[Len(c)].at = "for_body"
    <2>1. "for_body" \in Loops /\ "for_end" \in Loops
      BY DEF Loops
    <2>. QED BY <1>1, <2>1, LastBecomes DEF AfterStatement
  <1>2. CASE c[Len(c)].at # "for_body"
    BY <1>2, SameItself DEF AfterStatement
  <1>. QED BY <1>1, <1>2

LEMMA DeclIs ==
  ASSUME NEW attr \in Attributes, NEW ty \in Nat
  PROVE  LET e == [at |-> "decl", attr |-> attr, ty |-> ty, tag |-> ""]
         IN e \in CallRec /\ e.at = "decl" /\ e.attr = attr /\ e.ty = ty
  <1>1. "decl" \in Places /\ attr \in Attributes \cup {"sizeof"} /\ "" \in TagNames
    BY Zenon DEF Places, TagNames
  <1>. QED BY <1>1, Zenon DEF CallRec

\* typespec() has been read, for a declaration or for the type name of a sizeof.
LEMMA SpecifiedDeclares ==
  ASSUME NEW c \in Seq(CallRec), NEW attr \in Attributes, NEW ty \in Nat, Specified(c, attr, ty)
  PROVE  \E m, e : /\ Same(c, m) /\ e \in CallRec /\ e.at = "decl" /\ e.attr = attr /\ e.ty = ty
                   /\ running' = Append(m, e)
  <1>. DEFINE m == IF c # <<>> /\ c[Len(c)].at = "for_init"
                   THEN Append(SubSeq(c, 1, Len(c) - 1), Call("for_head")) ELSE c
              e == [at |-> "decl", attr |-> attr, ty |-> ty, tag |-> ""]
  <1>1. attr # "sizeof"
    BY DEF Attributes
  <1>2. running' = Append(m, e)
    BY <1>1, Zenon DEF Specified
  <1>3. Same(c, m)
    <2>1. CASE c # <<>> /\ c[Len(c)].at = "for_init"
      <3>1. "for_init" \in Loops /\ "for_head" \in Loops
        BY DEF Loops
      <3>. QED BY <2>1, <3>1, LastBecomes
    <2>2. CASE ~ (c # <<>> /\ c[Len(c)].at = "for_init")
      BY <2>2, SameItself
    <2>. QED BY <2>1, <2>2
  <1>4. e \in CallRec /\ e.at = "decl" /\ e.attr = attr /\ e.ty = ty
    BY DeclIs, Zenon
  <1>. HIDE DEF m, e
  <1>. QED BY <1>2, <1>3, <1>4

LEMMA SpecifiedSizeof ==
  ASSUME NEW c \in Seq(CallRec), c # <<>>, NEW ty, Specified(c, "sizeof", ty)
  PROVE  Same(c, running')
  BY StatementRead, Zenon DEF Specified

CallsOK ==
  running \in Seq(CallRec) /\ Shape(running) /\ scope_depth = Cardinality(Opened(running))

\* No list of an enum begins.
KeepsEnums(c, t) == Enums(t) \subseteq Enums(c) /\ \A i \in Enums(t) : t[i] = c[i]

\* The call t[Len(t)] has replaced or ended the last call of c, or follows it.
CallsGoOn(c, t, scopes) ==
  /\ t \in Seq(CallRec) /\ Shape(t) /\ KeepsEnums(c, t)
  /\ Cardinality(Opened(t)) = Cardinality(Opened(c)) + scopes

\* What the place where the parser stands says of the calls that are open
LEMMA Where ==
  ASSUME CallsOK
  PROVE  /\ Top.at = "file" => running = <<>>
         /\ Top.at # "file" => /\ running # <<>> /\ Len(running) \in Nat \ {0}
                               /\ Top = running[Len(running)] /\ Top \in CallRec
                               /\ Top.at \in Places /\ Top.attr \in Attributes \cup {"sizeof"}
                               /\ Top.ty \in Nat /\ Top.tag \in TagNames
         /\ Top.at \in {"block"} \cup Loops => BodyCalls(running)
         /\ Top.at = "function" => BodyCalls(running) /\ Len(running) = 1
         /\ Top.at \in {"function_decl", "params", "ident"} => HeadCalls(running)
         /\ Top.at = "decl" => BodyCalls(running) \/ (FileCalls(running) /\ Len(running) = 1)
         /\ Top.at = "enum" => BodyCalls(running) \/ FileCalls(running)
         /\ Top.at = "enum" /\ FileCalls(running) =>
              (Len(running) = 1 <=> Top.attr # "sizeof")
         /\ InFunction <=> BodyCalls(running)
  <1>1. running \in Seq(CallRec) /\ Shape(running)
    BY DEF CallsOK
  <1>2. CASE running = <<>>
    <2>1. Top.at = "file"
      BY <1>2, Zenon DEF Top, Call
    <2>2. ~ BodyCalls(running) /\ ~ InFunction
      BY <1>2 DEF BodyCalls, InFunction
    <2>3. "file" \notin {"block"} \cup Loops
      BY DEF Loops
    <2>. QED BY <1>2, <2>1, <2>2, <2>3
  <1>3. CASE running # <<>>
    <2>1. Len(running) \in Nat \ {0} /\ Len(running) \in DOMAIN running /\ 1 \in DOMAIN running
          /\ DOMAIN running = 1 .. Len(running)
      BY <1>1, <1>3
    <2>2. Top = running[Len(running)]
      BY <1>3 DEF Top
    <2>3. /\ Top \in CallRec /\ Top.at \in Places /\ Top.attr \in Attributes \cup {"sizeof"}
          /\ Top.ty \in Nat /\ Top.tag \in TagNames
      BY <1>1, <2>1, <2>2, CallFields
    <2>4. Top.at # "file"
      BY <2>3 DEF Places, Scoped, Loops
    <2>5. Len(running) = 1 \/ Len(running) > 1
      BY <2>1
    <2>6. /\ FileCalls(running) => /\ Top.at \in {"decl", "enum"}
                                   /\ Len(running) = 1 => Top.attr # "sizeof"
                                   /\ Len(running) > 1 => Top.at = "enum" /\ Top.attr = "sizeof"
          /\ FileCalls(running) => running[1].at \in {"decl", "enum"}
      BY <2>1, <2>2 DEF FileCalls
    <2>7. HeadCalls(running) => Top.at \in {"function_decl", "params", "ident"}
      BY <2>2 DEF HeadCalls
    <2>8. BodyCalls(running) => /\ Len(running) = 1 => Top.at = "function"
                                /\ Len(running) > 1 => Top.at \in Inner
                                /\ running[1].at = "function"
      BY <2>1, <2>2 DEF BodyCalls
    <2>9. /\ "function" \notin Inner /\ \A x \in {"function_decl", "params", "ident"} : x \notin Inner
          /\ \A x \in {"block"} \cup Loops : x \notin {"decl", "enum", "function_decl", "params", "ident"}
      BY DEF Inner, Loops
    <2>10. InFunction <=> BodyCalls(running)
      BY <1>1, <1>3, <2>6, <2>7, <2>8 DEF InFunction, Shape, HeadCalls
    <2>. QED BY <1>1, <1>3, <2>1, <2>2, <2>3, <2>4, <2>5, <2>6, <2>7, <2>8, <2>9, <2>10 DEF Shape
  <1>. QED BY <1>2, <1>3

LEMMA SameGoesOn ==
  ASSUME NEW c \in Seq(CallRec), Shape(c), NEW t, Same(c, t)
  PROVE  CallsGoOn(c, t, 0)
  <1>1. /\ Opened(t) = Opened(c) /\ Enums(t) = Enums(c) /\ \A i \in Enums(c) : t[i] = c[i]
        /\ Shape(t) /\ t \in Seq(CallRec)
    BY SameFacts DEF Same
  <1>2. Cardinality(Opened(c)) \in Nat
    BY OpenedFinite
  <1>. QED BY <1>1, <1>2 DEF CallsGoOn, KeepsEnums

\* A call may follow in the body of a function, and at file level a declaration,
\* the list of its enum, and the type name of a sizeof in that.
LEMMA CallFollows ==
  ASSUME NEW c \in Seq(CallRec), NEW e \in CallRec, e.at \in Inner,
         \/ BodyCalls(c)
         \/ c = <<>> /\ e.at \in {"decl", "enum"} /\ e.attr # "sizeof"
         \/ c # <<>> /\ FileCalls(c) /\ e.at = "enum" /\ e.attr = "sizeof"
  PROVE  Shape(Append(c, e)) /\ (BodyCalls(c) => BodyCalls(Append(c, e)))
  <1>. DEFINE t == Append(c, e)
  <1>1. /\ t \in Seq(CallRec) /\ Len(t) = Len(c) + 1 /\ Len(c) \in Nat
        /\ DOMAIN c = 1 .. Len(c) /\ DOMAIN t = 1 .. Len(c) + 1
        /\ \A i \in DOMAIN c : t[i] = c[i]
        /\ t[Len(c) + 1] = e /\ t # <<>>
    OBVIOUS
  <1>. HIDE DEF t
  <1>2. \A i \in DOMAIN t : i \in DOMAIN c \/ i = Len(c) + 1
    BY <1>1
  <1>3. BodyCalls(c) => BodyCalls(t)
    <2>. SUFFICES ASSUME BodyCalls(c)
                  PROVE  BodyCalls(t)
      OBVIOUS
    <2>1. c # <<>> /\ c[1].at = "function" /\ \A i \in DOMAIN c : i > 1 => c[i].at \in Inner
      BY DEF BodyCalls
    <2>2. 1 \in DOMAIN c
      BY <1>1, <2>1
    <2>. QED BY <1>1, <1>2, <2>1, <2>2 DEF BodyCalls
  <1>4. CASE c = <<>> /\ e.at \in {"decl", "enum"} /\ e.attr # "sizeof"
    <2>1. Len(c) = 0
      BY <1>4
    <2>2. \A i \in DOMAIN t : i = 1 /\ t[i] = e
      BY <1>1, <2>1
    <2>3. FileCalls(t)
      BY <1>4, <2>2 DEF FileCalls
    <2>. QED BY <1>3, <2>3 DEF Shape, t
  <1>5. CASE c # <<>> /\ FileCalls(c) /\ e.at = "enum" /\ e.attr = "sizeof"
    <2>1. Len(c) + 1 # 1
      BY <1>1, <1>5
    <2>2. FileCalls(t)
      BY <1>1, <1>2, <1>5, <2>1 DEF FileCalls
    <2>. QED BY <1>3, <2>2 DEF Shape, t
  <1>. QED BY <1>3, <1>4, <1>5 DEF Shape, t

LEMMA CallFollowsGoesOn ==
  ASSUME NEW c \in Seq(CallRec), NEW m, Same(c, m), NEW e \in CallRec, Shape(Append(m, e)),
         e.at # "enum"
  PROVE  CallsGoOn(c, Append(m, e), IF e.at \in Scoped THEN 1 ELSE 0)
  <1>1. m \in Seq(CallRec) /\ Opened(m) = Opened(c) /\ Enums(m) = Enums(c)
        /\ \A i \in Enums(c) : m[i] = c[i]
    BY SameFacts DEF Same
  <1>2. /\ Append(m, e) \in Seq(CallRec) /\ \A i \in DOMAIN m : Append(m, e)[i] = m[i]
        /\ Cardinality(Opened(Append(m, e)))
             = Cardinality(Opened(m)) + (IF e.at \in Scoped THEN 1 ELSE 0)
        /\ Enums(Append(m, e)) = Enums(m) \cup (IF e.at = "enum" THEN {Len(m) + 1} ELSE {})
    <2>1. m \in Seq(CallRec)
      BY <1>1
    <2>. QED BY <2>1, CallBegins
  <1>3. Enums(m) \subseteq DOMAIN m
    BY DEF Enums
  <1>. QED BY <1>1, <1>2, <1>3 DEF CallsGoOn, KeepsEnums

LEMMA CallEndsGoesOn ==
  ASSUME NEW c \in Seq(CallRec), c # <<>>, Shape(c)
  PROVE  CallsGoOn(c, Before(c), IF c[Len(c)].at \in Scoped THEN -1 ELSE 0)
  <1>1. /\ Len(c) \in Nat \ {0}
        /\ Before(c) \in Seq(CallRec) /\ Len(Before(c)) = Len(c) - 1
        /\ \A i \in 1 .. Len(c) - 1 : Before(c)[i] = c[i]
        /\ Cardinality(Opened(c))
             = Cardinality(Opened(Before(c))) + (IF c[Len(c)].at \in Scoped THEN 1 ELSE 0)
        /\ Enums(Before(c)) = Enums(c) \ {Len(c)}
        /\ Shape(Before(c))
    BY CallEnds
  <1>2. Cardinality(Opened(c)) \in Nat /\ Cardinality(Opened(Before(c))) \in Nat
    BY <1>1, OpenedFinite
  <1>3. Enums(Before(c)) \subseteq 1 .. Len(c) - 1
    BY <1>1 DEF Enums
  <1>. QED BY <1>1, <1>2, <1>3 DEF CallsGoOn, KeepsEnums

LEMMA GoOnTwice ==
  ASSUME NEW c, NEW m, NEW t, NEW i \in Int, NEW j \in Int, Cardinality(Opened(c)) \in Nat,
         CallsGoOn(c, m, i), CallsGoOn(m, t, j)
  PROVE  CallsGoOn(c, t, i + j)
  <1>1. Cardinality(Opened(t)) = Cardinality(Opened(c)) + (i + j)
    BY DEF CallsGoOn
  <1>. QED BY <1>1 DEF CallsGoOn, KeepsEnums

LEMMA CallsStay ==
  ASSUME CallsOK, NEW n \in Int, CallsGoOn(running, running', n), scope_depth' = scope_depth + n
  PROVE  CallsOK'
  BY DEF CallsOK, CallsGoOn

LEMMA DeclaratorBegins ==
  ASSUME NEW c \in Seq(CallRec), c = <<>> \/ BodyCalls(c),
         NEW attr \in Attributes, NEW ty \in Nat, Specified(c, attr, ty)
  PROVE  CallsGoOn(c, running', 0)
  <1>1. PICK m, e : /\ Same(c, m) /\ e \in CallRec /\ e.at = "decl" /\ e.attr = attr
                    /\ running' = Append(m, e)
    BY SpecifiedDeclares
  <1>2. attr # "sizeof" /\ "decl" \in Inner /\ "decl" \notin Scoped
    BY DEF Attributes, Inner, Scoped, Loops
  <1>3. m \in Seq(CallRec) /\ (m = <<>> \/ BodyCalls(m))
    <2>1. c = <<>> => m = <<>>
      BY <1>1 DEF Same
    <2>2. BodyCalls(c) => BodyCalls(m)
      BY <1>1, SameFacts
    <2>. QED BY <1>1, <2>1, <2>2 DEF Same
  <1>4. Shape(Append(m, e))
    BY <1>1, <1>2, <1>3, CallFollows
  <1>. QED BY <1>1, <1>2, <1>4, CallFollowsGoesOn

\* typespec() has been read.
LEMMA SpecifierRead ==
  ASSUME CallsOK, NEW attr \in Attributes \cup {"sizeof"}, NEW ty \in Nat,
         Reads(attr), Specified(running, attr, ty)
  PROVE  CallsGoOn(running, running', 0)
  <1>1. running \in Seq(CallRec) /\ Shape(running)
    BY DEF CallsOK
  <1>2. CASE attr = "sizeof"
    <2>1. Top.at # "file"
      BY <1>2, Zenon DEF Reads, Parsing, Expressions
    <2>2. Same(running, running')
      BY <1>1, <1>2, <2>1, Where, SpecifiedSizeof
    <2>. QED BY <1>1, <2>2, SameGoesOn
  <1>3. CASE attr # "sizeof"
    <2>1. Top.at \in Declarations
      BY <1>3, Zenon DEF Reads, Parsing
    <2>2. running = <<>> \/ BodyCalls(running)
      BY <2>1, Where DEF Declarations, Loops
    <2>. QED BY <1>1, <1>3, <2>2, DeclaratorBegins
  <1>. QED BY <1>2, <1>3

\* The list of an enum has been read.
LEMMA EnumListRead ==
  ASSUME CallsOK, Top.at = "enum", Specified(Outer, Top.attr, Top.ty)
  PROVE  CallsGoOn(running, running', 0) /\ Len(running) \notin Enums(running')
  <1>1. /\ running \in Seq(CallRec) /\ Shape(running) /\ running # <<>>
        /\ Top = running[Len(running)] /\ Top.attr \in Attributes \cup {"sizeof"} /\ Top.ty \in Nat
        /\ Len(running) \in Nat \ {0}
    BY Where DEF CallsOK
  <1>2. Outer = Before(running)
    BY DEF Outer, Before
  <1>3. CallsGoOn(running, Outer, 0)
    <2>1. "enum" \notin Scoped
      BY DEF Scoped, Loops
    <2>. QED BY <1>1, <1>2, <2>1, CallEndsGoesOn
  <1>4. /\ Outer \in Seq(CallRec) /\ Len(Outer) = Len(running) - 1
        /\ Enums(Outer) = Enums(running) \ {Len(running)}
        /\ BodyCalls(running) /\ Len(running) > 1 => BodyCalls(Outer)
        /\ Shape(Outer)
    BY <1>1, <1>2, CallEnds
  <1>5. BodyCalls(running) => BodyCalls(Outer)
    <2>1. BodyCalls(running) => Len(running) # 1
      BY <1>1 DEF BodyCalls
    <2>. QED BY <1>1, <1>4, <2>1
  <1>6. CallsGoOn(Outer, running', 0)
    <2>1. CASE Top.attr = "sizeof"
      <3>1. Outer # <<>>
        <4>1. BodyCalls(Outer) => Outer # <<>>
          BY DEF BodyCalls
        <4>2. FileCalls(running) => Len(running) # 1
          BY <2>1, Where
        <4>3. Outer = <<>> => Len(running) = 1
          BY <1>1, <1>4
        <4>4. BodyCalls(running) \/ FileCalls(running)
          BY Where
        <4>. QED BY <1>5, <4>1, <4>2, <4>3, <4>4
      <3>2. Same(Outer, running')
        BY <1>4, <2>1, <3>1, SpecifiedSizeof
      <3>. QED BY <1>4, <3>2, SameGoesOn
    <2>2. CASE Top.attr # "sizeof"
      <3>1. FileCalls(running) => Outer = <<>>
        <4>1. FileCalls(running) => Len(running) = 1
          BY <2>2, Where
        <4>2. Len(running) = 1 => Outer = <<>>
          BY <1>1, <1>4
        <4>. QED BY <4>1, <4>2
      <3>2. Outer = <<>> \/ BodyCalls(Outer)
        BY <1>5, <3>1, Where
      <3>. QED BY <1>1, <1>4, <2>2, <3>2, DeclaratorBegins
    <2>. QED BY <2>1, <2>2
  <1>7. Cardinality(Opened(running)) \in Nat
    BY <1>1, OpenedFinite
  <1>8. CallsGoOn(running, running', 0 + 0)
    BY <1>3, <1>6, <1>7, GoOnTwice
  <1>9. Len(running) \notin Enums(running')
    BY <1>4, <1>6 DEF CallsGoOn, KeepsEnums
  <1>. QED BY <1>8, <1>9

\* The head of an enum has been read: a new list begins.
LEMMA EnumListBegins ==
  ASSUME CallsOK, NEW attr \in Attributes \cup {"sizeof"}, NEW ty \in Nat, Reads(attr),
         NEW e \in CallRec, e.at = "enum", e.attr = attr, e.ty = ty, running' = Append(running, e)
  PROVE  /\ running' \in Seq(CallRec) /\ Shape(running') /\ Len(running) \in Nat
         /\ Cardinality(Opened(running')) = Cardinality(Opened(running))
         /\ Enums(running') = Enums(running) \cup {Len(running) + 1}
         /\ \A i \in Enums(running) : running'[i] = running[i]
         /\ running'[Len(running) + 1].ty = ty
  <1>1. running \in Seq(CallRec) /\ Shape(running) /\ Cardinality(Opened(running)) \in Nat
    BY OpenedFinite DEF CallsOK
  <1>2. "enum" \in Inner /\ "enum" \notin Scoped
    BY DEF Inner, Scoped, Loops
  <1>3. Shape(Append(running, e))
    <2>1. CASE attr = "sizeof"
      <3>1. Top.at \in Expressions
        BY <2>1, Zenon DEF Reads, Parsing
      <3>2. /\ running # <<>>
            /\ BodyCalls(running) \/ FileCalls(running)
        BY <3>1, Where DEF Expressions, Loops
      <3>. QED BY <1>1, <1>2, <2>1, <3>2, CallFollows
    <2>2. CASE attr # "sizeof"
      <3>1. Top.at \in Declarations
        BY <2>2, Zenon DEF Reads, Parsing
      <3>2. running = <<>> \/ BodyCalls(running)
        BY <3>1, Where DEF Declarations, Loops
      <3>. QED BY <1>1, <1>2, <2>2, <3>2, CallFollows
    <2>. QED BY <2>1, <2>2
  <1>4. /\ Append(running, e) \in Seq(CallRec)
        /\ \A i \in DOMAIN running : Append(running, e)[i] = running[i]
        /\ Append(running, e)[Len(running) + 1] = e
        /\ Cardinality(Opened(Append(running, e)))
              = Cardinality(Opened(running)) + (IF e.at \in Scoped THEN 1 ELSE 0)
        /\ Enums(Append(running, e))
              = Enums(running) \cup (IF e.at = "enum" THEN {Len(running) + 1} ELSE {})
    BY <1>1, CallBegins
  <1>5. Enums(running) \subseteq DOMAIN running
    BY DEF Enums
  <1>6. Len(running) \in Nat
    BY <1>1
  <1>7. Cardinality(Opened(running')) = Cardinality(Opened(running))
    BY <1>1, <1>2, <1>4
  <1>8. Enums(running') = Enums(running) \cup {Len(running) + 1}
    BY <1>4
  <1>. QED BY <1>3, <1>4, <1>5, <1>6, <1>7, <1>8

LEMMA CallEnded ==
  ASSUME CallsOK, Top.at # "file", running' = Outer
  PROVE  CallsGoOn(running, running', IF Top.at \in Scoped THEN -1 ELSE 0)
  <1>1. /\ running \in Seq(CallRec) /\ Shape(running) /\ running # <<>>
        /\ Top = running[Len(running)]
    BY Where DEF CallsOK
  <1>2. Outer = Before(running)
    BY DEF Outer, Before
  <1>. QED BY <1>1, <1>2, CallEndsGoesOn

\* A statement has been read, and a compound one or a for begins in its place.
LEMMA StatementBegins ==
  ASSUME CallsOK, BodyCalls(running), NEW at \in {"block", "for_init"},
         running' = Append(AfterStatement(running), Call(at))
  PROVE  CallsGoOn(running, running', 1)
  <1>1. running \in Seq(CallRec) /\ running # <<>>
    BY DEF CallsOK, BodyCalls
  <1>2. Same(running, AfterStatement(running))
    BY <1>1, StatementRead
  <1>3. at \in Places /\ at \in Inner /\ at \in Scoped /\ at # "enum"
    BY DEF Places, Scoped, Inner, Loops
  <1>4. Call(at) \in CallRec /\ Call(at).at = at
    BY <1>3, CallIs
  <1>5. AfterStatement(running) \in Seq(CallRec) /\ BodyCalls(AfterStatement(running))
    BY <1>1, <1>2, SameFacts DEF Same
  <1>6. Shape(running')
    BY <1>3, <1>4, <1>5, CallFollows
  <1>. QED BY <1>1, <1>2, <1>3, <1>4, <1>6, CallFollowsGoesOn

LEMMA StatementEnded ==
  ASSUME CallsOK, Top.at # "file", running' = AfterStatement(running)
  PROVE  CallsGoOn(running, running', 0)
  <1>1. running \in Seq(CallRec) /\ Shape(running) /\ running # <<>>
    BY Where DEF CallsOK
  <1>. QED BY <1>1, StatementRead, SameGoesOn

LEMMA BodyBegins ==
  ASSUME CallsOK, Top.at \in {"for_init", "for_head"}, running' = Append(Outer, Call("for_body"))
  PROVE  CallsGoOn(running, running', 0)
  <1>1. Top.at \in Loops /\ "for_body" \in Loops /\ Top.at # "file"
    BY DEF Loops
  <1>2. running \in Seq(CallRec) /\ Shape(running) /\ running # <<>> /\ Top = running[Len(running)]
    BY <1>1, Where DEF CallsOK
  <1>3. Same(running, running')
    BY <1>1, <1>2, LastBecomes DEF Outer
  <1>. QED BY <1>2, <1>3, SameGoesOn

\* A call that stands alone
LEMMA Alone ==
  ASSUME NEW c \in Seq(CallRec), Len(c) = 1
  PROVE  /\ Opened(c) = IF c[1].at \in Scoped THEN {1} ELSE {}
         /\ Cardinality(Opened(c)) = IF c[1].at \in Scoped THEN 1 ELSE 0
         /\ Enums(c) = IF c[1].at = "enum" THEN {1} ELSE {}
  <1>1. DOMAIN c = {1}
    OBVIOUS
  <1>2. Cardinality({1}) = 1 /\ Cardinality({}) = 0
    BY FS_EmptySet, FS_Singleton
  <1>3. Opened(c) = IF c[1].at \in Scoped THEN {1} ELSE {}
    BY <1>1 DEF Opened
  <1>4. Enums(c) = IF c[1].at = "enum" THEN {1} ELSE {}
    BY <1>1 DEF Enums
  <1>. QED BY <1>2, <1>3, <1>4

\* The head of a function: its declarator, the parameters, __func__.
LEMMA HeadGoesOn ==
  ASSUME CallsOK, HeadCalls(running) \/ (FileCalls(running) /\ Len(running) = 1 /\ Top.at = "decl"),
         NEW e \in CallRec, e.at \in {"function_decl", "params", "ident"}, running' = <<e>>
  PROVE  CallsGoOn(running, running', (IF e.at \in Scoped THEN 1 ELSE 0) - scope_depth)
  <1>1. running \in Seq(CallRec) /\ Len(running) = 1 /\ scope_depth = Cardinality(Opened(running))
    BY DEF CallsOK, HeadCalls
  <1>2. /\ running' \in Seq(CallRec) /\ Len(running') = 1 /\ running'[1] = e
        /\ HeadCalls(running')
    BY DEF HeadCalls
  <1>3. /\ Cardinality(Opened(running')) = (IF e.at \in Scoped THEN 1 ELSE 0)
        /\ Enums(running') = {}
    BY <1>2, Alone
  <1>4. scope_depth \in Nat
    BY <1>1, OpenedFinite
  <1>. QED BY <1>1, <1>2, <1>3, <1>4 DEF CallsGoOn, KeepsEnums, Shape

\* How deep the parser is in the head of a function, and when its body is read
LEMMA HeadDepth ==
  ASSUME CallsOK
  PROVE  /\ scope_depth \in Nat
         /\ Top.at \in {"decl", "function_decl"} /\ ~ InFunction => scope_depth = 0
         /\ Top.at \in {"params", "ident", "function"} => scope_depth = 1
         /\ Top.at \in Scoped \/ InFunction => scope_depth > 0
  <1>1. running \in Seq(CallRec) /\ scope_depth = Cardinality(Opened(running))
        /\ scope_depth \in Nat
    BY OpenedFinite DEF CallsOK
  <1>2. \A x \in {"params", "ident", "function"} : x \in Scoped
    BY DEF Scoped
  <1>3. "decl" \notin Scoped /\ "function_decl" \notin Scoped /\ "file" \notin Scoped
    BY DEF Scoped, Loops
  <1>4. Len(running) = 1 /\ Top.at # "file" => scope_depth = IF Top.at \in Scoped THEN 1 ELSE 0
    BY <1>1, Where, Alone
  <1>5. Top.at \in {"decl", "function_decl"} /\ ~ InFunction => Len(running) = 1 /\ Top.at # "file"
    BY Where DEF HeadCalls
  <1>6. Top.at \in {"params", "ident", "function"} => Len(running) = 1 /\ Top.at # "file"
    BY Where DEF HeadCalls
  <1>7. (\E i \in DOMAIN running : running[i].at \in Scoped) => scope_depth > 0
    <2>. SUFFICES ASSUME NEW i \in DOMAIN running, running[i].at \in Scoped, scope_depth = 0
                  PROVE  FALSE
      BY <1>1
    <2>1. Opened(running) = {}
      BY <1>1, OpenedFinite, FS_EmptySet
    <2>. QED BY <2>1 DEF Opened
  <1>8. Top.at \in Scoped \/ InFunction => \E i \in DOMAIN running : running[i].at \in Scoped
    <2>1. CASE InFunction
      <3>1. 1 \in DOMAIN running /\ running[1].at = "function"
        BY <1>1, <2>1 DEF InFunction
      <3>. QED BY <1>2, <3>1
    <2>2. CASE Top.at \in Scoped
      <3>1. running # <<>> /\ Top = running[Len(running)]
        BY <1>3, <2>2, Where
      <3>2. Len(running) \in DOMAIN running
        BY <1>1, <3>1
      <3>. QED BY <2>2, <3>1, <3>2
    <2>. QED BY <2>1, <2>2
  <1>. QED BY <1>1, <1>2, <1>3, <1>4, <1>5, <1>6, <1>7, <1>8

LEMMA FunctionBegins ==
  ASSUME CallsOK, Top.at = "ident", running' = <<Call("function"), Call("block")>>
  PROVE  CallsGoOn(running, running', 1)
  <1>1. /\ "function" \in Scoped /\ "block" \in Scoped /\ "block" \in Inner
        /\ "function" \in Places /\ "block" \in Places
    BY DEF Scoped, Inner, Places
  <1>. DEFINE f == Call("function")
              b == Call("block")
              c == <<f>>
  <1>2. f \in CallRec /\ f.at = "function" /\ b \in CallRec /\ b.at = "block"
    BY <1>1, CallIs
  <1>. HIDE DEF f, b
  <1>3. c \in Seq(CallRec) /\ Len(c) = 1 /\ c[1] = f /\ running' = Append(c, b)
    BY <1>2 DEF f, b
  <1>. HIDE DEF c
  <1>4. Cardinality(Opened(c)) = 1 /\ Enums(c) = {}
    BY <1>1, <1>2, <1>3, Alone
  <1>5. BodyCalls(c)
    BY <1>2, <1>3 DEF BodyCalls
  <1>6. Shape(running')
    BY <1>1, <1>2, <1>3, <1>5, CallFollows
  <1>7. /\ running' \in Seq(CallRec) /\ Cardinality(Opened(running')) = 2 /\ Enums(running') = {}
    <2>1. c \in Seq(CallRec) /\ b \in CallRec
      BY <1>2, <1>3
    <2>2. /\ Append(c, b) \in Seq(CallRec)
          /\ Cardinality(Opened(Append(c, b)))
               = Cardinality(Opened(c)) + (IF b.at \in Scoped THEN 1 ELSE 0)
          /\ Enums(Append(c, b))
               = Enums(c) \cup (IF b.at = "enum" THEN {Len(c) + 1} ELSE {})
      BY <2>1, CallBegins
    <2>3. b.at # "enum" /\ b.at \in Scoped
      BY <1>1, <1>2
    <2>4. Cardinality(Opened(Append(c, b))) = 2 /\ Enums(Append(c, b)) = {}
      BY <1>4, <2>2, <2>3
    <2>5. running' = Append(c, b)
      BY <1>3
    <2>. QED BY <2>2, <2>4, <2>5
  <1>8. Cardinality(Opened(running)) = 1
    BY HeadDepth DEF CallsOK
  <1>. QED BY <1>6, <1>7, <1>8 DEF CallsGoOn, KeepsEnums

LEMMA FunctionEnds ==
  ASSUME CallsOK, Top.at = "function", running' = <<>>
  PROVE  CallsGoOn(running, running', -1)
  <1>1. Cardinality(Opened(running)) = 1
    BY HeadDepth DEF CallsOK
  <1>2. Opened(running') = {} /\ Enums(running') = {} /\ running' \in Seq(CallRec)
    BY DEF Opened, Enums
  <1>3. Shape(running')
    BY DEF Shape, FileCalls
  <1>4. Cardinality(Opened(running')) = 0
    BY <1>2, FS_EmptySet
  <1>. QED BY <1>1, <1>2, <1>3, <1>4 DEF CallsGoOn, KeepsEnums
-----------------------------------------------------------------------------
(***************************************************************************)
(* The types and variables made                                            *)
(***************************************************************************)
TypeObj == [kind : {"struct", "enum"}, members : Nat, tag : TagNames, depth : Nat]

TypesOK ==
  /\ types \in Seq(TypeObj)
  /\ \A i \in DOMAIN tag_scope : tag_scope[i].ty \in DOMAIN types
  /\ \A i \in Enums(running) : running[i].ty \in DOMAIN types
  /\ \A i, j \in Enums(running) : running[i].ty = running[j].ty => i = j

LEMMA PendingIs ==
  /\ Pending = {running[i].ty : i \in Enums(running)}
  /\ Pending' = {running'[i].ty : i \in Enums(running')}
  BY DEF Pending, Enums

LEMMA TypesStay ==
  ASSUME TypesOK, types' \in Seq(TypeObj), Len(types) <= Len(types'),
         KeepsEnums(running, running'), \A i \in DOMAIN tag_scope' : tag_scope'[i].ty \in DOMAIN types'
  PROVE  TypesOK' /\ Pending' \subseteq Pending /\ Len(types) \in Nat
  <1>1. DOMAIN types = 1 .. Len(types) /\ DOMAIN types' = 1 .. Len(types')
        /\ Len(types) \in Nat /\ Len(types') \in Nat
    BY DEF TypesOK
  <1>2. DOMAIN types \subseteq DOMAIN types'
    BY <1>1
  <1>3. TypesOK'
    BY <1>2 DEF TypesOK, KeepsEnums
  <1>4. Pending' \subseteq Pending
    BY PendingIs DEF KeepsEnums
  <1>. QED BY <1>1, <1>3, <1>4

\* No entity is lost.
LEMMA EntitiesStay ==
  ASSUME made \in Nat, made' \in Nat, made <= made', DOMAIN types \subseteq DOMAIN types',
         \A ty \in DOMAIN types : ty \in Pending' => ty \in Pending
  PROVE  entitiesBar \subseteq entitiesBar'
  <1>1. 1 .. made \subseteq 1 .. made'
    OBVIOUS
  <1>2. entitiesBar' =
          {<<is, i>> : is \in {"var", "type_def", "enum"}, i \in 1 .. made'} \cup
          {TagEntity(ty) : ty \in DOMAIN types' \ Pending'}
    BY DEF entitiesBar, TagEntity
  <1>3. {<<is, i>> : is \in {"var", "type_def", "enum"}, i \in 1 .. made}
          \subseteq {<<is, i>> : is \in {"var", "type_def", "enum"}, i \in 1 .. made'}
    BY <1>1
  <1>4. {TagEntity(ty) : ty \in DOMAIN types \ Pending}
          \subseteq {TagEntity(ty) : ty \in DOMAIN types' \ Pending'}
    OBVIOUS
  <1>. QED BY <1>2, <1>3, <1>4 DEF entitiesBar

\* A declaration makes an entity.
LEMMA NewVariable ==
  ASSUME made \in Nat, made' = made + 1, NEW is \in {"var", "type_def", "enum"}
  PROVE  <<is, made + 1>> \in entitiesBar' \ entitiesBar
  <1>1. <<is, made + 1>> \in entitiesBar'
    BY DEF entitiesBar
  <1>2. made + 1 \notin 1 .. made
    OBVIOUS
  <1>3. <<is, made + 1>> \notin entitiesBar
    BY <1>2 DEF entitiesBar, TagEntity
  <1>. QED BY <1>1, <1>3

LEMMA NewTag ==
  ASSUME NEW ty \in DOMAIN types', ty \notin Pending', ty \notin DOMAIN types \/ ty \in Pending
  PROVE  TagEntity(ty) \in entitiesBar' \ entitiesBar
  <1>1. TagEntity(ty) \in entitiesBar'
    BY DEF entitiesBar, TagEntity
  <1>2. TagEntity(ty) \notin entitiesBar
    BY DEF entitiesBar, TagEntity
  <1>. QED BY <1>1, <1>2

Storage ==
  /\ made \in Nat
  /\ \A i \in DOMAIN var_scope : var_scope[i].home = "local" => var_scope[i].depth > 0
  /\ VisibleHaveStorage

HasStorage(sc, ls, gs) ==
  sc.is = "var" => CASE sc.home = "local" -> sc.id \in ls
                     [] sc.home = "global" -> sc.id \in gs
                     [] OTHER -> TRUE

LEMMA StorageIs ==
  /\ VisibleHaveStorage = (\A i \in DOMAIN var_scope : HasStorage(var_scope[i], locals, globals))
  /\ VisibleHaveStorage' = (\A i \in DOMAIN var_scope' : HasStorage(var_scope'[i], locals', globals'))
  BY DEF VisibleHaveStorage, HasStorage

LEMMA StorageKept ==
  ASSUME NEW sc, NEW ls, NEW gs, HasStorage(sc, ls, gs), NEW ls1, NEW gs1,
         gs \subseteq gs1, ls \subseteq ls1 \/ sc.home # "local"
  PROVE  HasStorage(sc, ls1, gs1)
  BY DEF HasStorage

\* Entries leave the list, or nothing happens to it.
LEMMA StorageStays ==
  ASSUME Storage, made' \in Nat,
         \A i \in DOMAIN var_scope' : i \in DOMAIN var_scope /\ var_scope'[i] = var_scope[i],
         globals' = globals,
         locals' = locals \/ \A i \in DOMAIN var_scope : var_scope[i].home # "local"
  PROVE  Storage'
  <1>1. \A i \in DOMAIN var_scope' : HasStorage(var_scope'[i], locals', globals')
    BY StorageIs, StorageKept DEF Storage
  <1>2. \A i \in DOMAIN var_scope' : var_scope'[i].home = "local" => var_scope'[i].depth > 0
    BY DEF Storage
  <1>. QED BY <1>1, <1>2, StorageIs DEF Storage

LEMMA EntryIs ==
  ASSUME NEW n \in VarNames, NEW d \in Nat, NEW is \in {"var", "type_def", "enum"}, NEW i \in Nat,
         NEW ty \in Nat, NEW home \in {"local", "global", "extern", "none"}, NEW e,
         e = [name |-> n, depth |-> d, is |-> is, id |-> i, ty |-> ty, home |-> home]
  PROVE  /\ e \in VarEntry /\ e.name = n /\ e.depth = d /\ e.is = is /\ e.id = i /\ e.home = home
         /\ Entity(e) = <<is, i>>
  BY Zenon DEF VarEntry, Entity

\* A variable, a typedef or an enumerator is entered, or a variable without a
\* name that can be written.
LEMMA NameEntered ==
  ASSUME ListsOK, Storage, NEW n \in VarNames, NEW is \in {"var", "type_def", "enum"},
         NEW ty \in Nat, NEW home \in {"local", "global", "extern", "none"},
         push_scope(n, is, ty, home), UNCHANGED <<tag_scope, scope_depth>>,
         locals \subseteq locals', globals \subseteq globals',
         home = "local" => made + 1 \in locals' /\ scope_depth > 0,
         home = "global" => made + 1 \in globals'
  PROVE  /\ ListsOK' /\ Storage' /\ made' = made + 1
         /\ Entity(var_scope'[Len(var_scope')]) = <<is, made + 1>>
         /\ n \in KeyNames => blocksBar' = BoundTo(blocksBar, NameKey(n), <<is, made + 1>>)
         /\ n \notin KeyNames => blocksBar' = blocksBar
  <1>. DEFINE e == [name |-> n, depth |-> scope_depth, is |-> is, id |-> made + 1, ty |-> ty,
                    home |-> home]
  <1>1. /\ var_scope \in Seq(VarEntry) /\ scope_depth \in Nat /\ made \in Nat /\ made + 1 \in Nat
        /\ Depths(var_scope) /\ Sorted(var_scope)
        /\ \A i \in DOMAIN var_scope : var_scope[i].depth <= scope_depth
    BY EntryFields DEF ListsOK, Storage
  <1>2. /\ e \in VarEntry /\ e.name = n /\ e.depth = scope_depth /\ e.is = is /\ e.id = made + 1
        /\ e.home = home /\ Entity(e) = <<is, made + 1>>
    <2>1. scope_depth \in Nat /\ made + 1 \in Nat
      BY <1>1
    <2>2. e = [name |-> n, depth |-> scope_depth, is |-> is, id |-> made + 1, ty |-> ty,
               home |-> home]
      OBVIOUS
    <2>. HIDE DEF e
    <2>. QED BY <2>1, <2>2, EntryIs
  <1>3. var_scope' = Append(var_scope, e) /\ made' = made + 1
    BY DEF push_scope
  <1>. HIDE DEF e
  <1>4. /\ var_scope' \in Seq(VarEntry) /\ Len(var_scope') = Len(var_scope) + 1
        /\ Sorted(var_scope')
        /\ \A i \in DOMAIN var_scope' : var_scope'[i].depth <= scope_depth
        /\ \A i \in DOMAIN var_scope : var_scope'[i] = var_scope[i]
        /\ var_scope'[Len(var_scope) + 1] = e
    BY <1>1, <1>2, <1>3, Pushed
  <1>5. ListsOK'
    BY <1>4 DEF ListsOK
  <1>6. \A i \in DOMAIN var_scope' : i \in DOMAIN var_scope \/ var_scope'[i] = e
    <2>1. Len(var_scope) \in Nat /\ DOMAIN var_scope = 1 .. Len(var_scope)
          /\ DOMAIN var_scope' = 1 .. Len(var_scope) + 1
      BY <1>1, <1>4
    <2>. QED BY <1>4, <2>1
  <1>7. Storage'
    <2>1. HasStorage(e, locals', globals')
      BY <1>2 DEF HasStorage
    <2>2. \A i \in DOMAIN var_scope : HasStorage(var_scope'[i], locals', globals')
      BY <1>4, StorageIs, StorageKept DEF Storage
    <2>3. VisibleHaveStorage'
      BY <1>6, <2>1, <2>2, StorageIs
    <2>4. \A i \in DOMAIN var_scope' : var_scope'[i].home = "local" => var_scope'[i].depth > 0
      BY <1>2, <1>4, <1>6 DEF Storage
    <2>. QED BY <1>1, <1>3, <2>3, <2>4 DEF Storage
  <1>8. n \in KeyNames => blocksBar' = BoundTo(blocksBar, NameKey(n), <<is, made + 1>>)
    BY <1>1, <1>2, <1>3, BarIs, NameBound
  <1>9. n \notin KeyNames => blocksBar' = blocksBar
    BY <1>1, <1>2, <1>3, BarIs, UnnamedBinds
  <1>. QED BY <1>2, <1>3, <1>4, <1>5, <1>7, <1>8, <1>9

\* A tag is entered.
LEMMA TagEntered ==
  ASSUME ListsOK, NEW t \in Tags, NEW ty \in Nat \ {0}, tag_scope' = push_tag_scope(t, ty),
         UNCHANGED <<var_scope, scope_depth>>
  PROVE  /\ ListsOK' /\ blocksBar' = BoundTo(blocksBar, TagKey(t), TagEntity(ty))
         /\ \A i \in DOMAIN tag_scope' :
              tag_scope'[i].ty = ty \/ (i \in DOMAIN tag_scope /\ tag_scope'[i] = tag_scope[i])
  <1>. DEFINE e == [name |-> t, depth |-> scope_depth, ty |-> ty]
  <1>1. /\ tag_scope \in Seq(TagEntry) /\ scope_depth \in Nat
        /\ Depths(tag_scope) /\ Sorted(tag_scope)
        /\ \A i \in DOMAIN tag_scope : tag_scope[i].depth <= scope_depth
    BY EntryFields DEF ListsOK
  <1>2. e \in TagEntry /\ e.name = t /\ e.depth = scope_depth /\ e.ty = ty
    BY <1>1 DEF TagEntry
  <1>3. tag_scope' = Append(tag_scope, e)
    BY DEF push_tag_scope
  <1>. HIDE DEF e
  <1>4. /\ tag_scope' \in Seq(TagEntry) /\ Len(tag_scope') = Len(tag_scope) + 1
        /\ Sorted(tag_scope')
        /\ \A i \in DOMAIN tag_scope' : tag_scope'[i].depth <= scope_depth
        /\ \A i \in DOMAIN tag_scope : tag_scope'[i] = tag_scope[i]
        /\ tag_scope'[Len(tag_scope) + 1] = e
    BY <1>1, <1>2, <1>3, Pushed
  <1>5. ListsOK'
    BY <1>4 DEF ListsOK
  <1>6. \A i \in DOMAIN tag_scope' : i \in DOMAIN tag_scope \/ tag_scope'[i] = e
    <2>1. Len(tag_scope) \in Nat /\ DOMAIN tag_scope = 1 .. Len(tag_scope)
          /\ DOMAIN tag_scope' = 1 .. Len(tag_scope) + 1
      BY <1>1, <1>4
    <2>. QED BY <1>4, <2>1
  <1>7. blocksBar' = BoundTo(blocksBar, TagKey(t), TagEntity(ty))
    BY <1>1, <1>2, <1>3, BarIs, TagBound
  <1>. QED BY <1>2, <1>4, <1>5, <1>6, <1>7

\* enter_scope() and leave_scope()
LEMMA ScopeEntered ==
  ASSUME ListsOK, enter_scope
  PROVE  ListsOK' /\ blocksBar' = Append(blocksBar, B!Unbound)
  <1>1. /\ scope_depth \in Nat /\ scope_depth' = scope_depth + 1
        /\ var_scope' = var_scope /\ tag_scope' = tag_scope
        /\ \A i \in DOMAIN var_scope : var_scope[i].depth \in 0 .. scope_depth
        /\ \A i \in DOMAIN tag_scope : tag_scope[i].depth \in 0 .. scope_depth
    BY EntryFields DEF ListsOK, enter_scope
  <1>2. ListsOK'
    BY <1>1 DEF ListsOK
  <1>3. /\ \A i \in DOMAIN var_scope : var_scope[i].depth # scope_depth + 1
        /\ \A i \in DOMAIN tag_scope : tag_scope[i].depth # scope_depth + 1
    BY <1>1
  <1>. QED BY <1>1, <1>2, <1>3, BarIs, BlockOpened

LEMMA ScopeLeft ==
  ASSUME ListsOK, leave_scope, scope_depth > 0
  PROVE  /\ ListsOK' /\ Len(blocksBar) > 1
         /\ blocksBar' = SubSeq(blocksBar, 1, Len(blocksBar) - 1)
         /\ \A i \in DOMAIN var_scope' : i \in DOMAIN var_scope /\ var_scope'[i] = var_scope[i]
         /\ \A i \in DOMAIN tag_scope' : i \in DOMAIN tag_scope /\ tag_scope'[i] = tag_scope[i]
  <1>1. /\ scope_depth \in Nat \ {0} /\ scope_depth' = scope_depth - 1 /\ scope_depth - 1 \in Nat
        /\ var_scope' = UpTo(var_scope, scope_depth - 1)
        /\ tag_scope' = UpTo(tag_scope, scope_depth - 1)
        /\ var_scope \in Seq(VarEntry) /\ Depths(var_scope) /\ Sorted(var_scope)
        /\ tag_scope \in Seq(TagEntry) /\ Depths(tag_scope) /\ Sorted(tag_scope)
    BY EntryFields DEF ListsOK, leave_scope
  <1>2. /\ var_scope' \in Seq(VarEntry) /\ Len(var_scope') \in 0 .. Len(var_scope)
        /\ \A i \in 1 .. Len(var_scope') :
             var_scope'[i] = var_scope[i] /\ var_scope[i].depth <= scope_depth - 1
    BY <1>1, Cut
  <1>3. /\ tag_scope' \in Seq(TagEntry) /\ Len(tag_scope') \in 0 .. Len(tag_scope)
        /\ \A i \in 1 .. Len(tag_scope') :
             tag_scope'[i] = tag_scope[i] /\ tag_scope[i].depth <= scope_depth - 1
    BY <1>1, Cut
  <1>4. Sorted(var_scope') /\ Sorted(tag_scope')
    BY <1>1, CutSorted
  <1>5. ListsOK'
    <2>1. \A i \in DOMAIN var_scope' : var_scope'[i].depth <= scope_depth'
      BY <1>1, <1>2
    <2>2. \A i \in DOMAIN tag_scope' : tag_scope'[i].depth <= scope_depth'
      BY <1>1, <1>3
    <2>. QED BY <1>1, <1>2, <1>3, <1>4, <2>1, <2>2 DEF ListsOK
  <1>6. \A i \in DOMAIN var_scope' : i \in DOMAIN var_scope /\ var_scope'[i] = var_scope[i]
    BY <1>1, <1>2
  <1>7. \A i \in DOMAIN tag_scope' : i \in DOMAIN tag_scope /\ tag_scope'[i] = tag_scope[i]
    BY <1>1, <1>3
  <1>8. Len(blocksBar) = scope_depth + 1
    BY <1>1, BarIs, BlocksList
  <1>9. Len(blocksBar) > 1 /\ Len(blocksBar) - 1 = scope_depth
    BY <1>1, <1>8
  <1>10. blocksBar' = SubSeq(blocksBar, 1, scope_depth)
    BY <1>1, BarIs, BlockClosed
  <1>. QED BY <1>5, <1>6, <1>7, <1>9, <1>10

LEMMA ListsStay ==
  ASSUME ListsOK, UNCHANGED <<var_scope, tag_scope, scope_depth>>
  PROVE  ListsOK' /\ blocksBar' = blocksBar
  <1>1. ListsOK'
    BY DEF ListsOK
  <1>. QED BY <1>1, BarIs
-----------------------------------------------------------------------------
(***************************************************************************)
(* The inductive invariant, and the steps of Blocks                        *)
(***************************************************************************)
IInv == ListsOK /\ CallsOK /\ TypesOK /\ Storage

LEMMA PassStep ==
  ASSUME seen' = <<"pass", None, None>>, entitiesBar \subseteq entitiesBar', blocksBar' = blocksBar
  PROVE  B!Next
  BY DEF B!Next, B!Pass

LEMMA OpenStep ==
  ASSUME seen' = <<"open", None, None>>, entitiesBar \subseteq entitiesBar',
         blocksBar' = Append(blocksBar, B!Unbound)
  PROVE  B!Next
  BY DEF B!Next, B!Open

LEMMA CloseStep ==
  ASSUME seen' = <<"close", None, None>>, entitiesBar \subseteq entitiesBar',
         Len(blocksBar) > 1, blocksBar' = SubSeq(blocksBar, 1, Len(blocksBar) - 1)
  PROVE  B!Next
  BY DEF B!Next, B!Close

Bound(k, v) ==
  /\ entitiesBar \subseteq entitiesBar' /\ v \in entitiesBar' \ entitiesBar /\ v # None
  /\ blocksBar' = BoundTo(blocksBar, k, v)

LEMMA BindStep ==
  ASSUME NEW k, NEW v, Bound(k, v), seen'[3] = v
  PROVE  B!Bind(k)
  BY DEF Bound, B!Bind, BoundTo

LEMMA DeclareStep ==
  ASSUME NEW k \in Keys, NEW v, Bound(k, v), seen' = <<"declare", k, v>>
  PROVE  B!Next
  <1>1. B!Bind(k)
    BY BindStep
  <1>. QED BY <1>1 DEF B!Next, B!Declare

LEMMA CallStep ==
  ASSUME NEW k \in Keys, NEW v, seen' = <<"call", k, v>>,
         \/ /\ B!Meaning(k)[1] \notin {"var", "enum"} /\ Bound(k, v)
         \/ /\ B!Meaning(k)[1] \in {"var", "enum"} /\ v = B!Meaning(k)
            /\ entitiesBar \subseteq entitiesBar' /\ blocksBar' = blocksBar
  PROVE  B!Next
  <1>1. CASE B!Meaning(k)[1] \notin {"var", "enum"} /\ Bound(k, v)
    <2>1. B!Bind(k)
      BY <1>1, BindStep
    <2>. QED BY <1>1, <2>1 DEF B!Next, B!Call
  <1>2. CASE /\ B!Meaning(k)[1] \in {"var", "enum"} /\ v = B!Meaning(k)
             /\ entitiesBar \subseteq entitiesBar' /\ blocksBar' = blocksBar
    <2>1. B!Keep(k)
      BY <1>2 DEF B!Keep
    <2>. QED BY <1>2, <2>1 DEF B!Next, B!Call
  <1>. QED BY <1>1, <1>2

LEMMA MentionStep ==
  ASSUME NEW k \in Keys, NEW v, seen' = <<"mention", k, v>>,
         \/ B!Meaning(k) = None /\ Bound(k, v)
         \/ /\ B!Meaning(k) # None /\ v = B!Meaning(k)
            /\ entitiesBar \subseteq entitiesBar' /\ blocksBar' = blocksBar
  PROVE  B!Next
  <1>1. CASE B!Meaning(k) = None /\ Bound(k, v)
    <2>1. B!Bind(k)
      BY <1>1, BindStep
    <2>. QED BY <1>1, <2>1 DEF B!Next, B!Mention
  <1>2. CASE /\ B!Meaning(k) # None /\ v = B!Meaning(k)
             /\ entitiesBar \subseteq entitiesBar' /\ blocksBar' = blocksBar
    <2>1. B!Keep(k)
      BY <1>2 DEF B!Keep
    <2>. QED BY <1>2, <2>1 DEF B!Next, B!Mention
  <1>. QED BY <1>1, <1>2

LEMMA DefineStep ==
  ASSUME NEW k \in Keys, NEW v,
         seen' = <<"define", k, v>> \/ seen' = <<"define_self", k, v, v>>,
         \/ blocksBar[Len(blocksBar)][k] = None /\ Bound(k, v)
         \/ /\ blocksBar[Len(blocksBar)][k] # None /\ v = B!Meaning(k)
            /\ entitiesBar \subseteq entitiesBar' /\ blocksBar' = blocksBar
  PROVE  B!Next
  <1>1. seen'[1] \in {"define", "define_self"} /\ seen'[2] = k /\ seen'[3] = v
        /\ (seen'[1] = "define_self" => seen'[4] = seen'[3])
    OBVIOUS
  <1>2. CASE blocksBar[Len(blocksBar)][k] = None /\ Bound(k, v)
    <2>1. B!Bind(k)
      BY <1>1, <1>2, BindStep
    <2>. QED BY <1>1, <1>2, <2>1 DEF B!Next, B!Define
  <1>3. CASE /\ blocksBar[Len(blocksBar)][k] # None /\ v = B!Meaning(k)
             /\ entitiesBar \subseteq entitiesBar' /\ blocksBar' = blocksBar
    <2>1. B!Keep(k)
      BY <1>1, <1>3 DEF B!Keep
    <2>. QED BY <1>1, <1>3, <2>1 DEF B!Next, B!Define
  <1>. QED BY <1>2, <1>3

\* What the calls and the types come to, whatever happens to the lists.
LEMMA GoesOn ==
  ASSUME IInv, NEW n \in Int, CallsGoOn(running, running', n), scope_depth' = scope_depth + n,
         types' \in Seq(TypeObj), Len(types) <= Len(types'),
         \A i \in DOMAIN tag_scope' : tag_scope'[i].ty \in DOMAIN types',
         made' \in Nat, made <= made'
  PROVE  /\ CallsOK' /\ TypesOK' /\ Pending' \subseteq Pending
         /\ entitiesBar \subseteq entitiesBar'
  <1>1. CallsOK'
    BY CallsStay DEF IInv
  <1>2. TypesOK' /\ Pending' \subseteq Pending /\ Len(types) \in Nat
    BY TypesStay DEF IInv, CallsGoOn
  <1>3. DOMAIN types \subseteq DOMAIN types'
    BY <1>2 DEF IInv, TypesOK
  <1>4. entitiesBar \subseteq entitiesBar'
    BY <1>2, <1>3, EntitiesStay DEF IInv, Storage
  <1>. QED BY <1>1, <1>2, <1>4

\* The types stay as they are.
LEMMA SameTypesGoOn ==
  ASSUME IInv, NEW n \in Int, CallsGoOn(running, running', n), scope_depth' = scope_depth + n,
         types' = types,
         \A i \in DOMAIN tag_scope' : i \in DOMAIN tag_scope /\ tag_scope'[i] = tag_scope[i],
         made' = made \/ made' = made + 1
  PROVE  /\ CallsOK' /\ TypesOK' /\ Pending' \subseteq Pending
         /\ entitiesBar \subseteq entitiesBar'
  <1>1. /\ types' \in Seq(TypeObj) /\ Len(types) <= Len(types')
        /\ \A i \in DOMAIN tag_scope' : tag_scope'[i].ty \in DOMAIN types'
    BY DEF IInv, TypesOK
  <1>2. made' \in Nat /\ made <= made'
    BY DEF IInv, Storage
  <1>. QED BY <1>1, <1>2, GoesOn

LEMMA CallsUnchanged ==
  ASSUME IInv, running' = running
  PROVE  CallsGoOn(running, running', 0)
  BY SameItself, SameGoesOn DEF IInv, CallsOK
-----------------------------------------------------------------------------
(***************************************************************************)
(* What the operations of the parser do, by what they change               *)
(***************************************************************************)
\* Nothing is entered.
LEMMA Passes ==
  ASSUME IInv, CallsGoOn(running, running', 0), seen' = <<"pass", None, None>>,
         UNCHANGED <<var_scope, tag_scope, scope_depth, locals, globals, types, made>>
  PROVE  IInv' /\ B!Next
  <1>1. ListsOK' /\ blocksBar' = blocksBar
    BY ListsStay DEF IInv
  <1>2. scope_depth' = scope_depth + 0 /\ made' \in Nat
    BY DEF IInv, ListsOK, Storage
  <1>3. CallsOK' /\ TypesOK' /\ entitiesBar \subseteq entitiesBar'
    BY <1>2, SameTypesGoOn
  <1>4. Storage'
    BY <1>2, StorageStays DEF IInv
  <1>. QED BY <1>1, <1>3, <1>4, PassStep DEF IInv

\* A name is entered.
LEMMA Enters ==
  ASSUME IInv, CallsGoOn(running, running', 0),
         NEW n \in VarNames, NEW is \in {"var", "type_def", "enum"}, NEW ty \in Nat,
         NEW home \in {"local", "global", "extern", "none"}, push_scope(n, is, ty, home),
         UNCHANGED <<tag_scope, scope_depth, types>>,
         locals \subseteq locals', globals \subseteq globals',
         home = "local" => made + 1 \in locals' /\ scope_depth > 0,
         home = "global" => made + 1 \in globals'
  PROVE  /\ IInv' /\ Entity(var_scope'[Len(var_scope')]) = <<is, made + 1>>
         /\ n \in KeyNames => Bound(NameKey(n), <<is, made + 1>>)
         /\ n \notin KeyNames => entitiesBar \subseteq entitiesBar' /\ blocksBar' = blocksBar
  <1>1. /\ ListsOK' /\ Storage' /\ made' = made + 1 /\ made \in Nat
        /\ Entity(var_scope'[Len(var_scope')]) = <<is, made + 1>>
        /\ n \in KeyNames => blocksBar' = BoundTo(blocksBar, NameKey(n), <<is, made + 1>>)
        /\ n \notin KeyNames => blocksBar' = blocksBar
    BY NameEntered DEF IInv, Storage
  <1>2. scope_depth' = scope_depth + 0
    BY DEF IInv, ListsOK
  <1>3. CallsOK' /\ TypesOK' /\ entitiesBar \subseteq entitiesBar'
    BY <1>1, <1>2, SameTypesGoOn
  <1>4. <<is, made + 1>> \in entitiesBar' \ entitiesBar
    BY <1>1, NewVariable
  <1>5. <<is, made + 1>> # None
    BY DEF None
  <1>. QED BY <1>1, <1>3, <1>4, <1>5 DEF IInv, Bound

\* A name is declared.
LEMMA Declares ==
  ASSUME IInv, CallsGoOn(running, running', 0),
         NEW n \in KeyNames, NEW is \in {"var", "type_def", "enum"}, NEW ty \in Nat,
         NEW home \in {"local", "global", "extern", "none"}, push_scope(n, is, ty, home),
         UNCHANGED <<tag_scope, scope_depth, types>>,
         locals \subseteq locals', globals \subseteq globals',
         home = "local" => made + 1 \in locals' /\ scope_depth > 0,
         home = "global" => made + 1 \in globals',
         NEW v, v = <<is, made + 1>> \/ v = Entity(var_scope'[Len(var_scope')]),
         seen' = <<"declare", NameKey(n), v>>
  PROVE  IInv' /\ B!Next
  <1>1. n \in VarNames /\ NameKey(n) \in Keys
    BY KeysAre DEF VarNames, KeyNames
  <1>2. /\ IInv' /\ Entity(var_scope'[Len(var_scope')]) = <<is, made + 1>>
        /\ Bound(NameKey(n), <<is, made + 1>>)
    BY <1>1, Enters
  <1>3. v = <<is, made + 1>>
    BY <1>2
  <1>. QED BY <1>1, <1>2, <1>3, DeclareStep

\* A scope is entered: for a function, when no variable is local.
LEMMA Opens ==
  ASSUME IInv, CallsGoOn(running, running', 1), enter_scope, UNCHANGED <<globals, types, made>>,
         locals' = locals \/ scope_depth = 0
  PROVE  IInv' /\ B!Next
  <1>1. ListsOK' /\ blocksBar' = Append(blocksBar, B!Unbound)
    BY ScopeEntered DEF IInv
  <1>2. /\ scope_depth' = scope_depth + 1 /\ var_scope' = var_scope /\ tag_scope' = tag_scope
        /\ seen' = <<"open", None, None>>
    BY DEF enter_scope
  <1>3. CallsOK' /\ TypesOK' /\ entitiesBar \subseteq entitiesBar'
    BY <1>2, SameTypesGoOn
  <1>4. locals' = locals \/ \A i \in DOMAIN var_scope : var_scope[i].home # "local"
    <2>1. CASE scope_depth = 0
      <3>1. \A i \in DOMAIN var_scope : var_scope[i].depth \in 0 .. 0
        BY <2>1, EntryFields DEF IInv
      <3>2. \A i \in DOMAIN var_scope : ~ (var_scope[i].depth > 0)
        BY <3>1
      <3>. QED BY <3>2 DEF IInv, Storage
    <2>. QED BY <2>1
  <1>5. Storage'
    BY <1>2, <1>4, StorageStays DEF IInv, Storage
  <1>. QED BY <1>1, <1>2, <1>3, <1>5, OpenStep DEF IInv

\* A scope is left.
LEMMA Closes ==
  ASSUME IInv, CallsGoOn(running, running', -1), leave_scope, scope_depth > 0,
         UNCHANGED <<locals, globals, types, made>>
  PROVE  IInv' /\ B!Next
  <1>1. /\ ListsOK' /\ Len(blocksBar) > 1
        /\ blocksBar' = SubSeq(blocksBar, 1, Len(blocksBar) - 1)
        /\ \A i \in DOMAIN var_scope' : i \in DOMAIN var_scope /\ var_scope'[i] = var_scope[i]
        /\ \A i \in DOMAIN tag_scope' : i \in DOMAIN tag_scope /\ tag_scope'[i] = tag_scope[i]
    BY ScopeLeft DEF IInv
  <1>2. scope_depth' = scope_depth + -1 /\ seen' = <<"close", None, None>>
    BY DEF IInv, ListsOK, leave_scope
  <1>3. CallsOK' /\ TypesOK' /\ entitiesBar \subseteq entitiesBar'
    BY <1>1, <1>2, SameTypesGoOn
  <1>4. Storage'
    BY <1>1, StorageStays DEF IInv, Storage
  <1>. QED BY <1>1, <1>2, <1>3, <1>4, CloseStep DEF IInv
-----------------------------------------------------------------------------
(***************************************************************************)
(* Each operation                                                          *)
(***************************************************************************)
LEMMA StepBuiltinType ==
  ASSUME IInv, NEW attr \in Attributes, BuiltinType(attr)
  PROVE  IInv' /\ B!Next
  <1>1. NoType \in Nat
    BY DEF NoType
  <1>2. CallsGoOn(running, running', 0)
    BY <1>1, SpecifierRead DEF IInv, BuiltinType
  <1>. QED BY <1>2, Passes DEF BuiltinType

\* The type of a typedef, and of a tag
LEMMA FoundTypes ==
  ASSUME ListsOK
  PROVE  /\ \A n : find_var(n).ty \in Nat
         /\ \A t \in Tags : find_tag(t).ty \in Nat
  <1>1. ASSUME NEW n
        PROVE  find_var(n).ty \in Nat
    <2>1. CASE Called(var_scope, n) = {}
      <3>1. NoVar.ty = NoType
        BY Zenon DEF NoVar
      <3>. QED BY <2>1, <3>1 DEF find_var, NoType
    <2>2. CASE Called(var_scope, n) # {}
      <3>1. Called(var_scope, n) \in SUBSET (1 .. Len(var_scope)) /\ Len(var_scope) \in Nat
        BY DEF ListsOK, Called
      <3>2. Largest(Called(var_scope, n)) \in DOMAIN var_scope
        BY <2>2, <3>1, LargestExists DEF Called
      <3>. QED BY <2>2, <3>2, EntryFields DEF find_var
    <2>. QED BY <2>1, <2>2
  <1>2. ASSUME NEW t \in Tags
        PROVE  find_tag(t).ty \in Nat
    <2>1. \A sc \in TagEntry : sc.ty \in Nat
      BY DEF TagEntry
    <2>. QED BY <2>1, FindTag, Nothing
  <1>. QED BY <1>1, <1>2

LEMMA StepTypedefName ==
  ASSUME IInv, NEW attr \in Attributes \cup {"sizeof"}, NEW n, TypedefName(attr, n)
  PROVE  IInv' /\ B!Next
  <1>1. find_var(n).ty \in Nat
    BY FoundTypes DEF IInv
  <1>2. CallsGoOn(running, running', 0)
    BY <1>1, SpecifierRead DEF IInv, TypedefName
  <1>. QED BY <1>2, Passes DEF TypedefName

LEMMA StepEnumRef ==
  ASSUME IInv, NEW attr \in Attributes \cup {"sizeof"}, NEW t \in Tags, EnumRef(attr, t)
  PROVE  IInv' /\ B!Next
  <1>1. find_tag(t).ty \in Nat
    BY FoundTypes DEF IInv
  <1>2. CallsGoOn(running, running', 0)
    BY <1>1, SpecifierRead DEF IInv, EnumRef
  <1>. QED BY <1>2, Passes DEF EnumRef

LEMMA StepPass ==
  ASSUME IInv, EndDeclaration \/ ForBody
  PROVE  IInv' /\ B!Next
  <1>1. CASE EndDeclaration
    <2>1. Top.at # "file" /\ Top.at \notin Scoped /\ running' = Outer
      BY <1>1 DEF EndDeclaration, Parsing, Scoped, Loops
    <2>2. CallsGoOn(running, running', 0)
      BY <2>1, CallEnded DEF IInv
    <2>. QED BY <1>1, <2>2, Passes DEF EndDeclaration
  <1>2. CASE ForBody
    <2>1. CallsGoOn(running, running', 0)
      BY <1>2, BodyBegins DEF IInv, ForBody, Parsing
    <2>. QED BY <1>2, <2>1, Passes DEF ForBody
  <1>. QED BY <1>1, <1>2

LEMMA StepUse ==
  ASSUME IInv, NEW n, Use(n)
  PROVE  IInv' /\ B!Next
  <1>1. Top.at # "file" /\ running' = AfterStatement(running)
    BY DEF Use, Parsing, Expressions
  <1>2. CallsGoOn(running, running', 0)
    BY <1>1, StatementEnded DEF IInv
  <1>. QED BY <1>2, Passes DEF Use

LEMMA StepOpen ==
  ASSUME IInv, FunctionStart \/ FunctionBody \/ BlockStart \/ ForStart
  PROVE  IInv' /\ B!Next
  <1>1. CASE FunctionStart
    <2>1. "params" \in Places /\ "params" \in Scoped
      BY DEF Places, Scoped
    <2>2. Call("params") \in CallRec /\ Call("params").at = "params"
      BY <2>1, CallIs
    <2>3. HeadCalls(running) /\ running' = <<Call("params")>>
      BY <1>1, Where DEF FunctionStart, Parsing, IInv
    <2>4. scope_depth = 0
      <3>1. Top.at = "function_decl"
        BY <1>1 DEF FunctionStart, Parsing
      <3>2. ~ InFunction
        BY <2>3 DEF InFunction, HeadCalls
      <3>. QED BY <3>1, <3>2, HeadDepth DEF IInv
    <2>5. CallsGoOn(running, running', 1 - 0)
      BY <2>1, <2>2, <2>3, <2>4, HeadGoesOn DEF IInv
    <2>. QED BY <1>1, <2>4, <2>5, Opens DEF FunctionStart
  <1>2. CASE FunctionBody
    <2>1. CallsGoOn(running, running', 1)
      BY <1>2, FunctionBegins DEF FunctionBody, Parsing, IInv
    <2>. QED BY <1>2, <2>1, Opens DEF FunctionBody
  <1>3. CASE BlockStart
    <2>1. BodyCalls(running)
      BY <1>3, Where DEF BlockStart, IInv
    <2>2. CallsGoOn(running, running', 1)
      BY <1>3, <2>1, StatementBegins DEF BlockStart, IInv
    <2>. QED BY <1>3, <2>2, Opens DEF BlockStart
  <1>4. CASE ForStart
    <2>1. BodyCalls(running)
      BY <1>4, Where DEF ForStart, Parsing, Loops, IInv
    <2>2. CallsGoOn(running, running', 1)
      BY <1>4, <2>1, StatementBegins DEF ForStart, IInv
    <2>. QED BY <1>4, <2>2, Opens DEF ForStart
  <1>. QED BY <1>1, <1>2, <1>3, <1>4

LEMMA StepClose ==
  ASSUME IInv, FunctionEnd \/ BlockEnd \/ ForEnd
  PROVE  IInv' /\ B!Next
  <1>1. \A x \in {"function", "block", "for_body", "for_end"} : x \in Scoped /\ x # "file"
    BY DEF Scoped, Loops
  <1>2. Top.at \in Scoped /\ Top.at # "file" /\ scope_depth > 0
    <2>1. Top.at \in {"function", "block", "for_body", "for_end"}
      BY DEF FunctionEnd, BlockEnd, ForEnd, Parsing
    <2>. QED BY <1>1, <2>1, HeadDepth DEF IInv
  <1>3. CallsGoOn(running, running', -1)
    <2>1. CASE FunctionEnd
      BY <2>1, FunctionEnds DEF FunctionEnd, Parsing, IInv
    <2>2. CASE BlockEnd \/ ForEnd
      <3>1. running' = Outer
        BY <2>2 DEF BlockEnd, ForEnd
      <3>. QED BY <1>2, <3>1, CallEnded DEF IInv
    <2>. QED BY <2>1, <2>2
  <1>. QED BY <1>2, <1>3, Closes DEF FunctionEnd, BlockEnd, ForEnd

LEMMA NoTypeIsNat == NoType \in Nat /\ "__func__" \in KeyNames /\ Names \subseteq KeyNames
  BY DEF NoType, KeyNames

LEMMA StepEnumerator ==
  ASSUME IInv, NEW n \in Names, Enumerator(n)
  PROVE  IInv' /\ B!Next
  <1>1. Top.at = "enum" /\ Top.at # "file"
    BY DEF Enumerator, Parsing
  <1>2. Top.ty \in Nat
    BY <1>1, Where DEF IInv
  <1>3. CallsGoOn(running, running', 0)
    BY CallsUnchanged DEF Enumerator
  <1>. QED BY <1>2, <1>3, NoTypeIsNat, Declares DEF Enumerator

\* A variable on the list of the function, or of the file
LEMMA NewVarIs ==
  ASSUME NEW n, NEW ty
  PROVE  /\ new_lvar(n, ty) => /\ push_scope(n, "var", ty, "local") /\ made + 1 \in locals'
                               /\ locals \subseteq locals' /\ globals \subseteq globals'
         /\ \A emit \in BOOLEAN : new_gvar(n, ty, emit) =>
              /\ push_scope(n, "var", ty, IF emit THEN "global" ELSE "extern")
              /\ emit => made + 1 \in globals'
              /\ locals \subseteq locals' /\ globals \subseteq globals'
  BY DEF new_lvar, new_gvar

LEMMA DeclaresLocal ==
  ASSUME IInv, CallsGoOn(running, running', 0), NEW n \in KeyNames, NEW ty \in Nat,
         new_lvar(n, ty), scope_depth > 0, UNCHANGED <<tag_scope, scope_depth, types>>,
         seen' = <<"declare", NameKey(n), Entity(var_scope'[Len(var_scope')])>>
  PROVE  IInv' /\ B!Next
  BY NewVarIs, Declares

LEMMA DeclaresGlobal ==
  ASSUME IInv, CallsGoOn(running, running', 0), NEW n \in KeyNames, NEW ty \in Nat,
         NEW emit \in BOOLEAN, new_gvar(n, ty, emit), UNCHANGED <<tag_scope, scope_depth, types>>,
         seen' = <<"declare", NameKey(n), Entity(var_scope'[Len(var_scope')])>>
  PROVE  IInv' /\ B!Next
  <1>1. CASE emit
    BY <1>1, NewVarIs, Declares
  <1>2. CASE ~ emit
    BY <1>2, NewVarIs, Declares
  <1>. QED BY <1>1, <1>2

LEMMA StepDeclarator ==
  ASSUME IInv, NEW n \in Names, Declarator(n)
  PROVE  IInv' /\ B!Next
  <1>1. Top.at = "decl" /\ Top.at # "file" /\ n \in KeyNames
    BY NoTypeIsNat DEF Declarator, Parsing
  <1>2. Top.ty \in Nat
    BY <1>1, Where DEF IInv
  <1>3. CallsGoOn(running, running', 0)
    BY CallsUnchanged DEF Declarator
  <1>4. /\ UNCHANGED <<tag_scope, scope_depth, types>>
        /\ seen' = <<"declare", NameKey(n), Entity(var_scope'[Len(var_scope')])>>
    BY DEF Declarator
  <1>5. CASE Top.attr = "typedef"
    <2>1. push_scope(n, "type_def", Top.ty, "none") /\ UNCHANGED <<locals, globals>>
      BY <1>5 DEF Declarator
    <2>. QED BY <1>1, <1>2, <1>3, <1>4, <2>1, Declares
  <1>6. CASE Top.attr # "typedef" /\ ~ InFunction
    <2>1. new_gvar(n, Top.ty, Top.attr # "extern")
      BY <1>6 DEF Declarator
    <2>. QED BY <1>1, <1>2, <1>3, <1>4, <2>1, DeclaresGlobal
  <1>7. CASE Top.attr = "static" /\ InFunction
    <2>1. new_gvar(n, Top.ty, TRUE)
      BY <1>7 DEF Declarator, new_static
    <2>. QED BY <1>1, <1>2, <1>3, <1>4, <2>1, DeclaresGlobal
  <1>8. CASE Top.attr # "typedef" /\ Top.attr # "static" /\ InFunction
    <2>1. new_lvar(n, Top.ty)
      BY <1>8 DEF Declarator
    <2>2. scope_depth > 0
      BY <1>8, HeadDepth DEF IInv
    <2>. QED BY <1>1, <1>2, <1>3, <1>4, <2>1, <2>2, DeclaresLocal
  <1>. QED BY <1>5, <1>6, <1>7, <1>8

LEMMA StepFunctionDeclarator ==
  ASSUME IInv, NEW n \in Names, FunctionDeclarator(n)
  PROVE  IInv' /\ B!Next
  <1>1. Top.at \in {"decl", "function_decl"} /\ Top.at # "file" /\ ~ InFunction
    BY DEF FunctionDeclarator, Parsing
  <1>2. HeadCalls(running) \/ (FileCalls(running) /\ Len(running) = 1 /\ Top.at = "decl")
    BY <1>1, Where DEF IInv
  <1>3. Len(running) = 1 /\ running \in Seq(CallRec) /\ running # <<>> /\ Top \in CallRec
    BY <1>1, <1>2, Where DEF HeadCalls, IInv, CallsOK
  <1>4. Outer = <<>>
    <2>1. Outer = Before(running)
      BY DEF Outer, Before
    <2>2. Before(running) \in Seq(CallRec) /\ Len(Before(running)) = Len(running) - 1
      BY <1>3, CallEnds
    <2>. QED BY <1>3, <2>1, <2>2
  <1>. DEFINE e == [Top EXCEPT !.at = "function_decl"]
  <1>5. e \in CallRec /\ e.at = "function_decl"
    <2>1. "function_decl" \in Places
      BY DEF Places
    <2>. QED BY <1>3, <2>1 DEF CallRec
  <1>6. running' = Append(Outer, e)
    BY DEF FunctionDeclarator
  <1>. HIDE DEF e
  <1>7. running' = <<e>>
    BY <1>4, <1>5, <1>6
  <1>8. scope_depth = 0 /\ "function_decl" \notin Scoped
    BY <1>1, HeadDepth DEF IInv, Scoped, Loops
  <1>9. CallsGoOn(running, running', 0 - 0)
    BY <1>2, <1>5, <1>7, <1>8, HeadGoesOn DEF IInv
  <1>10. CallsGoOn(running, running', 0)
    <2>1. 0 - 0 = 0
      OBVIOUS
    <2>. QED BY <1>9, <2>1
  <1>11. new_gvar(n, NoType, FALSE)
    BY DEF FunctionDeclarator
  <1>. QED BY <1>10, <1>11, NoTypeIsNat, DeclaresGlobal DEF FunctionDeclarator

LEMMA StepParam ==
  ASSUME IInv, NEW n \in Names, Param(n)
  PROVE  IInv' /\ B!Next
  <1>1. scope_depth > 0
    BY HeadDepth DEF IInv, Param, Parsing
  <1>2. CallsGoOn(running, running', 0)
    BY CallsUnchanged DEF Param
  <1>. QED BY <1>1, <1>2, NoTypeIsNat, DeclaresLocal DEF Param

LEMMA StepAddFuncIdent ==
  ASSUME IInv, AddFuncIdent
  PROVE  IInv' /\ B!Next
  <1>1. "ident" \in Places /\ "ident" \in Scoped
    BY DEF Places, Scoped
  <1>2. Call("ident") \in CallRec /\ Call("ident").at = "ident"
    BY <1>1, CallIs
  <1>3. HeadCalls(running) /\ running' = <<Call("ident")>> /\ scope_depth = 1
    BY Where, HeadDepth DEF AddFuncIdent, Parsing, IInv
  <1>4. CallsGoOn(running, running', 1 - 1)
    BY <1>1, <1>2, <1>3, HeadGoesOn DEF IInv
  <1>5. CallsGoOn(running, running', 0)
    <2>1. 1 - 1 = 0
      OBVIOUS
    <2>. QED BY <1>4, <2>1
  <1>6. new_gvar("__func__", NoType, TRUE)
    BY DEF AddFuncIdent, new_static
  <1>. QED BY <1>5, <1>6, NoTypeIsNat, DeclaresGlobal DEF AddFuncIdent

\* f(...) declares f, or uses it.
LEMMA StepUseCalled ==
  ASSUME IInv, NEW n \in Names, UseCalled(n)
  PROVE  IInv' /\ B!Next
  <1>1. Top.at # "file" /\ running' = AfterStatement(running) /\ NameKey(n) \in Keys
    BY NoTypeIsNat, KeysAre DEF UseCalled, Parsing, Expressions
  <1>2. CallsGoOn(running, running', 0)
    BY <1>1, StatementEnded DEF IInv
  <1>3. /\ Entity(find_var(n)) = B!Meaning(NameKey(n))
        /\ B!Meaning(NameKey(n))[1] = find_var(n).is
    BY NoTypeIsNat, FindVar, EntityFields DEF IInv
  <1>4. CASE HasValue(find_var(n))
    <2>1. /\ UNCHANGED <<var_scope, tag_scope, scope_depth, locals, globals, types, made>>
          /\ seen' = <<"call", NameKey(n), Entity(find_var(n))>>
      BY <1>4 DEF UseCalled
    <2>2. ListsOK' /\ blocksBar' = blocksBar
      BY <2>1, ListsStay DEF IInv
    <2>3. scope_depth' = scope_depth + 0 /\ made' \in Nat
      BY <2>1 DEF IInv, ListsOK, Storage
    <2>4. CallsOK' /\ TypesOK' /\ entitiesBar \subseteq entitiesBar'
      BY <1>2, <2>1, <2>3, SameTypesGoOn
    <2>5. Storage'
      BY <2>1, <2>3, StorageStays DEF IInv
    <2>6. B!Next
      BY <1>1, <1>3, <1>4, <2>1, <2>2, <2>4, CallStep DEF HasValue
    <2>. QED BY <2>2, <2>4, <2>5, <2>6 DEF IInv
  <1>5. CASE ~ HasValue(find_var(n))
    <2>1. /\ new_gvar(n, NoType, FALSE) /\ UNCHANGED <<tag_scope, scope_depth, types>>
          /\ seen' = <<"call", NameKey(n), Entity(var_scope'[Len(var_scope')])>>
      BY <1>5 DEF UseCalled
    <2>2. /\ push_scope(n, "var", NoType, "extern")
          /\ locals \subseteq locals' /\ globals \subseteq globals'
      BY <2>1, NewVarIs
    <2>3. n \in VarNames /\ n \in KeyNames
      BY NoTypeIsNat DEF VarNames
    <2>4. /\ IInv' /\ Entity(var_scope'[Len(var_scope')]) = <<"var", made + 1>>
          /\ Bound(NameKey(n), <<"var", made + 1>>)
      BY <1>2, <2>1, <2>2, <2>3, NoTypeIsNat, Enters
    <2>5. B!Next
      BY <1>1, <1>3, <1>5, <2>1, <2>4, CallStep DEF HasValue
    <2>. QED BY <2>4, <2>5
  <1>. QED BY <1>4, <1>5

LEMMA StepUnnamed ==
  ASSUME IInv, Unnamed
  PROVE  IInv' /\ B!Next
  <1>1. CallsGoOn(running, running', 0)
    BY CallsUnchanged DEF Unnamed
  <1>2. "" \in VarNames /\ "" \notin KeyNames
    BY ScopeAssumption DEF VarNames, KeyNames
  <1>3. IInv' /\ entitiesBar \subseteq entitiesBar' /\ blocksBar' = blocksBar
    <2>1. CASE scope_depth > 0
      <3>1. new_lvar("", NoType) /\ UNCHANGED <<tag_scope, scope_depth, types>>
        BY <2>1 DEF Unnamed
      <3>. QED BY <1>1, <1>2, <2>1, <3>1, NewVarIs, NoTypeIsNat, Enters
    <2>2. CASE ~ (scope_depth > 0)
      <3>1. new_gvar("", NoType, TRUE) /\ UNCHANGED <<tag_scope, scope_depth, types>>
        BY <2>2 DEF Unnamed
      <3>2. push_scope("", "var", NoType, "global") /\ made + 1 \in globals'
            /\ locals \subseteq locals' /\ globals \subseteq globals'
        BY <3>1, NewVarIs
      <3>. QED BY <1>1, <1>2, <3>1, <3>2, NoTypeIsNat, Enters
    <2>. QED BY <2>1, <2>2
  <1>. QED BY <1>3, PassStep DEF Unnamed

LEMMA NewTypeIs ==
  ASSUME IInv, NEW kind \in {"struct", "enum"}, NEW t \in TagNames, NEW members \in Nat
  PROVE  NewType(kind, t, members) \in TypeObj
  BY DEF NewType, TypeObj, IInv, ListsOK

\* A type object is made.
LEMMA TypeMade ==
  ASSUME NEW ts \in Seq(TypeObj), NEW x \in TypeObj
  PROVE  /\ Append(ts, x) \in Seq(TypeObj) /\ Len(Append(ts, x)) = Len(ts) + 1 /\ Len(ts) \in Nat
         /\ DOMAIN ts = 1 .. Len(ts) /\ DOMAIN Append(ts, x) = 1 .. Len(ts) + 1
         /\ Append(ts, x)[Len(ts) + 1] = x
  OBVIOUS

LEMMA StepEnumBegin ==
  ASSUME IInv, NEW attr \in Attributes \cup {"sizeof"}, NEW t \in TagNames, EnumBegin(attr, t)
  PROVE  IInv' /\ B!Next
  <1>. DEFINE ty == Len(types) + 1
              e == [at |-> "enum", attr |-> attr, ty |-> ty, tag |-> t]
              x == NewType("enum", t, ty)
  <1>1. types \in Seq(TypeObj) /\ Len(types) \in Nat /\ ty \in Nat
    <2>1. types \in Seq(TypeObj)
      BY DEF IInv, TypesOK
    <2>2. Len(types) \in Nat
      BY <2>1
    <2>. QED BY <2>1, <2>2
  <1>2. /\ Reads(attr) /\ types' = Append(types, x) /\ running' = Append(running, e)
        /\ seen' = <<"pass", None, None>>
        /\ UNCHANGED <<var_scope, tag_scope, scope_depth, locals, globals, made>>
    BY DEF EnumBegin
  <1>3. e \in CallRec /\ e.at = "enum" /\ e.attr = attr /\ e.ty = ty
    <2>1. "enum" \in Places /\ ty \in Nat
      BY <1>1 DEF Places
    <2>. HIDE DEF ty
    <2>. QED BY <2>1, Zenon DEF CallRec
  <1>4. x \in TypeObj
    BY <1>1, NewTypeIs
  <1>. HIDE DEF e, x
  <1>5. /\ types' \in Seq(TypeObj) /\ DOMAIN types = 1 .. Len(types)
        /\ DOMAIN types' = 1 .. Len(types) + 1
    BY <1>1, <1>2, <1>4, TypeMade
  <1>6. /\ running' \in Seq(CallRec) /\ Shape(running')
        /\ Cardinality(Opened(running')) = Cardinality(Opened(running))
        /\ Enums(running') = Enums(running) \cup {Len(running) + 1}
        /\ \A i \in Enums(running) : running'[i] = running[i]
        /\ running'[Len(running) + 1].ty = ty
    BY <1>1, <1>2, <1>3, EnumListBegins DEF IInv
  <1>7. CallsOK'
    BY <1>2, <1>6 DEF IInv, CallsOK
  <1>8. DOMAIN types \subseteq DOMAIN types' /\ ty \in DOMAIN types' /\ ty \notin DOMAIN types
    <2>1. \A n \in Nat : 1 .. n \subseteq 1 .. n + 1 /\ n + 1 \in 1 .. n + 1 /\ n + 1 \notin 1 .. n
      OBVIOUS
    <2>2. Len(types) \in Nat
      BY <1>1
    <2>. QED BY <1>5, <2>1, <2>2
  <1>. HIDE DEF ty
  <1>9. TypesOK'
    <2>1. \A i \in Enums(running') :
            /\ running'[i].ty \in DOMAIN types'
            /\ i \in Enums(running) => running'[i].ty = running[i].ty /\ running'[i].ty \in DOMAIN types
            /\ i \notin Enums(running) => i = Len(running) + 1 /\ running'[i].ty = ty
      BY <1>6, <1>8 DEF IInv, TypesOK
    <2>2. \A i, j \in Enums(running') : running'[i].ty = running'[j].ty => i = j
      <3>. SUFFICES ASSUME NEW i \in Enums(running'), NEW j \in Enums(running'),
                           running'[i].ty = running'[j].ty
                    PROVE  i = j
        OBVIOUS
      <3>1. CASE i \in Enums(running) /\ j \in Enums(running)
        BY <2>1, <3>1 DEF IInv, TypesOK
      <3>2. CASE ~ (i \in Enums(running) /\ j \in Enums(running))
        BY <1>8, <2>1, <3>2
      <3>. QED BY <3>1, <3>2
    <2>3. \A i \in DOMAIN tag_scope' : tag_scope'[i].ty \in DOMAIN types'
      BY <1>2, <1>8 DEF IInv, TypesOK
    <2>. QED BY <1>5, <2>1, <2>2, <2>3 DEF TypesOK
  <1>10. \A y \in DOMAIN types : y \in Pending' => y \in Pending
    BY <1>6, <1>8, PendingIs
  <1>11. entitiesBar \subseteq entitiesBar'
    <2>1. made' = made /\ made \in Nat /\ made <= made'
      <3>1. made' = made /\ made \in Nat
        BY <1>2 DEF IInv, Storage
      <3>2. \A n \in Nat : n <= n
        OBVIOUS
      <3>. QED BY <3>1, <3>2
    <2>. QED BY <1>8, <1>10, <2>1, EntitiesStay
  <1>12. ListsOK' /\ blocksBar' = blocksBar
    BY <1>2, ListsStay DEF IInv
  <1>13. Storage'
    BY <1>2, StorageStays DEF IInv, Storage
  <1>. QED BY <1>2, <1>7, <1>9, <1>11, <1>12, <1>13, PassStep DEF IInv

\* A tag is entered, for a type that is made, or was made and has been pending.
LEMMA TagDeclared ==
  ASSUME IInv, CallsGoOn(running, running', 0), NEW t \in Tags, NEW ty \in DOMAIN types',
         tag_scope' = push_tag_scope(t, ty), types' \in Seq(TypeObj), Len(types) <= Len(types'),
         UNCHANGED <<var_scope, scope_depth, locals, globals, made>>,
         ty \notin Pending', ty \notin DOMAIN types \/ ty \in Pending
  PROVE  IInv' /\ Bound(TagKey(t), TagEntity(ty))
  <1>1. ty \in Nat \ {0} /\ DOMAIN types \subseteq DOMAIN types'
    BY DEF IInv, TypesOK
  <1>2. /\ ListsOK' /\ blocksBar' = BoundTo(blocksBar, TagKey(t), TagEntity(ty))
        /\ \A i \in DOMAIN tag_scope' :
              tag_scope'[i].ty = ty \/ (i \in DOMAIN tag_scope /\ tag_scope'[i] = tag_scope[i])
    BY <1>1, TagEntered DEF IInv
  <1>3. \A i \in DOMAIN tag_scope' : tag_scope'[i].ty \in DOMAIN types'
    BY <1>1, <1>2 DEF IInv, TypesOK
  <1>4. scope_depth' = scope_depth + 0 /\ made' \in Nat /\ made <= made'
    BY DEF IInv, ListsOK, Storage
  <1>5. CallsOK' /\ TypesOK' /\ entitiesBar \subseteq entitiesBar'
    BY <1>3, <1>4, GoesOn
  <1>6. Storage'
    BY <1>4, StorageStays DEF IInv
  <1>7. TagEntity(ty) \in entitiesBar' \ entitiesBar /\ TagEntity(ty) # None
    BY NewTag, EntityFields
  <1>. QED BY <1>2, <1>5, <1>6, <1>7 DEF IInv, Bound

\* A type that is not in the list yet is none of an enum that is being read.
LEMMA NotPending ==
  ASSUME IInv, CallsGoOn(running, running', 0)
  PROVE  Pending' \subseteq Pending /\ Pending \subseteq DOMAIN types
  BY PendingIs DEF CallsGoOn, KeepsEnums, IInv, TypesOK

LEMMA StepEnumEnd ==
  ASSUME IInv, EnumEnd
  PROVE  IInv' /\ B!Next
  <1>1. Top.at = "enum" /\ Top.at # "file" /\ Specified(Outer, Top.attr, Top.ty)
    BY DEF EnumEnd, Parsing
  <1>2. CallsGoOn(running, running', 0) /\ Len(running) \notin Enums(running')
    BY <1>1, EnumListRead DEF IInv
  <1>3. /\ Top = running[Len(running)] /\ Top.tag \in TagNames
        /\ running # <<>> /\ running \in Seq(CallRec)
    BY <1>1, Where DEF IInv, CallsOK
  <1>4. Len(running) \in Enums(running)
    <2>1. Len(running) \in DOMAIN running
      BY <1>3
    <2>. QED BY <1>1, <1>3, <2>1 DEF Enums
  <1>5. Top.ty \in DOMAIN types /\ Top.ty \in Pending /\ Top.ty \notin Pending'
    <2>1. \A i \in Enums(running') : i \in Enums(running) /\ running'[i].ty = running[i].ty
                                     /\ i # Len(running)
      BY <1>2 DEF CallsGoOn, KeepsEnums
    <2>. QED BY <1>3, <1>4, <2>1, PendingIs DEF IInv, TypesOK
  <1>6. CASE Top.tag = ""
    <2>1. /\ seen' = <<"pass", None, None>>
          /\ UNCHANGED <<var_scope, tag_scope, scope_depth, locals, globals, types, made>>
      BY <1>6 DEF EnumEnd
    <2>. QED BY <1>2, <2>1, Passes
  <1>7. CASE Top.tag # ""
    <2>1. /\ tag_scope' = push_tag_scope(Top.tag, Top.ty)
          /\ seen' = <<"declare", TagKey(Top.tag), TagEntity(Top.ty)>>
          /\ UNCHANGED <<var_scope, scope_depth, locals, globals, types, made>>
      BY <1>7 DEF EnumEnd
    <2>2. types' \in Seq(TypeObj) /\ Len(types) <= Len(types') /\ types' = types
      BY <2>1 DEF IInv, TypesOK
    <2>3. Top.tag \in Tags
      BY <1>3, <1>7, Zenon DEF TagNames
    <2>4. IInv' /\ Bound(TagKey(Top.tag), TagEntity(Top.ty))
      BY <1>2, <1>5, <2>1, <2>2, <2>3, TagDeclared
    <2>. QED BY <2>1, <2>3, <2>4, KeysAre, DeclareStep
  <1>. QED BY <1>6, <1>7

\* No tag is entered, no name either; types may be made or overwritten.
LEMMA TagKept ==
  ASSUME IInv, CallsGoOn(running, running', 0), types' \in Seq(TypeObj), Len(types) <= Len(types'),
         UNCHANGED <<var_scope, tag_scope, scope_depth, locals, globals, made>>
  PROVE  IInv' /\ entitiesBar \subseteq entitiesBar' /\ blocksBar' = blocksBar
  <1>1. ListsOK' /\ blocksBar' = blocksBar
    BY ListsStay DEF IInv
  <1>2. \A i \in DOMAIN tag_scope' : tag_scope'[i].ty \in DOMAIN types'
    BY DEF IInv, TypesOK
  <1>3. scope_depth' = scope_depth + 0 /\ made' \in Nat /\ made <= made'
    BY DEF IInv, ListsOK, Storage
  <1>4. CallsOK' /\ TypesOK' /\ entitiesBar \subseteq entitiesBar'
    BY <1>2, <1>3, GoesOn
  <1>5. Storage'
    BY <1>3, StorageStays DEF IInv
  <1>. QED BY <1>1, <1>4, <1>5 DEF IInv

\* The tag that is found has a type.
LEMMA FoundType ==
  ASSUME IInv, NEW t \in Tags, find_tag(t) # NoTag
  PROVE  find_tag(t).ty \in DOMAIN types
  BY FindTag DEF IInv, TypesOK

\* What struct t, or const struct t, makes
LEMMA StructRefTypes ==
  ASSUME IInv, NEW ty \in Nat, NEW found \in Seq(TypeObj), ty \in DOMAIN found,
         NEW b \in BOOLEAN, types' = IF b THEN Append(found, found[ty]) ELSE found
  PROVE  types' \in Seq(TypeObj) /\ Len(found) <= Len(types')
  <1>1. CASE b
    <2>1. found[ty] \in TypeObj
      OBVIOUS
    <2>. QED BY <1>1, <2>1, TypeMade
  <1>2. CASE ~ b
    BY <1>2
  <1>. QED BY <1>1, <1>2

LEMMA StepStructRef ==
  ASSUME IInv, NEW attr \in Attributes \cup {"sizeof"}, NEW t \in Tags, NEW b \in BOOLEAN,
         StructRef(attr, t, b)
  PROVE  IInv' /\ B!Next
  <1>1. types \in Seq(TypeObj) /\ TagKey(t) \in Keys
    BY KeysAre DEF IInv, TypesOK
  <1>2. Len(types) \in Nat /\ Len(types) + 1 \in Nat /\ DOMAIN types = 1 .. Len(types)
    <2>1. Len(types) \in Nat /\ DOMAIN types = 1 .. Len(types)
      BY <1>1
    <2>. QED BY <2>1
  <1>3. UNCHANGED <<var_scope, scope_depth, locals, globals, made>> /\ Reads(attr)
    BY DEF StructRef
  <1>4. CASE find_tag(t) = NoTag
    <2>. DEFINE ty == Len(types) + 1
                x == NewType("struct", t, NoType)
                found == Append(types, x)
    <2>1. /\ tag_scope' = push_tag_scope(t, ty)
          /\ types' = IF b THEN Append(found, found[ty]) ELSE found
          /\ Specified(running, attr, IF b THEN Len(types') ELSE ty)
          /\ seen' = <<"mention", TagKey(t), TagEntity(ty)>>
      BY <1>4 DEF StructRef
    <2>2. x \in TypeObj
      <3>1. t \in TagNames
        BY Zenon DEF TagNames
      <3>. QED BY <3>1, NoTypeIsNat, NewTypeIs
    <2>. HIDE DEF x
    <2>3. found \in Seq(TypeObj) /\ Len(found) = Len(types) + 1 /\ ty \in DOMAIN found
          /\ ty \notin DOMAIN types
      BY <1>1, <1>2, <2>2, TypeMade
    <2>. HIDE DEF found
    <2>4. types' \in Seq(TypeObj) /\ Len(found) <= Len(types')
      BY <1>2, <2>1, <2>3, StructRefTypes
    <2>5. Len(types') \in Nat /\ DOMAIN types' = 1 .. Len(types')
      BY <2>4
    <2>6. Len(types) <= Len(types') /\ ty \in DOMAIN types'
      BY <1>2, <2>3, <2>4, <2>5
    <2>7. CallsGoOn(running, running', 0)
      <3>1. (IF b THEN Len(types') ELSE ty) \in Nat
        BY <1>2, <2>5
      <3>. QED BY <1>3, <2>1, <3>1, SpecifierRead DEF IInv
    <2>8. ty \notin Pending'
      BY <2>3, <2>7, NotPending
    <2>. HIDE DEF ty
    <2>9. IInv' /\ Bound(TagKey(t), TagEntity(ty))
      BY <1>3, <2>1, <2>3, <2>4, <2>6, <2>7, <2>8, TagDeclared
    <2>10. B!Meaning(TagKey(t)) = None
      BY <1>4, FindTag DEF IInv
    <2>. QED BY <1>1, <2>1, <2>9, <2>10, MentionStep
  <1>5. CASE find_tag(t) # NoTag
    <2>. DEFINE ty == find_tag(t).ty
    <2>1. /\ tag_scope' = tag_scope
          /\ types' = IF b THEN Append(types, types[ty]) ELSE types
          /\ Specified(running, attr, IF b THEN Len(types') ELSE ty)
          /\ seen' = <<"mention", TagKey(t), TagEntity(ty)>>
      BY <1>5 DEF StructRef
    <2>2. ty \in DOMAIN types /\ ty \in Nat
      BY <1>2, <1>5, FoundType
    <2>3. TagEntity(ty) = B!Meaning(TagKey(t)) /\ B!Meaning(TagKey(t)) # None
      BY <1>5, FindTag DEF IInv
    <2>. HIDE DEF ty
    <2>4. types' \in Seq(TypeObj) /\ Len(types) <= Len(types')
      BY <1>1, <2>1, <2>2, StructRefTypes
    <2>5. Len(types') \in Nat
      BY <2>4
    <2>6. CallsGoOn(running, running', 0)
      <3>1. (IF b THEN Len(types') ELSE ty) \in Nat
        BY <2>2, <2>5
      <3>. QED BY <1>3, <2>1, <3>1, SpecifierRead DEF IInv
    <2>7. IInv' /\ entitiesBar \subseteq entitiesBar' /\ blocksBar' = blocksBar
      BY <1>3, <2>1, <2>4, <2>6, TagKept
    <2>. QED BY <1>1, <2>1, <2>3, <2>7, MentionStep
  <1>. QED BY <1>4, <1>5

\* The cases of struct t { ... }: a member has made the tag, the tag is of this
\* scope, or a new one is entered.
ByMember(attr, t, ty, read) ==
  /\ find_tag(t) = NoTag /\ tag_scope' = push_tag_scope(t, ty + 1)
  /\ types' = [Append(read, NewType("struct", t, NoType)) EXCEPT ![ty + 1] = read[ty]]
  /\ Specified(running, attr, ty + 1)
  /\ seen' = <<"define_self", TagKey(t), TagEntity(ty + 1), TagEntity(ty + 1)>>

OfScope(attr, t, ty, read) ==
  /\ Redefines(find_tag(t)) /\ tag_scope' = tag_scope
  /\ types' = [read EXCEPT ![find_tag(t).ty] = read[ty]]
  /\ Specified(running, attr, find_tag(t).ty)
  /\ \/ seen' = <<"define", TagKey(t), TagEntity(find_tag(t).ty)>>
     \/ seen' = <<"define_self", TagKey(t), TagEntity(find_tag(t).ty), TagEntity(find_tag(t).ty)>>

Anew(attr, t, ty, read) ==
  /\ ~ Redefines(find_tag(t)) /\ tag_scope' = push_tag_scope(t, ty)
  /\ types' = read /\ Specified(running, attr, ty)
  /\ \/ seen' = <<"define", TagKey(t), TagEntity(ty)>>
     \/ "self_in_shadow" \in Programs

LEMMA StructDefCases ==
  ASSUME NEW attr, NEW t, NEW self \in BOOLEAN, StructDef(attr, t, self), NEW ty, ty = Len(types) + 1,
         NEW read, read = Append(types, NewType("struct", t, ty)), ty + 1 # 0
  PROVE  /\ Reads(attr) /\ UNCHANGED <<var_scope, scope_depth, locals, globals, made>>
         /\ ByMember(attr, t, ty, read) \/ OfScope(attr, t, ty, read) \/ Anew(attr, t, ty, read)
  <1>. DEFINE new == [name |-> t, depth |-> scope_depth, ty |-> ty + 1]
  <1>1. /\ Reads(attr) /\ UNCHANGED <<var_scope, scope_depth, locals, globals, made>>
        /\ self /\ ~ (self /\ find_tag(t) = NoTag) /\ ~ Redefines(find_tag(t))
             => "self_in_shadow" \in Programs
    BY DEF StructDef
  <1>2. CASE self /\ find_tag(t) = NoTag
    <2>1. new.ty = ty + 1 /\ new.depth = scope_depth
      OBVIOUS
    <2>2. new # NoTag
      BY <2>1, Nothing
    <2>3. Redefines(new)
      BY <2>1, <2>2 DEF Redefines
    <2>4. /\ types' = [Append(read, NewType("struct", t, NoType)) EXCEPT ![new.ty] = read[ty]]
          /\ tag_scope' = Append(tag_scope, new)
          /\ Specified(running, attr, new.ty)
          /\ seen' = <<"define_self", TagKey(t), TagEntity(new.ty), TagEntity(ty + 1)>>
      BY <1>2, <2>3 DEF StructDef
    <2>. QED BY <1>1, <1>2, <2>1, <2>4 DEF push_tag_scope, ByMember
  <1>3. CASE ~ (self /\ find_tag(t) = NoTag) /\ Redefines(find_tag(t))
    BY <1>1, <1>3 DEF StructDef, OfScope
  <1>4. CASE ~ (self /\ find_tag(t) = NoTag) /\ ~ Redefines(find_tag(t))
    BY <1>1, <1>4 DEF StructDef, Anew
  <1>. QED BY <1>2, <1>3, <1>4

LEMMA Overwritten ==
  ASSUME NEW ts \in Seq(TypeObj), NEW i \in DOMAIN ts, NEW x \in TypeObj
  PROVE  [ts EXCEPT ![i] = x] \in Seq(TypeObj) /\ Len([ts EXCEPT ![i] = x]) = Len(ts)
  OBVIOUS

LEMMA StepStructDef ==
  ASSUME IInv, NEW attr \in Attributes \cup {"sizeof"}, NEW t \in Tags, NEW self \in BOOLEAN,
         StructDef(attr, t, self)
  PROVE  IInv' /\ ("self_in_shadow" \notin Programs => B!Next)
  <1>. DEFINE ty == Len(types) + 1
              new == NewType("struct", t, ty)
              read == Append(types, new)
              two == Append(read, NewType("struct", t, NoType))
  <1>1. types \in Seq(TypeObj) /\ TagKey(t) \in Keys
    BY KeysAre DEF IInv, TypesOK
  <1>2. /\ Len(types) \in Nat /\ DOMAIN types = 1 .. Len(types)
        /\ ty \in Nat /\ ty + 1 \in Nat /\ ty + 1 # 0
        /\ ty \notin DOMAIN types /\ ty + 1 \notin DOMAIN types
    <2>1. Len(types) \in Nat /\ DOMAIN types = 1 .. Len(types)
      BY <1>1
    <2>. QED BY <2>1
  <1>3. t \in TagNames
    BY Zenon DEF TagNames
  <1>4. new \in TypeObj /\ NewType("struct", t, NoType) \in TypeObj
    BY <1>2, <1>3, NoTypeIsNat, NewTypeIs
  <1>. HIDE DEF new
  <1>5. /\ read \in Seq(TypeObj) /\ Len(read) = ty /\ DOMAIN read = 1 .. ty /\ read[ty] \in TypeObj
        /\ ty \in DOMAIN read
    BY <1>1, <1>2, <1>4, TypeMade
  <1>6. read = Append(types, NewType("struct", t, ty))
    BY DEF new
  <1>. HIDE DEF read
  <1>7. two \in Seq(TypeObj) /\ Len(two) = ty + 1 /\ ty + 1 \in DOMAIN two
    BY <1>2, <1>4, <1>5, TypeMade
  <1>8. two = Append(read, NewType("struct", t, NoType)) /\ ty = Len(types) + 1
    OBVIOUS
  <1>. HIDE DEF two
  <1>9. /\ Reads(attr) /\ UNCHANGED <<var_scope, scope_depth, locals, globals, made>>
        /\ ByMember(attr, t, ty, read) \/ OfScope(attr, t, ty, read) \/ Anew(attr, t, ty, read)
    <2>. HIDE DEF ty
    <2>. QED BY <1>2, <1>6, <1>8, StructDefCases
  <1>10. ASSUME ByMember(attr, t, ty, read)
         PROVE  IInv' /\ B!Next
    <2>1. types' \in Seq(TypeObj) /\ Len(types') = ty + 1
      <3>. HIDE DEF ty
      <3>1. types' = [two EXCEPT ![ty + 1] = read[ty]]
        BY <1>8, <1>10 DEF ByMember
      <3>. QED BY <1>5, <1>7, <3>1, Overwritten
    <2>2. Len(types) <= Len(types') /\ ty + 1 \in DOMAIN types'
      BY <1>2, <2>1
    <2>. HIDE DEF ty
    <2>3. CallsGoOn(running, running', 0)
      BY <1>2, <1>9, <1>10, SpecifierRead DEF IInv, ByMember
    <2>4. ty + 1 \notin Pending'
      BY <1>2, <2>3, NotPending
    <2>5. IInv' /\ Bound(TagKey(t), TagEntity(ty + 1))
      BY <1>2, <1>9, <1>10, <2>1, <2>2, <2>3, <2>4, TagDeclared DEF ByMember
    <2>6. blocksBar[Len(blocksBar)][TagKey(t)] = None
      BY <1>10, FindTag DEF IInv, ByMember
    <2>. QED BY <1>1, <1>10, <2>5, <2>6, DefineStep DEF ByMember
  <1>11. ASSUME OfScope(attr, t, ty, read)
         PROVE  IInv' /\ B!Next
    <2>1. find_tag(t) # NoTag /\ find_tag(t).depth = scope_depth
      BY <1>11 DEF Redefines, OfScope
    <2>2. find_tag(t).ty \in DOMAIN types
      BY <2>1, FoundType
    <2>3. find_tag(t).ty \in DOMAIN read /\ find_tag(t).ty \in Nat
      BY <1>2, <1>5, <2>2
    <2>4. types' \in Seq(TypeObj) /\ Len(types') = ty
      BY <1>5, <1>11, <2>3, Overwritten DEF OfScope
    <2>5. Len(types) <= Len(types')
      BY <1>2, <2>4
    <2>6. CallsGoOn(running, running', 0)
      BY <1>9, <1>11, <2>3, SpecifierRead DEF IInv, OfScope
    <2>7. IInv' /\ entitiesBar \subseteq entitiesBar' /\ blocksBar' = blocksBar
      BY <1>9, <1>11, <2>4, <2>5, <2>6, TagKept DEF OfScope
    <2>8. blocksBar[Len(blocksBar)][TagKey(t)] # None
          /\ TagEntity(find_tag(t).ty) = B!Meaning(TagKey(t))
      BY <2>1, FindTag DEF IInv
    <2>. QED BY <1>1, <1>11, <2>7, <2>8, DefineStep DEF OfScope
  <1>12. ASSUME Anew(attr, t, ty, read)
         PROVE  IInv' /\ ("self_in_shadow" \notin Programs => B!Next)
    <2>1. types' \in Seq(TypeObj) /\ Len(types) <= Len(types') /\ ty \in DOMAIN types'
      BY <1>2, <1>5, <1>12 DEF Anew
    <2>. HIDE DEF ty
    <2>2. CallsGoOn(running, running', 0)
      BY <1>2, <1>9, <1>12, SpecifierRead DEF IInv, Anew
    <2>3. ty \notin Pending'
      BY <1>2, <2>2, NotPending
    <2>4. IInv' /\ Bound(TagKey(t), TagEntity(ty))
      BY <1>2, <1>9, <1>12, <2>1, <2>2, <2>3, TagDeclared DEF Anew
    <2>5. blocksBar[Len(blocksBar)][TagKey(t)] = None
      BY <1>12, FindTag DEF IInv, Redefines, Anew
    <2>6. ASSUME "self_in_shadow" \notin Programs
          PROVE  B!Next
      BY <1>1, <1>12, <2>4, <2>5, <2>6, DefineStep DEF Anew
    <2>. QED BY <2>4, <2>6
  <1>. QED BY <1>9, <1>10, <1>11, <1>12

LEMMA Stutters ==
  ASSUME IInv, UNCHANGED vars
  PROVE  IInv' /\ UNCHANGED <<blocksBar, entitiesBar, seen>>
  <1>1. ListsOK' /\ CallsOK' /\ TypesOK'
    BY DEF IInv, vars, ListsOK, CallsOK, TypesOK
  <1>2. Storage'
    BY StorageIs DEF IInv, vars, Storage
  <1>3. UNCHANGED <<blocksBar, entitiesBar, seen>>
    BY BarIs, PendingIs DEF vars, entitiesBar, TagEntity
  <1>. QED BY <1>1, <1>2, <1>3 DEF IInv

LEMMA Steps ==
  ASSUME IInv, [Next]_vars
  PROVE  IInv' /\ ("self_in_shadow" \notin Programs => [B!Next]_(B!vars))
  <1>1. CASE UNCHANGED vars
    BY <1>1, Stutters DEF B!vars
  <1>2. CASE Next
    <2>1. Read
      BY <1>2 DEF Next
    <2>2. ASSUME NEW attr \in Attributes, BuiltinType(attr)
          PROVE  IInv' /\ B!Next
      BY <2>2, StepBuiltinType
    <2>3. ASSUME NEW attr \in Attributes \cup {"sizeof"}, NEW n \in Names, TypedefName(attr, n)
          PROVE  IInv' /\ B!Next
      BY <2>3, StepTypedefName
    <2>4. ASSUME NEW attr \in Attributes \cup {"sizeof"}, NEW t \in Tags, NEW b \in BOOLEAN,
                 StructRef(attr, t, b)
          PROVE  IInv' /\ B!Next
      BY <2>4, StepStructRef
    <2>5. ASSUME NEW attr \in Attributes \cup {"sizeof"}, NEW t \in Tags, NEW b \in BOOLEAN,
                 StructDef(attr, t, b)
          PROVE  IInv' /\ ("self_in_shadow" \notin Programs => B!Next)
      BY <2>5, StepStructDef
    <2>6. ASSUME NEW attr \in Attributes \cup {"sizeof"}, NEW t \in Tags, EnumRef(attr, t)
          PROVE  IInv' /\ B!Next
      BY <2>6, StepEnumRef
    <2>7. ASSUME NEW attr \in Attributes \cup {"sizeof"}, NEW t \in TagNames, EnumBegin(attr, t)
          PROVE  IInv' /\ B!Next
      BY <2>7, StepEnumBegin
    <2>8. ASSUME EnumEnd
          PROVE  IInv' /\ B!Next
      BY <2>8, StepEnumEnd
    <2>9. ASSUME NEW n \in Names,
                 Enumerator(n) \/ Declarator(n) \/ FunctionDeclarator(n) \/ Param(n) \/ UseCalled(n)
          PROVE  IInv' /\ B!Next
      BY <2>9, StepEnumerator, StepDeclarator, StepFunctionDeclarator, StepParam, StepUseCalled
    <2>10. ASSUME NEW n \in Names \cup {"__func__"}, Use(n)
           PROVE  IInv' /\ B!Next
      BY <2>10, StepUse
    <2>11. ASSUME \/ EndDeclaration \/ FunctionStart \/ AddFuncIdent \/ FunctionBody
                  \/ FunctionEnd \/ BlockStart \/ BlockEnd \/ ForStart \/ ForBody \/ ForEnd
                  \/ Unnamed
           PROVE  IInv' /\ B!Next
      BY <2>11, StepPass, StepOpen, StepClose, StepAddFuncIdent, StepUnnamed
    <2>12. IInv' /\ ("self_in_shadow" \notin Programs => B!Next)
      BY <2>1, <2>2, <2>3, <2>4, <2>5, <2>6, <2>7, <2>8, <2>9, <2>10, <2>11, Zenon
         DEF Read, TagNames
    <2>. QED BY <2>12
  <1>. QED BY <1>1, <1>2
-----------------------------------------------------------------------------
(***************************************************************************)
(* What was declared with a tag is completed with it                       *)
(***************************************************************************)
\* Type ty is complete, or it is the type of its tag, whose entry stays as long
\* as scope d is open.
Reached(tps, tags, ty, d) ==
  ty # NoType =>
    /\ ty \in DOMAIN tps
    /\ tps[ty].members = NoType =>
         \E j \in DOMAIN tags : /\ tags[j].ty = ty /\ tags[j].name = tps[ty].tag
                                /\ tags[j].depth = tps[ty].depth /\ tags[j].depth <= d

\* No scope has a tag twice.
TagsUnique(tags) ==
  \A i, j \in DOMAIN tags : tags[i].name = tags[j].name /\ tags[i].depth = tags[j].depth => i = j

\* A type that a tag means and that has no members was made for that tag.
Announced(tps, tags) ==
  \A j \in DOMAIN tags :
    tps[tags[j].ty].members = NoType => /\ tags[j].name = tps[tags[j].ty].tag
                                        /\ tags[j].depth = tps[tags[j].ty].depth

\* The scopes that were open when call k began, and its own
CallDepth(c, k) == Cardinality({i \in Opened(c) : i <= k})

Completion ==
  /\ TagsUnique(tag_scope) /\ Announced(types, tag_scope)
  /\ \A i \in DOMAIN var_scope : Reached(types, tag_scope, var_scope[i].ty, var_scope[i].depth)
  /\ \A k \in DOMAIN running : Reached(types, tag_scope, running[k].ty, CallDepth(running, k))
  /\ \A k \in Enums(running) : types[running[k].ty].members # NoType

\* Types are made, or overwritten by a complete one.
Grow(tps, tps2) ==
  /\ DOMAIN tps \subseteq DOMAIN tps2
  /\ \A ty \in DOMAIN tps : tps2[ty] = tps[ty] \/ tps2[ty].members # NoType

\* The entries of the scopes up to d stay.
Keeps(tags, tags2, d) ==
  \A j \in DOMAIN tags : tags[j].depth <= d => j \in DOMAIN tags2 /\ tags2[j] = tags[j]

LEMMA ReachedKept ==
  ASSUME NEW tps, NEW tps2, NEW tags, NEW tags2, NEW ty, NEW d,
         Grow(tps, tps2), Keeps(tags, tags2, d), Reached(tps, tags, ty, d)
  PROVE  Reached(tps2, tags2, ty, d)
  <1>. SUFFICES ASSUME ty # NoType
                PROVE  /\ ty \in DOMAIN tps2
                       /\ tps2[ty].members = NoType =>
                            \E j \in DOMAIN tags2 :
                              /\ tags2[j].ty = ty /\ tags2[j].name = tps2[ty].tag
                              /\ tags2[j].depth = tps2[ty].depth /\ tags2[j].depth <= d
    BY DEF Reached
  <1>1. ty \in DOMAIN tps /\ ty \in DOMAIN tps2
    BY DEF Reached, Grow
  <1>. SUFFICES ASSUME tps2[ty].members = NoType
                PROVE  \E j \in DOMAIN tags2 :
                         /\ tags2[j].ty = ty /\ tags2[j].name = tps2[ty].tag
                         /\ tags2[j].depth = tps2[ty].depth /\ tags2[j].depth <= d
    BY <1>1
  <1>2. tps2[ty] = tps[ty]
    BY <1>1 DEF Grow
  <1>3. PICK j \in DOMAIN tags : /\ tags[j].ty = ty /\ tags[j].name = tps[ty].tag
                                 /\ tags[j].depth = tps[ty].depth /\ tags[j].depth <= d
    BY <1>2 DEF Reached
  <1>4. j \in DOMAIN tags2 /\ tags2[j] = tags[j]
    BY <1>3 DEF Keeps
  <1>. QED BY <1>2, <1>3, <1>4

LEMMA ReachedDeeper ==
  ASSUME NEW tps, NEW tags, Depths(tags), NEW ty, NEW d \in Int, NEW e \in Int, d <= e,
         Reached(tps, tags, ty, d)
  PROVE  Reached(tps, tags, ty, e)
  <1>1. \A j \in DOMAIN tags : tags[j].depth <= d => tags[j].depth <= e
    BY DEF Depths
  <1>. QED BY <1>1, Zenon DEF Reached

LEMMA NoTypeReached ==
  ASSUME NEW tps, NEW tags, NEW d
  PROVE  Reached(tps, tags, NoType, d)
  BY DEF Reached

\* The type of a tag that is in scope
LEMMA TagReached ==
  ASSUME NEW tps, NEW tags, Announced(tps, tags), NEW j \in DOMAIN tags,
         tags[j].ty \in DOMAIN tps, NEW d, tags[j].depth <= d
  PROVE  Reached(tps, tags, tags[j].ty, d)
  BY DEF Announced, Reached

LEMMA CompleteReached ==
  ASSUME NEW tps, NEW tags, NEW ty, ty \in DOMAIN tps, tps[ty].members # NoType, NEW d
  PROVE  Reached(tps, tags, ty, d)
  BY DEF Reached

LEMMA AnnouncedKept ==
  ASSUME NEW tps, NEW tps2, NEW tags, Grow(tps, tps2), Announced(tps, tags),
         \A j \in DOMAIN tags : tags[j].ty \in DOMAIN tps
  PROVE  Announced(tps2, tags)
  BY DEF Announced, Grow
-----------------------------------------------------------------------------
\* The calls of the parser

LEMMA CallDepths ==
  ASSUME NEW c \in Seq(CallRec)
  PROVE  /\ CallDepth(c, Len(c)) = Cardinality(Opened(c)) /\ Cardinality(Opened(c)) \in Nat
         /\ \A k : CallDepth(c, k) \in Nat /\ CallDepth(c, k) <= Cardinality(Opened(c))
  <1>1. IsFiniteSet(Opened(c)) /\ Cardinality(Opened(c)) \in Nat
    BY OpenedFinite
  <1>2. {i \in Opened(c) : i <= Len(c)} = Opened(c)
    <2>1. \A i \in Opened(c) : i <= Len(c)
      BY DEF Opened
    <2>. QED BY <2>1
  <1>3. ASSUME NEW k
        PROVE  CallDepth(c, k) \in Nat /\ CallDepth(c, k) <= Cardinality(Opened(c))
    <2>1. {i \in Opened(c) : i <= k} \in SUBSET Opened(c)
      OBVIOUS
    <2>. QED BY <1>1, <2>1, FS_Subset, FS_CardinalityType DEF CallDepth
  <1>. QED BY <1>1, <1>2, <1>3 DEF CallDepth

\* Call k stays.
CallStays(c, t, k) ==
  /\ k \in DOMAIN c /\ t[k].ty = c[k].ty /\ (t[k].at = "enum" => c[k].at = "enum")
  /\ CallDepth(t, k) = CallDepth(c, k)

\* The first n calls are still open.
AsBefore(c, t, n) ==
  /\ n \in Nat /\ n <= Len(c) /\ n <= Len(t)
  /\ \A i \in 1 .. n : \/ t[i] = c[i]
                       \/ c[i].at \in Loops /\ t[i].at \in Loops /\ t[i].ty = NoType

\* What has begun has no type, or it is the innermost call and has type new.
TypedCalls(c, t, new) ==
  \E n \in Nat :
    /\ AsBefore(c, t, n)
    /\ \A k \in DOMAIN t : k > n => /\ t[k].at # "enum"
                                    /\ t[k].ty = NoType \/ (k = Len(t) /\ t[k].ty = new)

LEMMA CallsStaying ==
  ASSUME NEW c \in Seq(CallRec), NEW t \in Seq(CallRec), NEW n, AsBefore(c, t, n), NEW k \in 1 .. n
  PROVE  CallStays(c, t, k) \/ (t[k].ty = NoType /\ t[k].at # "enum")
  <1>1. n \in Nat /\ n <= Len(c) /\ n <= Len(t) /\ Len(c) \in Nat /\ Len(t) \in Nat
        /\ DOMAIN c = 1 .. Len(c) /\ DOMAIN t = 1 .. Len(t)
    BY DEF AsBefore
  <1>2. \A i \in Nat : 1 <= i /\ i <= k => i \in 1 .. n /\ i \in DOMAIN c /\ i \in DOMAIN t
    BY <1>1
  <1>3. \A x \in Loops : x \in Scoped /\ x # "enum"
    BY DEF Loops, Scoped
  <1>4. \A i \in 1 .. n : t[i].at \in Scoped <=> c[i].at \in Scoped
    BY <1>3 DEF AsBefore
  <1>5. {i \in Opened(t) : i <= k} = {i \in Opened(c) : i <= k}
    <2>1. \A i \in Opened(t) : i \in Nat /\ 1 <= i
      BY <1>1 DEF Opened
    <2>2. \A i \in Opened(c) : i \in Nat /\ 1 <= i
      BY <1>1 DEF Opened
    <2>3. \A i : i <= k => (i \in Opened(t) <=> i \in Opened(c))
      BY <1>2, <1>4, <2>1, <2>2 DEF Opened
    <2>. QED BY <2>3
  <1>6. CallDepth(t, k) = CallDepth(c, k)
    BY <1>5 DEF CallDepth
  <1>7. k \in DOMAIN c
    BY <1>1
  <1>. QED BY <1>3, <1>6, <1>7 DEF AsBefore, CallStays

LEMMA SameTyped ==
  ASSUME NEW c \in Seq(CallRec), NEW t, Same(c, t), NEW new
  PROVE  TypedCalls(c, t, new)
  <1>1. t \in Seq(CallRec) /\ Len(t) = Len(c) /\ Len(c) \in Nat /\ DOMAIN c = 1 .. Len(c)
        /\ DOMAIN t = 1 .. Len(c)
    BY DEF Same
  <1>2. AsBefore(c, t, Len(c))
    BY <1>1 DEF Same, AsBefore
  <1>. QED BY <1>1, <1>2 DEF TypedCalls

LEMMA FollowTyped ==
  ASSUME NEW c \in Seq(CallRec), NEW m, Same(c, m), NEW e \in CallRec, e.at # "enum"
  PROVE  TypedCalls(c, Append(m, e), e.ty)
  <1>1. /\ m \in Seq(CallRec) /\ Len(m) = Len(c) /\ Len(c) \in Nat /\ DOMAIN c = 1 .. Len(c)
    BY DEF Same
  <1>. DEFINE t == Append(m, e)
  <1>2. /\ Len(t) = Len(c) + 1 /\ DOMAIN t = 1 .. Len(c) + 1 /\ t[Len(c) + 1] = e
        /\ \A i \in 1 .. Len(c) : t[i] = m[i]
    BY <1>1
  <1>. HIDE DEF t
  <1>3. AsBefore(c, t, Len(c))
    BY <1>1, <1>2 DEF Same, AsBefore
  <1>4. \A k \in DOMAIN t : k > Len(c) => k = Len(t)
    BY <1>1, <1>2
  <1>5. TypedCalls(c, t, e.ty)
    BY <1>1, <1>2, <1>3, <1>4 DEF TypedCalls
  <1>. QED BY <1>5 DEF t

LEMMA EndTyped ==
  ASSUME NEW c \in Seq(CallRec), c # <<>>, NEW new
  PROVE  AsBefore(c, Before(c), Len(c) - 1) /\ TypedCalls(c, Before(c), new)
  <1>1. /\ Len(c) \in Nat \ {0}
        /\ Before(c) \in Seq(CallRec) /\ Len(Before(c)) = Len(c) - 1
        /\ \A i \in 1 .. Len(c) - 1 : Before(c)[i] = c[i]
    BY CallEnds
  <1>2. Len(c) - 1 \in Nat /\ DOMAIN Before(c) = 1 .. Len(c) - 1
    BY <1>1
  <1>3. AsBefore(c, Before(c), Len(c) - 1)
    BY <1>1, <1>2 DEF AsBefore
  <1>4. \A k \in DOMAIN Before(c) : ~ (k > Len(c) - 1)
    BY <1>1, <1>2
  <1>. QED BY <1>2, <1>3, <1>4 DEF TypedCalls

\* A call ends, and then others begin.
LEMMA EndThenTyped ==
  ASSUME NEW c \in Seq(CallRec), c # <<>>, NEW t \in Seq(CallRec), NEW new,
         TypedCalls(Before(c), t, new)
  PROVE  TypedCalls(c, t, new)
  <1>1. PICK n \in Nat :
          /\ AsBefore(Before(c), t, n)
          /\ \A k \in DOMAIN t : k > n => /\ t[k].at # "enum"
                                          /\ t[k].ty = NoType \/ (k = Len(t) /\ t[k].ty = new)
    BY DEF TypedCalls
  <1>2. /\ Len(c) \in Nat \ {0}
        /\ Before(c) \in Seq(CallRec) /\ Len(Before(c)) = Len(c) - 1
        /\ \A i \in 1 .. Len(c) - 1 : Before(c)[i] = c[i]
    BY CallEnds
  <1>3. n <= Len(c) /\ \A i \in 1 .. n : i \in 1 .. Len(c) - 1
    BY <1>1, <1>2 DEF AsBefore
  <1>4. AsBefore(c, t, n)
    BY <1>1, <1>2, <1>3 DEF AsBefore
  <1>. QED BY <1>1, <1>4 DEF TypedCalls

\* Only calls without a type are open.
LEMMA UntypedCalls ==
  ASSUME NEW c \in Seq(CallRec), NEW t \in Seq(CallRec), NEW new,
         \A k \in DOMAIN t : t[k].ty = NoType /\ t[k].at # "enum"
  PROVE  TypedCalls(c, t, new)
  <1>1. Len(c) \in Nat /\ Len(t) \in Nat /\ 0 \in Nat /\ 0 <= Len(c) /\ 0 <= Len(t)
    OBVIOUS
  <1>2. AsBefore(c, t, 0)
    BY <1>1 DEF AsBefore
  <1>. QED BY <1>2 DEF TypedCalls
-----------------------------------------------------------------------------
\* What a step does to the lists, the types and the calls

LEMMA NothingLost ==
  /\ Grow(types, types) /\ \A d : Keeps(tag_scope, tag_scope, d)
  BY DEF Grow, Keeps

\* The entries that are left lead to the same types.
LEMMA Carried ==
  ASSUME IInv, IInv', Completion, Grow(types, types'),
         TagsUnique(tag_scope'), Announced(types', tag_scope'),
         Keeps(tag_scope, tag_scope', scope_depth'),
         \A i \in DOMAIN var_scope' :
           \/ i \in DOMAIN var_scope /\ var_scope'[i] = var_scope[i]
           \/ Reached(types', tag_scope', var_scope'[i].ty, var_scope'[i].depth),
         \A k \in DOMAIN running' :
           \/ CallStays(running, running', k)
           \/ /\ Reached(types', tag_scope', running'[k].ty, CallDepth(running', k))
              /\ running'[k].at = "enum" => types'[running'[k].ty].members # NoType
  PROVE  Completion'
  <1>1. scope_depth' \in Nat /\ Depths(tag_scope)
        /\ \A j \in DOMAIN tag_scope : tag_scope[j].depth \in Int
    BY EntryFields DEF IInv, ListsOK, Depths
  <1>2. \A d \in Int : d <= scope_depth' => Keeps(tag_scope, tag_scope', d)
    BY <1>1 DEF Keeps
  <1>3. ASSUME NEW i \in DOMAIN var_scope'
        PROVE  Reached(types', tag_scope', var_scope'[i].ty, var_scope'[i].depth)
    <2>1. CASE i \in DOMAIN var_scope /\ var_scope'[i] = var_scope[i]
      <3>1. Reached(types, tag_scope, var_scope[i].ty, var_scope[i].depth)
        BY <2>1 DEF Completion
      <3>2. var_scope[i].depth \in Int /\ var_scope[i].depth <= scope_depth'
        <4>1. var_scope'[i].depth <= scope_depth'
          BY <1>3 DEF IInv, ListsOK
        <4>2. var_scope[i].depth \in Int
          BY <2>1, EntryFields DEF IInv, Depths
        <4>. QED BY <2>1, <4>1, <4>2
      <3>3. Keeps(tag_scope, tag_scope', var_scope[i].depth)
        BY <1>2, <3>2
      <3>4. Reached(types', tag_scope', var_scope[i].ty, var_scope[i].depth)
        BY <3>1, <3>3, ReachedKept
      <3>. QED BY <2>1, <3>4
    <2>2. CASE Reached(types', tag_scope', var_scope'[i].ty, var_scope'[i].depth)
      BY <2>2
    <2>. QED BY <2>1, <2>2
  <1>4. ASSUME NEW k \in DOMAIN running'
        PROVE  /\ Reached(types', tag_scope', running'[k].ty, CallDepth(running', k))
               /\ k \in Enums(running') => types'[running'[k].ty].members # NoType
    <2>1. CASE CallStays(running, running', k)
      <3>1. /\ k \in DOMAIN running /\ running'[k].ty = running[k].ty
            /\ running'[k].at = "enum" => running[k].at = "enum"
            /\ CallDepth(running', k) = CallDepth(running, k)
        BY <2>1 DEF CallStays
      <3>2. Reached(types, tag_scope, running[k].ty, CallDepth(running, k))
        BY <3>1 DEF Completion
      <3>3. CallDepth(running', k) \in Nat /\ CallDepth(running', k) <= scope_depth'
        <4>1. running' \in Seq(CallRec) /\ scope_depth' = Cardinality(Opened(running'))
          BY DEF IInv, CallsOK
        <4>. QED BY <4>1, CallDepths
      <3>4. Keeps(tag_scope, tag_scope', CallDepth(running, k))
        BY <1>2, <3>1, <3>3
      <3>5. Reached(types', tag_scope', running[k].ty, CallDepth(running, k))
        BY <3>2, <3>4, ReachedKept
      <3>6. k \in Enums(running') => types'[running'[k].ty].members # NoType
        <4>. SUFFICES ASSUME k \in Enums(running')
                      PROVE  types'[running'[k].ty].members # NoType
          OBVIOUS
        <4>1. k \in Enums(running)
          BY <3>1 DEF Enums
        <4>2. types[running[k].ty].members # NoType /\ running[k].ty \in DOMAIN types
          BY <4>1 DEF Completion, IInv, TypesOK
        <4>. QED BY <3>1, <4>2 DEF Grow
      <3>. QED BY <3>1, <3>5, <3>6
    <2>2. CASE /\ Reached(types', tag_scope', running'[k].ty, CallDepth(running', k))
               /\ running'[k].at = "enum" => types'[running'[k].ty].members # NoType
      BY <2>2 DEF Enums
    <2>. QED BY <1>4, <2>1, <2>2
  <1>5. \A k \in Enums(running') : k \in DOMAIN running'
    BY DEF Enums
  <1>6. Enums(running)' = Enums(running') /\ \A k : CallDepth(running, k)' = CallDepth(running', k)
    BY DEF Enums, CallDepth, Opened
  <1>. QED BY <1>3, <1>4, <1>5, <1>6 DEF Completion, TagsUnique, Announced, Reached

\* The calls that have begun, when one of them has a type
LEMMA CallsReached ==
  ASSUME IInv, IInv', NEW new, TypedCalls(running, running', new),
         Reached(types', tag_scope', new, scope_depth'), NEW k \in DOMAIN running'
  PROVE  \/ CallStays(running, running', k)
         \/ /\ Reached(types', tag_scope', running'[k].ty, CallDepth(running', k))
            /\ running'[k].at = "enum" => types'[running'[k].ty].members # NoType
  <1>1. /\ running \in Seq(CallRec) /\ running' \in Seq(CallRec)
        /\ scope_depth' = Cardinality(Opened(running'))
    BY DEF IInv, CallsOK
  <1>2. PICK n \in Nat :
          /\ AsBefore(running, running', n)
          /\ \A i \in DOMAIN running' :
               i > n => /\ running'[i].at # "enum"
                        /\ running'[i].ty = NoType \/ (i = Len(running') /\ running'[i].ty = new)
    BY DEF TypedCalls
  <1>3. CASE k > n
    <2>1. /\ running'[k].at # "enum"
          /\ running'[k].ty = NoType \/ (k = Len(running') /\ running'[k].ty = new)
      BY <1>2, <1>3
    <2>2. CallDepth(running', Len(running')) = scope_depth'
      BY <1>1, CallDepths
    <2>. QED BY <2>1, <2>2, NoTypeReached
  <1>4. CASE ~ (k > n)
    <2>1. k \in 1 .. n
      BY <1>1, <1>2, <1>4
    <2>2. CallStays(running, running', k) \/ (running'[k].ty = NoType /\ running'[k].at # "enum")
      BY <1>1, <1>2, <2>1, CallsStaying
    <2>. QED BY <2>2, NoTypeReached
  <1>. QED BY <1>3, <1>4

\* No tag is entered, and no name with a type of its own.
LEMMA TagsStay ==
  ASSUME IInv, IInv', Completion, Grow(types, types'), tag_scope' = tag_scope,
         \A i \in DOMAIN var_scope' :
           \/ i \in DOMAIN var_scope /\ var_scope'[i] = var_scope[i]
           \/ Reached(types', tag_scope', var_scope'[i].ty, var_scope'[i].depth),
         NEW new, TypedCalls(running, running', new), Reached(types', tag_scope', new, scope_depth')
  PROVE  Completion'
  <1>1. TagsUnique(tag_scope') /\ Keeps(tag_scope, tag_scope', scope_depth')
    BY NothingLost DEF Completion
  <1>2. Announced(types', tag_scope')
    BY AnnouncedKept DEF Completion, IInv, TypesOK
  <1>3. \A k \in DOMAIN running' :
           \/ CallStays(running, running', k)
           \/ /\ Reached(types', tag_scope', running'[k].ty, CallDepth(running', k))
              /\ running'[k].at = "enum" => types'[running'[k].ty].members # NoType
    BY CallsReached
  <1>. QED BY <1>1, <1>2, <1>3, Carried

\* Nothing is entered.
LEMMA ListsKept ==
  ASSUME IInv, IInv', Completion, UNCHANGED <<var_scope, tag_scope, types>>,
         NEW new, TypedCalls(running, running', new), Reached(types, tag_scope, new, scope_depth')
  PROVE  Completion'
  <1>1. Grow(types, types')
    BY NothingLost
  <1>. QED BY <1>1, TagsStay

\* A name is entered.
LEMMA NameTyped ==
  ASSUME IInv, IInv', Completion, UNCHANGED <<tag_scope, scope_depth, types>>,
         NEW n, NEW is, NEW ty, NEW home, push_scope(n, is, ty, home),
         Reached(types, tag_scope, ty, scope_depth),
         NEW new, TypedCalls(running, running', new), Reached(types, tag_scope, new, scope_depth)
  PROVE  Completion'
  <1>. DEFINE e == [name |-> n, depth |-> scope_depth, is |-> is, id |-> made + 1, ty |-> ty,
                    home |-> home]
  <1>1. var_scope' = Append(var_scope, e) /\ e.ty = ty /\ e.depth = scope_depth
    BY DEF push_scope
  <1>2. var_scope \in Seq(VarEntry)
    BY DEF IInv, ListsOK
  <1>. HIDE DEF e
  <1>3. \A i \in DOMAIN var_scope' :
          (i \in DOMAIN var_scope /\ var_scope'[i] = var_scope[i]) \/ var_scope'[i] = e
    BY <1>1, <1>2
  <1>4. Grow(types, types')
    BY NothingLost
  <1>5. \A i \in DOMAIN var_scope' :
           \/ i \in DOMAIN var_scope /\ var_scope'[i] = var_scope[i]
           \/ Reached(types', tag_scope', var_scope'[i].ty, var_scope'[i].depth)
    BY <1>1, <1>3
  <1>. QED BY <1>4, <1>5, TagsStay

\* The tag of this scope
LEMMA NotOfScope ==
  ASSUME ListsOK, NEW t \in Tags, ~ Redefines(find_tag(t)), NEW j \in DOMAIN tag_scope,
         tag_scope[j].name = t
  PROVE  tag_scope[j].depth # scope_depth
  <1>. SUFFICES ASSUME tag_scope[j].depth = scope_depth
                PROVE  FALSE
    OBVIOUS
  <1>. DEFINE i == Largest(Called(tag_scope, t))
  <1>1. j \in Called(tag_scope, t) /\ j \in At(tag_scope, scope_depth, t)
    BY DEF Called, At
  <1>2. tag_scope \in Seq(TagEntry) /\ scope_depth \in Nat /\ Called(tag_scope, t) # {}
    BY <1>1 DEF ListsOK
  <1>3. /\ i \in Called(tag_scope, t) /\ tag_scope[i].depth \in Nat
        /\ \A d \in Nat : At(tag_scope, d, t) # {} => d <= tag_scope[i].depth
    BY <1>2, EntryFields, FoundInnermost
  <1>4. find_tag(t) = tag_scope[i]
    BY <1>2 DEF find_tag
  <1>. HIDE DEF i
  <1>5. i \in DOMAIN tag_scope
    BY <1>3 DEF Called
  <1>6. tag_scope[i].depth \in 0 .. scope_depth /\ tag_scope[i].ty # 0
    BY <1>5, EntryFields
  <1>7. scope_depth <= tag_scope[i].depth
    BY <1>1, <1>2, <1>3
  <1>8. tag_scope[i].depth = scope_depth
    BY <1>2, <1>6, <1>7
  <1>. QED BY <1>4, <1>6, <1>8, Nothing DEF Redefines

\* A tag is entered in a scope that has none of that name.
LEMMA TagTyped ==
  ASSUME IInv, IInv', Completion, Grow(types, types'), UNCHANGED <<var_scope, scope_depth>>,
         NEW t \in Tags, ~ Redefines(find_tag(t)), NEW ty, tag_scope' = push_tag_scope(t, ty),
         types'[ty].members = NoType => types'[ty].tag = t /\ types'[ty].depth = scope_depth,
         NEW new, TypedCalls(running, running', new),
         Reached(types', tag_scope', new, scope_depth)
  PROVE  Completion'
  <1>. DEFINE e == [name |-> t, depth |-> scope_depth, ty |-> ty]
  <1>1. tag_scope' = Append(tag_scope, e) /\ e.ty = ty /\ e.depth = scope_depth /\ e.name = t
    BY DEF push_tag_scope
  <1>2. tag_scope \in Seq(TagEntry)
    BY DEF IInv, ListsOK
  <1>. HIDE DEF e
  <1>3. /\ \A j \in DOMAIN tag_scope : j \in DOMAIN tag_scope' /\ tag_scope'[j] = tag_scope[j]
        /\ \A j \in DOMAIN tag_scope' :
             j \in DOMAIN tag_scope \/ (j = Len(tag_scope) + 1 /\ tag_scope'[j] = e)
    BY <1>1, <1>2
  <1>4. \A j \in DOMAIN tag_scope :
          ~ (tag_scope[j].name = t /\ tag_scope[j].depth = scope_depth)
    BY NotOfScope DEF IInv
  <1>5. TagsUnique(tag_scope')
    <2>. SUFFICES ASSUME NEW i \in DOMAIN tag_scope', NEW j \in DOMAIN tag_scope',
                         tag_scope'[i].name = tag_scope'[j].name,
                         tag_scope'[i].depth = tag_scope'[j].depth
                  PROVE  i = j
      BY DEF TagsUnique
    <2>1. CASE i \in DOMAIN tag_scope /\ j \in DOMAIN tag_scope
      BY <1>3, <2>1 DEF Completion, TagsUnique
    <2>2. CASE ~ (i \in DOMAIN tag_scope /\ j \in DOMAIN tag_scope)
      BY <1>1, <1>3, <1>4, <2>2
    <2>. QED BY <2>1, <2>2
  <1>6. Announced(types', tag_scope')
    <2>1. Announced(types', tag_scope)
      BY AnnouncedKept DEF Completion, IInv, TypesOK
    <2>. QED BY <1>1, <1>3, <2>1 DEF Announced
  <1>7. Keeps(tag_scope, tag_scope', scope_depth')
    BY <1>3 DEF Keeps
  <1>8. \A k \in DOMAIN running' :
           \/ CallStays(running, running', k)
           \/ /\ Reached(types', tag_scope', running'[k].ty, CallDepth(running', k))
              /\ running'[k].at = "enum" => types'[running'[k].ty].members # NoType
    BY CallsReached
  <1>. QED BY <1>5, <1>6, <1>7, <1>8, Carried
-----------------------------------------------------------------------------
\* Each operation

\* typespec() has been read: the declaration that begins has its type.
LEMMA SpecifiedTyped ==
  ASSUME NEW c \in Seq(CallRec), NEW attr \in Attributes \cup {"sizeof"}, attr = "sizeof" => c # <<>>,
         NEW ty \in Nat, Specified(c, attr, ty)
  PROVE  TypedCalls(c, running', ty)
  <1>1. CASE attr = "sizeof"
    <2>1. Same(c, running')
      BY <1>1, SpecifiedSizeof
    <2>. QED BY <2>1, SameTyped
  <1>2. CASE attr # "sizeof"
    <2>1. PICK m, e : /\ Same(c, m) /\ e \in CallRec /\ e.at = "decl" /\ e.attr = attr /\ e.ty = ty
                      /\ running' = Append(m, e)
      BY <1>2, SpecifiedDeclares
    <2>2. TypedCalls(c, Append(m, e), e.ty)
      BY <2>1, FollowTyped
    <2>. QED BY <2>1, <2>2
  <1>. QED BY <1>1, <1>2

LEMMA SpecifierTyped ==
  ASSUME CallsOK, NEW attr \in Attributes \cup {"sizeof"}, NEW ty \in Nat,
         Reads(attr), Specified(running, attr, ty)
  PROVE  TypedCalls(running, running', ty)
  <1>1. running \in Seq(CallRec)
    BY DEF CallsOK
  <1>2. attr = "sizeof" => running # <<>>
    <2>1. attr = "sizeof" => Top.at # "file"
      BY Zenon DEF Reads, Parsing, Expressions
    <2>. QED BY <2>1, Where
  <1>. QED BY <1>1, <1>2, SpecifiedTyped

LEMMA EnumListTyped ==
  ASSUME CallsOK, Top.at = "enum", Specified(Outer, Top.attr, Top.ty)
  PROVE  TypedCalls(running, running', Top.ty)
  <1>1. /\ running \in Seq(CallRec) /\ running # <<>> /\ Len(running) \in Nat \ {0}
        /\ Top.attr \in Attributes \cup {"sizeof"} /\ Top.ty \in Nat
    BY Where DEF CallsOK
  <1>2. Outer = Before(running) /\ Outer \in Seq(CallRec) /\ Len(Outer) = Len(running) - 1
    BY <1>1, CallEnds DEF Outer, Before
  <1>3. Top.attr = "sizeof" => Outer # <<>>
    <2>. SUFFICES ASSUME Top.attr = "sizeof", Outer = <<>>
                  PROVE  FALSE
      OBVIOUS
    <2>1. Len(running) = 1
      BY <1>1, <1>2
    <2>2. BodyCalls(running) => running[1].at = "function" /\ Top = running[1]
      BY <1>1, <2>1 DEF BodyCalls, Top
    <2>. QED BY <2>1, <2>2, Where
  <1>4. TypedCalls(Before(running), running', Top.ty)
    BY <1>1, <1>2, <1>3, SpecifiedTyped
  <1>5. running' \in Seq(CallRec)
    BY EnumListRead DEF CallsGoOn
  <1>. QED BY <1>1, <1>4, <1>5, EndThenTyped

LEMMA TypeOfName ==
  ASSUME ListsOK, Completion, NEW n
  PROVE  Reached(types, tag_scope, find_var(n).ty, scope_depth)
  <1>1. CASE Called(var_scope, n) = {}
    <2>1. NoVar.ty = NoType
      BY Zenon DEF NoVar
    <2>2. find_var(n).ty = NoType
      BY <1>1, <2>1 DEF find_var
    <2>. QED BY <2>2, NoTypeReached
  <1>2. CASE Called(var_scope, n) # {}
    <2>. DEFINE i == Largest(Called(var_scope, n))
    <2>1. Called(var_scope, n) \in SUBSET (1 .. Len(var_scope)) /\ Len(var_scope) \in Nat
      BY DEF ListsOK, Called
    <2>2. i \in DOMAIN var_scope
      BY <1>2, <2>1, LargestExists DEF Called
    <2>3. find_var(n) = var_scope[i]
      BY <1>2 DEF find_var
    <2>. HIDE DEF i
    <2>4. Reached(types, tag_scope, var_scope[i].ty, var_scope[i].depth)
      BY <2>2 DEF Completion
    <2>5. /\ var_scope[i].depth \in Int /\ scope_depth \in Int /\ var_scope[i].depth <= scope_depth
          /\ Depths(tag_scope)
      BY <2>2, EntryFields DEF ListsOK, Depths
    <2>. QED BY <2>3, <2>4, <2>5, ReachedDeeper
  <1>. QED BY <1>1, <1>2

LEMMA TypeOfTag ==
  ASSUME IInv, Completion, NEW t \in Tags, find_tag(t) # NoTag
  PROVE  Reached(types, tag_scope, find_tag(t).ty, scope_depth)
  <1>1. PICK j \in DOMAIN tag_scope : find_tag(t) = tag_scope[j]
    BY FindTag DEF IInv
  <1>2. tag_scope[j].ty \in DOMAIN types /\ tag_scope[j].depth <= scope_depth
        /\ Announced(types, tag_scope)
    BY DEF IInv, TypesOK, ListsOK, Completion
  <1>. QED BY <1>1, <1>2, TagReached

LEMMA TypeOfCall ==
  ASSUME IInv, Completion
  PROVE  Reached(types, tag_scope, Top.ty, scope_depth)
  <1>1. CASE running = <<>>
    <2>1. Top.ty = NoType
      BY <1>1, Zenon DEF Top, Call
    <2>. QED BY <2>1, NoTypeReached
  <1>2. CASE running # <<>>
    <2>1. running \in Seq(CallRec) /\ scope_depth = Cardinality(Opened(running))
      BY DEF IInv, CallsOK
    <2>2. Len(running) \in DOMAIN running /\ Top = running[Len(running)]
      BY <1>2, <2>1 DEF Top
    <2>3. CallDepth(running, Len(running)) = scope_depth
      BY <2>1, CallDepths
    <2>. QED BY <2>2, <2>3 DEF Completion
  <1>. QED BY <1>1, <1>2

LEMMA CallsAreTyped ==
  ASSUME IInv, running' = running, NEW new
  PROVE  TypedCalls(running, running', new)
  <1>1. running \in Seq(CallRec) /\ Same(running, running)
    BY SameItself DEF IInv, CallsOK
  <1>. QED BY <1>1, SameTyped

LEMMA TypesPass ==
  ASSUME IInv, IInv', Completion,
         \/ \E attr \in Attributes : BuiltinType(attr)
         \/ \E attr \in Attributes \cup {"sizeof"} :
              (\E n \in Names : TypedefName(attr, n)) \/ (\E t \in Tags : EnumRef(attr, t))
  PROVE  Completion'
  <1>1. ASSUME NEW attr \in Attributes, BuiltinType(attr)
        PROVE  Completion'
    <2>1. UNCHANGED <<var_scope, tag_scope, scope_depth, types>>
      BY <1>1 DEF BuiltinType
    <2>2. TypedCalls(running, running', NoType)
      BY <1>1, NoTypeIsNat, SpecifierTyped DEF BuiltinType, IInv
    <2>. QED BY <2>1, <2>2, NoTypeReached, ListsKept
  <1>2. ASSUME NEW attr \in Attributes \cup {"sizeof"}, NEW n \in Names, TypedefName(attr, n)
        PROVE  Completion'
    <2>1. UNCHANGED <<var_scope, tag_scope, scope_depth, types>>
      BY <1>2 DEF TypedefName
    <2>2. TypedCalls(running, running', find_var(n).ty)
      BY <1>2, FoundTypes, SpecifierTyped DEF TypedefName, IInv
    <2>3. Reached(types, tag_scope, find_var(n).ty, scope_depth')
      BY <2>1, TypeOfName DEF IInv
    <2>. QED BY <2>1, <2>2, <2>3, ListsKept
  <1>3. ASSUME NEW attr \in Attributes \cup {"sizeof"}, NEW t \in Tags, EnumRef(attr, t)
        PROVE  Completion'
    <2>1. UNCHANGED <<var_scope, tag_scope, scope_depth, types>> /\ find_tag(t) # NoTag
      BY <1>3 DEF EnumRef
    <2>2. TypedCalls(running, running', find_tag(t).ty)
      BY <1>3, FoundTypes, SpecifierTyped DEF EnumRef, IInv
    <2>3. Reached(types, tag_scope, find_tag(t).ty, scope_depth')
      BY <2>1, TypeOfTag
    <2>. QED BY <2>1, <2>2, <2>3, ListsKept
  <1>. QED BY <1>1, <1>2, <1>3

LEMMA TypesStatements ==
  ASSUME IInv, IInv', Completion,
         \/ EndDeclaration \/ ForBody \/ FunctionStart \/ FunctionBody \/ BlockStart \/ ForStart
         \/ \E n : Use(n)
  PROVE  Completion'
  <1>1. UNCHANGED <<var_scope, tag_scope, types>>
    BY DEF EndDeclaration, ForBody, FunctionStart, FunctionBody, BlockStart, ForStart, Use, enter_scope
  <1>2. Top.at # "file"
    BY DEF EndDeclaration, ForBody, FunctionStart, FunctionBody, BlockStart, ForStart, Use, Parsing,
           Expressions
  <1>3. /\ running \in Seq(CallRec) /\ running # <<>> /\ running' \in Seq(CallRec)
        /\ Top = running[Len(running)]
    BY <1>2, Where DEF IInv, CallsOK
  <1>4. /\ \A at \in Places : /\ Call(at) \in CallRec /\ Call(at).at = at
                              /\ Call(at).ty = NoType
        /\ \A at \in {"params", "function", "block", "for_init"} : at \in Places /\ at # "enum"
    BY CallIs DEF Places, Scoped, Loops
  <1>5. Same(running, AfterStatement(running))
    BY <1>3, StatementRead
  <1>6. TypedCalls(running, running', NoType)
    <2>1. CASE EndDeclaration
      <3>1. running' = Before(running)
        BY <2>1 DEF EndDeclaration, Outer, Before
      <3>. QED BY <1>3, <3>1, EndTyped
    <2>2. CASE ForBody
      <3>1. Top.at \in Loops /\ "for_body" \in Loops
            /\ running' = Append(SubSeq(running, 1, Len(running) - 1), Call("for_body"))
        BY <2>2 DEF ForBody, Parsing, Loops, Outer
      <3>2. Same(running, running')
        BY <1>3, <3>1, LastBecomes
      <3>. QED BY <1>3, <3>2, SameTyped
    <2>3. CASE FunctionStart
      <3>1. running' = <<Call("params")>>
        BY <2>3 DEF FunctionStart
      <3>2. \A k \in DOMAIN running' : running'[k] = Call("params")
        BY <3>1
      <3>. QED BY <1>3, <1>4, <3>2, UntypedCalls
    <2>4. CASE FunctionBody
      <3>1. running' = <<Call("function"), Call("block")>>
        BY <2>4 DEF FunctionBody
      <3>2. \A k \in DOMAIN running' : running'[k] = Call("function") \/ running'[k] = Call("block")
        BY <3>1
      <3>. QED BY <1>3, <1>4, <3>2, UntypedCalls
    <2>5. CASE BlockStart \/ ForStart
      <3>1. PICK at \in {"block", "for_init"} : running' = Append(AfterStatement(running), Call(at))
        BY <2>5 DEF BlockStart, ForStart
      <3>2. Call(at) \in CallRec /\ Call(at).at # "enum" /\ Call(at).ty = NoType
        BY <1>4
      <3>3. TypedCalls(running, running', Call(at).ty)
        BY <1>3, <1>5, <3>1, <3>2, FollowTyped
      <3>. QED BY <3>2, <3>3
    <2>6. CASE \E n : Use(n)
      <3>1. running' = AfterStatement(running)
        BY <2>6 DEF Use
      <3>. QED BY <1>3, <1>5, <3>1, SameTyped
    <2>. QED BY <2>1, <2>2, <2>3, <2>4, <2>5, <2>6
  <1>. QED BY <1>1, <1>6, NoTypeReached, ListsKept

\* A variable without a type of a tag
LEMMA UntypedName ==
  ASSUME IInv, IInv', Completion, UNCHANGED <<tag_scope, scope_depth, types>>, NEW n,
         new_lvar(n, NoType) \/ \E emit \in BOOLEAN : new_gvar(n, NoType, emit),
         NEW new, TypedCalls(running, running', new), Reached(types, tag_scope, new, scope_depth)
  PROVE  Completion'
  <1>1. PICK home : push_scope(n, "var", NoType, home)
    BY NewVarIs, Zenon
  <1>. QED BY <1>1, NoTypeReached, NameTyped

LEMMA TypesDeclared ==
  ASSUME IInv, IInv', Completion, NEW n,
         Enumerator(n) \/ Declarator(n) \/ FunctionDeclarator(n) \/ Param(n) \/ UseCalled(n)
         \/ AddFuncIdent \/ Unnamed
  PROVE  Completion'
  <1>1. UNCHANGED <<tag_scope, scope_depth, types>>
    BY DEF Enumerator, Declarator, FunctionDeclarator, Param, UseCalled, AddFuncIdent, Unnamed
  <1>2. Reached(types, tag_scope, Top.ty, scope_depth) /\ Reached(types, tag_scope, NoType, scope_depth)
    BY TypeOfCall, NoTypeReached
  <1>3. CASE Enumerator(n)
    <2>1. push_scope(n, "enum", Top.ty, "none") /\ running' = running
      BY <1>3 DEF Enumerator
    <2>2. TypedCalls(running, running', NoType)
      BY <2>1, CallsAreTyped
    <2>. QED BY <1>1, <1>2, <2>1, <2>2, NameTyped
  <1>4. CASE Declarator(n)
    <2>1. running' = running
      BY <1>4 DEF Declarator
    <2>2. \E is, home : push_scope(n, is, Top.ty, home)
      <3>1. CASE Top.attr = "typedef"
        BY <1>4, <3>1 DEF Declarator
      <3>2. CASE Top.attr # "typedef" /\ ~ InFunction
        <4>1. new_gvar(n, Top.ty, Top.attr # "extern")
          BY <1>4, <3>2 DEF Declarator
        <4>. QED BY <4>1, NewVarIs
      <3>3. CASE Top.attr = "static" /\ InFunction
        <4>1. new_gvar(n, Top.ty, TRUE)
          BY <1>4, <3>3 DEF Declarator, new_static
        <4>. QED BY <4>1, NewVarIs
      <3>4. CASE Top.attr # "typedef" /\ Top.attr # "static" /\ InFunction
        <4>1. new_lvar(n, Top.ty)
          BY <1>4, <3>4 DEF Declarator
        <4>. QED BY <4>1, NewVarIs
      <3>. QED BY <3>1, <3>2, <3>3, <3>4
    <2>3. PICK is, home : push_scope(n, is, Top.ty, home)
      BY <2>2
    <2>4. TypedCalls(running, running', NoType)
      BY <2>1, CallsAreTyped
    <2>. QED BY <1>1, <1>2, <2>3, <2>4, NameTyped
  <1>5. CASE FunctionDeclarator(n)
    <2>1. new_gvar(n, NoType, FALSE)
          /\ running' = Append(Outer, [Top EXCEPT !.at = "function_decl"])
      BY <1>5 DEF FunctionDeclarator
    <2>2. Top.at # "file"
      BY <1>5 DEF FunctionDeclarator, Parsing
    <2>3. running \in Seq(CallRec) /\ running # <<>> /\ Top \in CallRec /\ running' \in Seq(CallRec)
      BY <2>2, Where DEF IInv, CallsOK
    <2>. DEFINE e == [Top EXCEPT !.at = "function_decl"]
    <2>4. e \in CallRec /\ e.at = "function_decl" /\ e.ty = Top.ty
      <3>1. "function_decl" \in Places
        BY DEF Places
      <3>. QED BY <2>3, <3>1 DEF CallRec
    <2>5. running' = Append(Before(running), e)
      BY <2>1 DEF Outer, Before
    <2>. HIDE DEF e
    <2>6. Before(running) \in Seq(CallRec)
      BY <2>3, CallEnds
    <2>7. TypedCalls(Before(running), Append(Before(running), e), e.ty)
      BY <2>4, <2>6, SameItself, FollowTyped
    <2>8. TypedCalls(running, running', Top.ty)
      BY <2>3, <2>4, <2>5, <2>7, EndThenTyped
    <2>. QED BY <1>1, <1>2, <2>1, <2>8, UntypedName
  <1>6. CASE Param(n)
    <2>1. new_lvar(n, NoType) /\ running' = running
      BY <1>6 DEF Param
    <2>2. TypedCalls(running, running', NoType)
      BY <2>1, CallsAreTyped
    <2>. QED BY <1>1, <1>2, <2>1, <2>2, UntypedName
  <1>7. CASE UseCalled(n)
    <2>1. running' = AfterStatement(running) /\ Top.at # "file"
      BY <1>7 DEF UseCalled, Parsing, Expressions
    <2>2. running \in Seq(CallRec) /\ running # <<>>
      BY <2>1, Where DEF IInv, CallsOK
    <2>3. TypedCalls(running, running', NoType)
      BY <2>1, <2>2, StatementRead, SameTyped
    <2>4. CASE HasValue(find_var(n))
      <3>1. UNCHANGED <<var_scope, tag_scope, types, scope_depth>>
        BY <1>1, <1>7, <2>4 DEF UseCalled
      <3>. QED BY <1>2, <2>3, <3>1, ListsKept
    <2>5. CASE ~ HasValue(find_var(n))
      <3>1. new_gvar(n, NoType, FALSE)
        BY <1>7, <2>5 DEF UseCalled
      <3>. QED BY <1>1, <1>2, <2>3, <3>1, UntypedName
    <2>. QED BY <2>4, <2>5
  <1>8. CASE AddFuncIdent
    <2>1. new_gvar("__func__", NoType, TRUE) /\ running' = <<Call("ident")>>
      BY <1>8 DEF AddFuncIdent, new_static
    <2>2. "ident" \in Places /\ running \in Seq(CallRec) /\ running' \in Seq(CallRec)
      BY DEF Places, Scoped, IInv, CallsOK
    <2>3. Call("ident").at = "ident" /\ Call("ident").ty = NoType
      BY <2>2, CallIs
    <2>4. \A k \in DOMAIN running' : running'[k] = Call("ident")
      BY <2>1
    <2>5. TypedCalls(running, running', NoType)
      BY <2>2, <2>3, <2>4, UntypedCalls
    <2>. QED BY <1>1, <1>2, <2>1, <2>5, UntypedName
  <1>9. CASE Unnamed
    <2>1. running' = running /\ (new_lvar("", NoType) \/ new_gvar("", NoType, TRUE))
      BY <1>9 DEF Unnamed
    <2>2. TypedCalls(running, running', NoType)
      BY <2>1, CallsAreTyped
    <2>. QED BY <1>1, <1>2, <2>1, <2>2, UntypedName
  <1>. QED BY <1>3, <1>4, <1>5, <1>6, <1>7, <1>8, <1>9

\* A scope is left: the tags of the others stay.
LEMMA TypesClosed ==
  ASSUME IInv, IInv', Completion, FunctionEnd \/ BlockEnd \/ ForEnd
  PROVE  Completion'
  <1>1. leave_scope /\ types' = types /\ (running' = <<>> \/ running' = Outer)
    BY DEF FunctionEnd, BlockEnd, ForEnd
  <1>2. Top.at # "file"
    BY DEF FunctionEnd, BlockEnd, ForEnd, Parsing
  <1>3. running \in Seq(CallRec) /\ running # <<>> /\ running' \in Seq(CallRec)
    BY <1>2, Where DEF IInv, CallsOK
  <1>4. TypedCalls(running, running', NoType)
    <2>1. CASE running' = <<>>
      <3>1. \A k \in DOMAIN running' : FALSE
        BY <2>1
      <3>. QED BY <1>3, <3>1, UntypedCalls
    <2>2. CASE running' = Outer
      <3>1. running' = Before(running)
        BY <2>2 DEF Outer, Before
      <3>. QED BY <1>3, <3>1, EndTyped
    <2>. QED BY <1>1, <2>1, <2>2
  <1>5. /\ tag_scope \in Seq(TagEntry) /\ Depths(tag_scope) /\ Sorted(tag_scope)
        /\ var_scope \in Seq(VarEntry) /\ Depths(var_scope) /\ Sorted(var_scope)
        /\ scope_depth - 1 \in Int /\ scope_depth' = scope_depth - 1
        /\ tag_scope' = UpTo(tag_scope, scope_depth - 1)
        /\ var_scope' = UpTo(var_scope, scope_depth - 1)
    BY <1>1, EntryFields DEF IInv, ListsOK, leave_scope
  <1>6. /\ tag_scope' \in Seq(TagEntry) /\ Len(tag_scope') \in 0 .. Len(tag_scope)
        /\ \A i \in 1 .. Len(tag_scope') : tag_scope'[i] = tag_scope[i]
        /\ \A i \in 1 .. Len(tag_scope) :
             i > Len(tag_scope') => scope_depth - 1 < tag_scope[i].depth
    BY <1>5, Cut
  <1>7. /\ var_scope' \in Seq(VarEntry) /\ Len(var_scope') \in 0 .. Len(var_scope)
        /\ \A i \in 1 .. Len(var_scope') : var_scope'[i] = var_scope[i]
    BY <1>5, Cut
  <1>8. \A i \in DOMAIN tag_scope' : i \in DOMAIN tag_scope /\ tag_scope'[i] = tag_scope[i]
    BY <1>5, <1>6
  <1>9. \A i \in DOMAIN var_scope' : i \in DOMAIN var_scope /\ var_scope'[i] = var_scope[i]
    BY <1>5, <1>7
  <1>10. TagsUnique(tag_scope') /\ Announced(types', tag_scope') /\ Grow(types, types')
    BY <1>1, <1>8, NothingLost DEF Completion, TagsUnique, Announced
  <1>11. Keeps(tag_scope, tag_scope', scope_depth')
    <2>. SUFFICES ASSUME NEW j \in DOMAIN tag_scope, tag_scope[j].depth <= scope_depth - 1,
                         ~ (j \in DOMAIN tag_scope')
                  PROVE  FALSE
      BY <1>5, <1>8 DEF Keeps
    <2>1. j \in 1 .. Len(tag_scope) /\ j > Len(tag_scope') /\ tag_scope[j].depth \in Int
      BY <1>5, <1>6 DEF Depths
    <2>2. scope_depth - 1 < tag_scope[j].depth
      BY <1>6, <2>1
    <2>. QED BY <1>5, <2>1, <2>2
  <1>12. \A k \in DOMAIN running' :
           \/ CallStays(running, running', k)
           \/ /\ Reached(types', tag_scope', running'[k].ty, CallDepth(running', k))
              /\ running'[k].at = "enum" => types'[running'[k].ty].members # NoType
    BY <1>4, NoTypeReached, CallsReached
  <1>. QED BY <1>9, <1>10, <1>11, <1>12, Carried

LEMMA TypesEnumEnd ==
  ASSUME IInv, IInv', Completion, EnumEnd
  PROVE  Completion'
  <1>1. /\ Top.at = "enum" /\ Top.at # "file" /\ Specified(Outer, Top.attr, Top.ty)
        /\ UNCHANGED <<var_scope, scope_depth, types>>
    BY DEF EnumEnd, Parsing
  <1>2. TypedCalls(running, running', Top.ty)
    BY <1>1, EnumListTyped DEF IInv
  <1>3. /\ Top = running[Len(running)] /\ Top.tag \in TagNames
        /\ running # <<>> /\ running \in Seq(CallRec)
    BY <1>1, Where DEF IInv, CallsOK
  <1>4. Len(running) \in Enums(running)
    <2>1. Len(running) \in DOMAIN running
      BY <1>3
    <2>. QED BY <1>1, <1>3, <2>1 DEF Enums
  <1>5. Top.ty \in DOMAIN types /\ types[Top.ty].members # NoType
    BY <1>3, <1>4 DEF IInv, TypesOK, Completion
  <1>6. CASE Top.tag = ""
    <2>1. tag_scope' = tag_scope
      BY <1>6 DEF EnumEnd
    <2>. QED BY <1>1, <1>2, <2>1, TypeOfCall, ListsKept
  <1>7. CASE Top.tag # ""
    <2>1. /\ tag_scope' = push_tag_scope(Top.tag, Top.ty) /\ ~ Redefines(find_tag(Top.tag))
      BY <1>7 DEF EnumEnd
    <2>2. Top.tag \in Tags
      BY <1>3, <1>7, Zenon DEF TagNames
    <2>3. Grow(types, types') /\ types'[Top.ty].members # NoType
          /\ Reached(types', tag_scope', Top.ty, scope_depth)
      BY <1>1, <1>5, NothingLost, CompleteReached
    <2>. QED BY <1>1, <1>2, <2>1, <2>2, <2>3, TagTyped
  <1>. QED BY <1>6, <1>7

\* An enum has its members from the start.
LEMMA TypesEnumBegin ==
  ASSUME IInv, IInv', Completion, NEW attr, NEW t, EnumBegin(attr, t)
  PROVE  Completion'
  <1>. DEFINE ty == Len(types) + 1
              e == [at |-> "enum", attr |-> attr, ty |-> ty, tag |-> t]
              x == NewType("enum", t, ty)
  <1>1. types' = Append(types, x) /\ running' = Append(running, e)
        /\ UNCHANGED <<var_scope, tag_scope, scope_depth>> /\ e.ty = ty
    BY DEF EnumBegin
  <1>2. types \in Seq(TypeObj) /\ running \in Seq(CallRec) /\ running' \in Seq(CallRec)
    BY DEF IInv, TypesOK, CallsOK
  <1>3. x.members = ty /\ ty # NoType
    BY <1>2 DEF NewType, NoType
  <1>. HIDE DEF e, x
  <1>4. /\ ty \in DOMAIN types' /\ types'[ty] = x
        /\ \A y \in DOMAIN types : y \in DOMAIN types' /\ types'[y] = types[y]
    BY <1>1, <1>2
  <1>. HIDE DEF ty
  <1>5. Grow(types, types')
    BY <1>4 DEF Grow
  <1>6. AsBefore(running, running', Len(running))
    BY <1>1, <1>2 DEF AsBefore
  <1>7. ASSUME NEW k \in DOMAIN running'
        PROVE  \/ CallStays(running, running', k)
               \/ /\ Reached(types', tag_scope', running'[k].ty, CallDepth(running', k))
                  /\ running'[k].at = "enum" => types'[running'[k].ty].members # NoType
    <2>1. CASE k = Len(running) + 1
      <3>1. running'[k] = e
        BY <1>1, <1>2, <2>1
      <3>2. types'[running'[k].ty].members # NoType /\ running'[k].ty \in DOMAIN types'
        BY <1>1, <1>3, <1>4, <3>1
      <3>. QED BY <3>2, CompleteReached
    <2>2. CASE k # Len(running) + 1
      <3>1. k \in 1 .. Len(running)
        BY <1>1, <1>2, <2>2
      <3>2. CallStays(running, running', k) \/ (running'[k].ty = NoType /\ running'[k].at # "enum")
        BY <1>2, <1>6, <3>1, CallsStaying
      <3>. QED BY <3>2, NoTypeReached
    <2>. QED BY <2>1, <2>2
  <1>8. TagsUnique(tag_scope') /\ Keeps(tag_scope, tag_scope', scope_depth')
    BY <1>1, NothingLost DEF Completion
  <1>9. Announced(types', tag_scope')
    BY <1>1, <1>5, AnnouncedKept DEF Completion, IInv, TypesOK
  <1>. QED BY <1>1, <1>5, <1>7, <1>8, <1>9, Carried

\* struct t before t has members, and const struct t, a copy of a complete type
LEMMA TypesStructRef ==
  ASSUME IInv, IInv', Completion, "const_incomplete" \notin Programs,
         NEW attr \in Attributes \cup {"sizeof"}, NEW t \in Tags, NEW b \in BOOLEAN,
         StructRef(attr, t, b)
  PROVE  Completion'
  <1>1. types \in Seq(TypeObj) /\ Len(types) \in Nat /\ DOMAIN types = 1 .. Len(types)
    BY DEF IInv, TypesOK
  <1>2. UNCHANGED <<var_scope, scope_depth>> /\ Reads(attr)
    BY DEF StructRef
  <1>3. CASE find_tag(t) = NoTag
    <2>. DEFINE ty == Len(types) + 1
                x == NewType("struct", t, NoType)
                found == Append(types, x)
    <2>1. /\ tag_scope' = push_tag_scope(t, ty)
          /\ types' = IF b THEN Append(found, found[ty]) ELSE found
          /\ Specified(running, attr, IF b THEN Len(types') ELSE ty)
          /\ b /\ found[ty].members = NoType => "const_incomplete" \in Programs
      BY <1>3 DEF StructRef
    <2>2. x.members = NoType /\ x.tag = t /\ x.depth = scope_depth
      BY DEF NewType
    <2>. HIDE DEF x
    <2>3. found[ty] = x /\ DOMAIN found = 1 .. ty /\ ty \in Nat /\ ty \in DOMAIN found
          /\ \A y \in DOMAIN types : y \in DOMAIN found /\ found[y] = types[y]
      BY <1>1
    <2>. HIDE DEF found
    <2>4. types' = found /\ Specified(running, attr, ty)
      BY <2>1, <2>2, <2>3
    <2>5. Grow(types, types')
      BY <2>3, <2>4 DEF Grow
    <2>6. TypedCalls(running, running', ty)
      BY <1>2, <2>3, <2>4, SpecifierTyped DEF IInv
    <2>. HIDE DEF ty
    <2>7. Reached(types', tag_scope', ty, scope_depth)
      <3>. DEFINE e == [name |-> t, depth |-> scope_depth, ty |-> ty]
      <3>1. /\ tag_scope' = Append(tag_scope, e)
            /\ e.ty = ty /\ e.depth = scope_depth /\ e.name = t
        BY <2>1 DEF push_tag_scope
      <3>2. tag_scope \in Seq(TagEntry) /\ scope_depth \in Nat
        BY DEF IInv, ListsOK
      <3>. HIDE DEF e
      <3>3. Len(tag_scope) + 1 \in DOMAIN tag_scope' /\ tag_scope'[Len(tag_scope) + 1] = e
        BY <3>1, <3>2
      <3>4. \E j \in DOMAIN tag_scope' :
              /\ tag_scope'[j].ty = ty /\ tag_scope'[j].name = types'[ty].tag
              /\ tag_scope'[j].depth = types'[ty].depth /\ tag_scope'[j].depth <= scope_depth
        BY <2>2, <2>3, <2>4, <3>1, <3>2, <3>3
      <3>. QED BY <2>3, <2>4, <3>4 DEF Reached
    <2>8. ~ Redefines(find_tag(t)) /\ types'[ty].tag = t /\ types'[ty].depth = scope_depth
      BY <1>3, <2>2, <2>3, <2>4 DEF Redefines
    <2>. QED BY <1>2, <2>1, <2>5, <2>6, <2>7, <2>8, TagTyped
  <1>4. CASE find_tag(t) # NoTag
    <2>. DEFINE ty == find_tag(t).ty
    <2>1. /\ tag_scope' = tag_scope
          /\ types' = IF b THEN Append(types, types[ty]) ELSE types
          /\ Specified(running, attr, IF b THEN Len(types') ELSE ty)
          /\ b /\ types[ty].members = NoType => "const_incomplete" \in Programs
      BY <1>4 DEF StructRef
    <2>2. ty \in DOMAIN types /\ ty \in Nat
      BY <1>1, <1>4, FoundType
    <2>3. Reached(types, tag_scope, ty, scope_depth)
      BY <1>4, TypeOfTag
    <2>. HIDE DEF ty
    <2>4. CASE ~ b
      <3>1. types' = types /\ TypedCalls(running, running', ty)
        BY <1>2, <2>1, <2>2, <2>4, SpecifierTyped DEF IInv
      <3>. QED BY <1>2, <2>1, <2>3, <3>1, ListsKept
    <2>5. CASE b
      <3>. DEFINE new == Len(types')
      <3>1. types' = Append(types, types[ty]) /\ types[ty].members # NoType
            /\ Specified(running, attr, new)
        BY <2>1, <2>5
      <3>2. /\ new \in Nat /\ new \in DOMAIN types' /\ types'[new] = types[ty]
            /\ \A y \in DOMAIN types : y \in DOMAIN types' /\ types'[y] = types[y]
        BY <1>1, <2>2, <3>1
      <3>. HIDE DEF new
      <3>3. Grow(types, types')
        BY <3>2 DEF Grow
      <3>4. TypedCalls(running, running', new)
        BY <1>2, <3>1, <3>2, SpecifierTyped DEF IInv
      <3>5. Reached(types', tag_scope', new, scope_depth')
        BY <3>1, <3>2, CompleteReached
      <3>. QED BY <1>2, <2>1, <3>3, <3>4, <3>5, TagsStay
    <2>. QED BY <2>4, <2>5
  <1>. QED BY <1>3, <1>4

\* A definition makes a complete type, or overwrites the announced one by it.
LEMMA TypesStructDef ==
  ASSUME IInv, IInv', Completion,
         NEW attr \in Attributes \cup {"sizeof"}, NEW t \in Tags, NEW self \in BOOLEAN,
         StructDef(attr, t, self)
  PROVE  Completion'
  <1>. DEFINE ty == Len(types) + 1
              new == NewType("struct", t, ty)
              read == Append(types, new)
              two == Append(read, NewType("struct", t, NoType))
  <1>1. types \in Seq(TypeObj) /\ Len(types) \in Nat /\ DOMAIN types = 1 .. Len(types)
    BY DEF IInv, TypesOK
  <1>2. ty \in Nat /\ ty + 1 \in Nat /\ ty + 1 # 0 /\ ty # 0 /\ NoType = 0
    BY <1>1 DEF NoType
  <1>3. new.members = ty
    BY DEF NewType
  <1>. HIDE DEF new
  <1>4. /\ read[ty] = new /\ ty \in DOMAIN read /\ DOMAIN read = 1 .. ty
        /\ \A y \in DOMAIN types : y \in DOMAIN read /\ read[y] = types[y]
    BY <1>1
  <1>5. read = Append(types, NewType("struct", t, ty))
    BY DEF new
  <1>6. /\ DOMAIN two = 1 .. ty + 1 /\ ty + 1 \in DOMAIN two
        /\ \A y \in DOMAIN read : y \in DOMAIN two /\ two[y] = read[y]
    <2>1. t \in TagNames
      BY Zenon DEF TagNames
    <2>2. new \in TypeObj
      BY <1>2, <2>1, NewTypeIs DEF new
    <2>3. read \in Seq(TypeObj) /\ Len(read) = ty
      BY <1>1, <2>2
    <2>. QED BY <1>2, <1>4, <2>3
  <1>7. two = Append(read, NewType("struct", t, NoType)) /\ ty = Len(types) + 1
    OBVIOUS
  <1>. HIDE DEF read, two
  <1>8. /\ Reads(attr) /\ UNCHANGED <<var_scope, scope_depth>>
        /\ ByMember(attr, t, ty, read) \/ OfScope(attr, t, ty, read) \/ Anew(attr, t, ty, read)
    <2>. HIDE DEF ty
    <2>. QED BY <1>2, <1>5, <1>7, StructDefCases
  <1>9. read[ty].members # NoType
    BY <1>2, <1>3, <1>4
  <1>. HIDE DEF ty
  <1>10. CASE ByMember(attr, t, ty, read)
    <2>1. /\ types' = [two EXCEPT ![ty + 1] = read[ty]] /\ find_tag(t) = NoTag
          /\ tag_scope' = push_tag_scope(t, ty + 1) /\ Specified(running, attr, ty + 1)
      BY <1>7, <1>10 DEF ByMember
    <2>2. DOMAIN types' = DOMAIN two /\ types'[ty + 1] = read[ty]
          /\ \A y \in DOMAIN two : y # ty + 1 => types'[y] = two[y]
      BY <1>6, <2>1
    <2>3. Grow(types, types')
      BY <1>4, <1>6, <1>9, <2>2 DEF Grow
    <2>4. types'[ty + 1].members # NoType /\ ty + 1 \in DOMAIN types'
          /\ ~ Redefines(find_tag(t))
      BY <1>6, <1>9, <2>1, <2>2 DEF Redefines
    <2>5. TypedCalls(running, running', ty + 1)
      BY <1>2, <1>8, <2>1, SpecifierTyped DEF IInv
    <2>6. Reached(types', tag_scope', ty + 1, scope_depth)
      BY <2>4, CompleteReached
    <2>. QED BY <1>8, <2>1, <2>3, <2>4, <2>5, <2>6, TagTyped
  <1>11. CASE OfScope(attr, t, ty, read)
    <2>. DEFINE old == find_tag(t).ty
    <2>1. /\ types' = [read EXCEPT ![old] = read[ty]] /\ tag_scope' = tag_scope
          /\ Specified(running, attr, old) /\ find_tag(t) # NoTag
      BY <1>11 DEF OfScope, Redefines
    <2>2. old \in DOMAIN types /\ old \in Nat
      BY <1>1, <2>1, FoundType
    <2>. HIDE DEF old
    <2>3. DOMAIN types' = DOMAIN read /\ types'[old] = read[ty]
          /\ \A y \in DOMAIN read : y # old => types'[y] = read[y]
      BY <1>4, <2>1, <2>2
    <2>4. Grow(types, types')
      BY <1>4, <1>9, <2>3 DEF Grow
    <2>5. TypedCalls(running, running', old)
      BY <1>8, <2>1, <2>2, SpecifierTyped DEF IInv
    <2>6. Reached(types', tag_scope', old, scope_depth')
      BY <1>4, <1>9, <2>2, <2>3, CompleteReached
    <2>. QED BY <1>8, <2>1, <2>4, <2>5, <2>6, TagsStay
  <1>12. CASE Anew(attr, t, ty, read)
    <2>1. /\ types' = read /\ tag_scope' = push_tag_scope(t, ty)
          /\ Specified(running, attr, ty) /\ ~ Redefines(find_tag(t))
      BY <1>12 DEF Anew
    <2>2. Grow(types, types')
      BY <1>4, <2>1 DEF Grow
    <2>3. TypedCalls(running, running', ty)
      BY <1>2, <1>8, <2>1, SpecifierTyped DEF IInv
    <2>4. Reached(types', tag_scope', ty, scope_depth) /\ types'[ty].members # NoType
      BY <1>4, <1>9, <2>1, CompleteReached
    <2>. QED BY <1>8, <2>1, <2>2, <2>3, <2>4, TagTyped
  <1>. QED BY <1>8, <1>10, <1>11, <1>12
\* Nothing happens.
LEMMA TypesStutter ==
  ASSUME IInv, IInv', Completion, UNCHANGED vars
  PROVE  Completion'
  <1>1. UNCHANGED <<var_scope, tag_scope, scope_depth, types>> /\ running' = running
    BY DEF vars
  <1>2. TypedCalls(running, running', NoType)
    BY <1>1, CallsAreTyped
  <1>. QED BY <1>1, <1>2, NoTypeReached, ListsKept

LEMMA TypesStep ==
  ASSUME IInv, Completion, [Next]_vars, "const_incomplete" \notin Programs
  PROVE  Completion'
  <1>1. IInv'
    BY Steps
  <1>2. CASE UNCHANGED vars
    BY <1>1, <1>2, TypesStutter
  <1>3. CASE Next
    <2>1. Read
      BY <1>3 DEF Next
    <2>2. ASSUME \/ \E attr \in Attributes : BuiltinType(attr)
                 \/ \E attr \in Attributes \cup {"sizeof"} :
                      (\E n \in Names : TypedefName(attr, n)) \/ (\E t \in Tags : EnumRef(attr, t))
          PROVE  Completion'
      BY <1>1, <2>2, TypesPass
    <2>3. ASSUME NEW attr \in Attributes \cup {"sizeof"}, NEW t \in Tags, NEW b \in BOOLEAN,
                 StructRef(attr, t, b)
          PROVE  Completion'
      BY <1>1, <2>3, TypesStructRef
    <2>4. ASSUME NEW attr \in Attributes \cup {"sizeof"}, NEW t \in Tags, NEW b \in BOOLEAN,
                 StructDef(attr, t, b)
          PROVE  Completion'
      BY <1>1, <2>4, TypesStructDef
    <2>5. ASSUME NEW attr, NEW t, EnumBegin(attr, t)
          PROVE  Completion'
      BY <1>1, <2>5, TypesEnumBegin
    <2>6. ASSUME EnumEnd
          PROVE  Completion'
      BY <1>1, <2>6, TypesEnumEnd
    <2>7. ASSUME NEW n, \/ Enumerator(n) \/ Declarator(n) \/ FunctionDeclarator(n)
                        \/ Param(n) \/ UseCalled(n) \/ AddFuncIdent \/ Unnamed
          PROVE  Completion'
      BY <1>1, <2>7, TypesDeclared
    <2>8. ASSUME FunctionEnd \/ BlockEnd \/ ForEnd
          PROVE  Completion'
      BY <1>1, <2>8, TypesClosed
    <2>9. ASSUME \/ EndDeclaration \/ ForBody \/ FunctionStart \/ FunctionBody \/ BlockStart
                 \/ ForStart \/ \E n : Use(n)
          PROVE  Completion'
      BY <1>1, <2>9, TypesStatements
    <2>. QED BY <2>1, <2>2, <2>3, <2>4, <2>5, <2>6, <2>7, <2>8, <2>9, Zenon DEF Read
  <1>. QED BY <1>2, <1>3

LEMMA CompletionStarts ==
  ASSUME Init
  PROVE  Completion
  BY DEF Init, Completion, TagsUnique, Announced, Enums

LEMMA CompletionMeans ==
  ASSUME IInv, Completion
  PROVE  TypesCompleted
  <1>. SUFFICES ASSUME NEW i \in DOMAIN var_scope, NEW j \in DOMAIN tag_scope, NEW ty,
                       ty = var_scope[i].ty, ty # NoType, types[ty].members = NoType,
                       tag_scope[j].name = types[ty].tag, tag_scope[j].depth = types[ty].depth
                PROVE  types[tag_scope[j].ty].members = NoType
    BY DEF TypesCompleted
  <1>1. Reached(types, tag_scope, ty, var_scope[i].depth)
    BY DEF Completion
  <1>2. PICK k \in DOMAIN tag_scope : tag_scope[k].ty = ty /\ tag_scope[k].name = types[ty].tag
                                      /\ tag_scope[k].depth = types[ty].depth
    BY <1>1 DEF Reached
  <1>3. k = j
    BY <1>2 DEF Completion, TagsUnique
  <1>. QED BY <1>2, <1>3
-----------------------------------------------------------------------------
(***************************************************************************)
(* The theorems                                                            *)
(***************************************************************************)
LEMMA Starts ==
  ASSUME Init
  PROVE  IInv /\ B!Init
  <1>1. ListsOK
    BY DEF Init, ListsOK, Sorted
  <1>2. Opened(running) = {} /\ Enums(running) = {} /\ running \in Seq(CallRec) /\ Shape(running)
    BY DEF Init, Opened, Enums, Shape, FileCalls
  <1>3. CallsOK
    BY <1>2, FS_EmptySet DEF Init, CallsOK
  <1>4. TypesOK /\ Storage
    BY <1>2 DEF Init, TypesOK, Storage, VisibleHaveStorage
  <1>5. blocksBar = <<B!Unbound>>
    <2>1. scope_depth = 0 /\ DOMAIN var_scope = {} /\ DOMAIN tag_scope = {}
      BY DEF Init
    <2>2. \A n : NameIn(var_scope, 0, n) = None /\ TagIn(tag_scope, 0, n) = None
      BY <2>1 DEF NameIn, TagIn, At, Called
    <2>3. BlockOf(var_scope, tag_scope, 0) = B!Unbound
      BY <2>2 DEF BlockOf, B!Unbound
    <2>4. BlocksOf(var_scope, tag_scope, 0) = [d \in 1 .. 1 |-> BlockOf(var_scope, tag_scope, d - 1)]
      BY DEF BlocksOf
    <2>5. \A d \in 1 .. 1 : d - 1 = 0
      OBVIOUS
    <2>6. BlocksOf(var_scope, tag_scope, 0) = [d \in 1 .. 1 |-> B!Unbound]
      BY <2>3, <2>4, <2>5
    <2>. QED BY <2>1, <2>6, BarIs
  <1>6. entitiesBar = {}
    BY <1>2, PendingIs DEF Init, entitiesBar
  <1>. QED BY <1>1, <1>3, <1>4, <1>5, <1>6 DEF IInv, B!Init, Init

THEOREM Invariant == Spec => []IInv
  <1>1. Init => IInv
    BY Starts
  <1>2. IInv /\ [Next]_vars => IInv'
    BY Steps
  <1>. QED BY <1>1, <1>2, PTL DEF Spec

\* Every variable in scope is in the list from which its storage is laid out:
\* the locals of the function being read (funcdef() in parse.c starts a new list
\* when no local is left in scope), or the globals.
THEOREM StorageVisible == Spec => []VisibleHaveStorage
  <1>1. IInv => VisibleHaveStorage
    BY DEF IInv, Storage
  <1>. QED BY <1>1, Invariant, PTL

\* find_var() and find_tag() of parse.c, which take the newest entry of a list,
\* find what the innermost open block binds.
THEOREM Innermost == Spec => []FindsInnermost
  <1>1. IInv => FindsInnermost
    <2>. SUFFICES ASSUME IInv
                  PROVE  FindsInnermost
      OBVIOUS
    <2>1. \A n \in Names \cup {"__func__"} : Entity(find_var(n)) = B!Meaning(NameKey(n))
      BY FindVar DEF IInv, KeyNames
    <2>2. \A t \in Tags : /\ (find_tag(t) = NoTag) = (B!Meaning(TagKey(t)) = None)
                          /\ find_tag(t) # NoTag => TagEntity(find_tag(t).ty) = B!Meaning(TagKey(t))
      BY FindTag DEF IInv
    <2>. QED BY <2>1, <2>2 DEF FindsInnermost
  <1>. QED BY <1>1, Invariant, PTL

\* Whatever typespec() and struct_dec() of parse.c found a tag to be when it was
\* only announced, every name declared with it has the type object that is
\* overwritten when the tag gets its members, in this scope or through an inner
\* one.  The programs that say const struct t before t is complete are left
\* out: they keep a copy that nothing completes.
THEOREM TypesAreCompleted ==
  ASSUME "const_incomplete" \notin Programs
  PROVE  Spec => []TypesCompleted
  <1>1. Init => Completion
    BY CompletionStarts
  <1>2. IInv /\ Completion /\ [Next]_vars => Completion'
    BY TypesStep
  <1>3. IInv /\ Completion => TypesCompleted
    BY CompletionMeans
  <1>. QED BY <1>1, <1>2, <1>3, Invariant, PTL DEF Spec

\* The two lists of parse.c with their depths (push_scope(), push_tag_scope(),
\* enter_scope(), leave_scope(), find_var(), find_tag()) implement nested
\* blocks, in a program where no member declares a pointer to a tag that only an
\* outer block has.
THEOREM ImplementsBlocks ==
  ASSUME "self_in_shadow" \notin Programs
  PROVE  Spec => Refines
  <1>1. Init => B!Init
    BY Starts
  <1>2. IInv /\ [Next]_vars => [B!Next]_(B!vars)
    BY Steps
  <1>. QED BY <1>1, <1>2, Invariant, PTL DEF Spec, Refines, B!Spec
=============================================================================

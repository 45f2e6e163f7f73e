--------------------------- MODULE CodegenProofs ---------------------------
(***************************************************************************)
(* The registers are balanced in the code of every function body.  What is *)
(* to do is read as a walk: an item that is an expression or an address    *)
(* leaves one register more, a statement as many as before.  The walk      *)
(* never goes below 0, and is at 0 where top is asserted to be.            *)
(*                                                                         *)
(* The jumps are resolved in it.  What is to do defines labels: those that *)
(* are written in it, and those the nodes in it will give when their turn  *)
(* comes.  No two items define the same, and nothing in the code is        *)
(* defined again; a label the code jumps to is in it, or one that what is  *)
(* to do defines.                                                          *)
(***************************************************************************)
EXTENDS Codegen, SequenceTheorems, WellFoundedInduction, TLAPS

Net(x) ==
  IF x.do \in {"expr", "addr"} THEN 1
  ELSE IF x.do = "ins" THEN x.d
  ELSE IF x.do = "cases" THEN -1 ELSE 0

Known(x) ==
  /\ x.do \in {"expr", "addr", "stmt", "cases"} => x.n \in Nodes
  /\ x.do = "cases" => x.n.kind = "ND_SWITCH"

\* The item x takes top from a to b.
Step(x, a, b) ==
  /\ Known(x) /\ a \in Nat /\ b \in Nat /\ b = a + Net(x)
  /\ x.do = "assert" => a = 0

\* The items of s take it from a to b; h[k] is top before the k-th.
Walk(s, h, a, b) ==
  /\ h \in [1 .. Len(s) + 1 -> Nat] /\ h[1] = a /\ h[Len(s) + 1] = b
  /\ \A k \in 1 .. Len(s) : Step(s[k], h[k], h[k + 1])

\* An instruction that jumps; one that neither jumps nor is a label.
IsJump(op) == op \in {"j", "beqz", "bnez", "beq a0"}
Calm(op) == op \notin {"label", "j", "beqz", "bnez", "beq a0"}

Walks(s, a, b) == (\E S : s \in Seq(S)) /\ \E h : Walk(s, h, a, b)

Balanced ==
  /\ status # "assert" /\ top \in Nat
  /\ status = "gen" => Walks(todo, top, 0)
-----------------------------------------------------------------------------
(* Walks.                                                                  *)

LEMMA Nothing == \A a \in Nat : Walks(<<>>, a, a)
<1> SUFFICES ASSUME NEW a \in Nat PROVE Walks(<<>>, a, a)
  OBVIOUS
<1>1. Walk(<<>>, [k \in 1 .. 1 |-> a], a, a)
  BY DEF Walk
<1>2. <<>> \in Seq({})
  OBVIOUS
<1> QED
  BY <1>1, <1>2 DEF Walks

LEMMA One ==
  ASSUME NEW x, NEW a, NEW b, Step(x, a, b)
  PROVE  Walks(<<x>>, a, b)
<1> DEFINE h == [k \in 1 .. 2 |-> IF k = 1 THEN a ELSE b]
<1>1. <<x>> \in Seq({x}) /\ Len(<<x>>) = 1
  OBVIOUS
<1>2. Walk(<<x>>, h, a, b)
  BY <1>1 DEF Walk, Step
<1> QED
  BY <1>1, <1>2 DEF Walks

LEMMA Both ==
  ASSUME NEW s, NEW t, NEW a, NEW b, NEW c, Walks(s, a, b), Walks(t, b, c)
  PROVE  Walks(s \o t, a, c)
<1>1. PICK S, g : s \in Seq(S) /\ Walk(s, g, a, b)
  BY DEF Walks
<1>2. PICK T, h : t \in Seq(T) /\ Walk(t, h, b, c)
  BY DEF Walks
<1> DEFINE U == S \cup T
           n == Len(s)
           m == Len(t)
           f == [k \in 1 .. n + m + 1 |-> IF k <= n THEN g[k] ELSE h[k - n]]
<1>3. s \in Seq(U) /\ t \in Seq(U) /\ n \in Nat /\ m \in Nat
  BY <1>1, <1>2
<1> HIDE DEF U
<1>4. /\ s \o t \in Seq(U) /\ Len(s \o t) = n + m
      /\ \A k \in 1 .. n : (s \o t)[k] = s[k]
      /\ \A k \in 1 .. m : (s \o t)[n + k] = t[k]
  BY <1>3
<1> DEFINE u == s \o t
<1> HIDE DEF u, n, m
<1>5. /\ g \in [1 .. n + 1 -> Nat] /\ g[1] = a /\ g[n + 1] = b
      /\ \A k \in 1 .. n : Step(s[k], g[k], g[k + 1])
      /\ h \in [1 .. m + 1 -> Nat] /\ h[1] = b /\ h[m + 1] = c
      /\ \A k \in 1 .. m : Step(t[k], h[k], h[k + 1])
  BY <1>1, <1>2 DEF Walk, n, m
<1>6. f \in [1 .. n + m + 1 -> Nat]
  BY <1>3, <1>5 DEF n, m
<1>7. f[1] = a /\ f[n + m + 1] = c
  BY <1>3, <1>5 DEF n, m
<1>8. \A k \in 1 .. n : f[k] = g[k] /\ f[k + 1] = g[k + 1]
  BY <1>3, <1>5 DEF n, m
<1>9. \A k \in 1 .. m : f[n + k] = h[k] /\ f[n + k + 1] = h[k + 1]
  BY <1>3, <1>5 DEF n, m
<1> HIDE DEF f
<1>10. ASSUME NEW k \in 1 .. n + m PROVE Step(u[k], f[k], f[k + 1])
  <2>1. CASE k <= n
    <3>1. k \in 1 .. n
      BY <1>3, <2>1 DEF n, m
    <3> QED
      BY <1>4, <1>5, <1>8, <3>1 DEF u, n, m
  <2>2. CASE n < k
    <3>1. PICK j \in 1 .. m : k = n + j
      <4>1. k - n \in 1 .. m /\ k = n + (k - n)
        BY <1>3, <2>2 DEF n, m
      <4> QED
        BY <4>1
    <3> QED
      BY <1>4, <1>5, <1>9, <3>1 DEF u, n, m
  <2> QED
    BY <1>3, <2>1, <2>2 DEF n, m
<1>11. Walk(u, f, a, c)
  BY <1>4, <1>6, <1>7, <1>10 DEF Walk, u, n, m
<1> QED
  BY <1>4, <1>11 DEF Walks, u

\* What is left when the first item is done.
LEMMA First ==
  ASSUME NEW s, NEW a, NEW c, Walks(s, a, c), s # <<>>
  PROVE  /\ Step(Head(s), a, a + Net(Head(s)))
         /\ Walks(Tail(s), a + Net(Head(s)), c)
<1>1. PICK S, h : s \in Seq(S) /\ Walk(s, h, a, c)
  BY DEF Walks
<1> DEFINE n == Len(s)
           g == [k \in 1 .. n |-> h[k + 1]]
<1>2. n \in Nat /\ n >= 1 /\ Head(s) = s[1]
  BY <1>1
<1>3. /\ Tail(s) \in Seq(S) /\ Len(Tail(s)) = n - 1
      /\ \A k \in 1 .. n - 1 : Tail(s)[k] = s[k + 1]
  BY <1>1, <1>2
<1> DEFINE t == Tail(s)
<1> HIDE DEF n, t
<1>4. /\ h \in [1 .. n + 1 -> Nat] /\ h[1] = a /\ h[n + 1] = c
      /\ \A k \in 1 .. n : Step(s[k], h[k], h[k + 1])
  BY <1>1 DEF Walk, n
<1>5. 1 \in 1 .. n /\ 1 + 1 = 2
  BY <1>2 DEF n
<1>6. Step(s[1], a, h[2])
  BY <1>4, <1>5
<1>7. h[2] = a + Net(s[1])
  BY <1>6 DEF Step
<1>8. g \in [1 .. n -> Nat] /\ g[1] = h[2] /\ g[n] = c
  BY <1>2, <1>4, <1>5 DEF n
<1>9. \A k \in 1 .. n - 1 : g[k] = h[k + 1] /\ g[k + 1] = h[k + 1 + 1]
  BY <1>2 DEF n
<1> HIDE DEF g
<1>10. \A k \in 1 .. n - 1 : Step(t[k], g[k], g[k + 1])
  <2> SUFFICES ASSUME NEW k \in 1 .. n - 1 PROVE Step(t[k], g[k], g[k + 1])
    OBVIOUS
  <2>1. PICK j \in 1 .. n : j = k + 1
    BY <1>2 DEF n
  <2>2. Step(s[j], h[j], h[j + 1])
    BY <1>4
  <2>3. t[k] = s[j] /\ g[k] = h[j] /\ g[k + 1] = h[j + 1]
    BY <1>3, <1>9, <2>1 DEF t, n
  <2> QED
    BY <2>2, <2>3
<1>11. n - 1 + 1 = n
  BY <1>2 DEF n
<1>12. Walk(t, g, h[2], c)
  BY <1>3, <1>8, <1>10, <1>11 DEF Walk, t, n
<1> QED
  BY <1>2, <1>3, <1>6, <1>7, <1>12 DEF Walks, t, n

\* Items that leave top where it is.
LEMMA Level ==
  ASSUME NEW S, NEW s \in Seq(S), NEW a \in Nat, \A k \in 1 .. Len(s) : Step(s[k], a, a)
  PROVE  Walks(s, a, a)
<1> DEFINE h == [k \in 1 .. Len(s) + 1 |-> a]
<1>1. Len(s) \in Nat
  OBVIOUS
<1>2. Walk(s, h, a, a)
  BY <1>1 DEF Walk
<1> QED
  BY <1>2 DEF Walks

LEMMA Two ==
  ASSUME NEW x, NEW y,
         NEW a, NEW b, NEW c,
         Step(x, a, b), Step(y, b, c)
  PROVE  Walks(<<x, y>>, a, c)
<1> DEFINE s == <<x, y>>
           p == [k \in 1 .. 3 |-> IF k = 1 THEN a ELSE IF k = 2 THEN b ELSE c]
<1>1. s \in Seq({x, y}) /\ Len(s) = 2
  OBVIOUS
<1>2. s[1] = x /\ s[2] = y
  OBVIOUS
<1>3. p[1] = a /\ p[2] = b /\ p[3] = c
  OBVIOUS
<1>4. p \in [1 .. 3 -> Nat]
  BY DEF Step
<1> HIDE DEF s, p
<1>5. ASSUME NEW k \in 1 .. 2 PROVE Step(s[k], p[k], p[k + 1])
  <2>1. k = 1 \/ k = 2
    OBVIOUS
  <2> QED
    BY <1>2, <1>3, <2>1
<1>6. Walk(s, p, a, c)
  BY <1>1, <1>3, <1>4, <1>5 DEF Walk
<1> QED
  BY <1>1, <1>6 DEF Walks, s

LEMMA Three ==
  ASSUME NEW x, NEW y, NEW z,
         NEW a, NEW b, NEW c, NEW d,
         Step(x, a, b), Step(y, b, c), Step(z, c, d)
  PROVE  Walks(<<x, y, z>>, a, d)
<1> DEFINE s == <<x, y, z>>
           p == [k \in 1 .. 4 |-> IF k = 1 THEN a ELSE IF k = 2 THEN b ELSE IF k = 3 THEN c ELSE d]
<1>1. s \in Seq({x, y, z}) /\ Len(s) = 3
  OBVIOUS
<1>2. s[1] = x /\ s[2] = y /\ s[3] = z
  OBVIOUS
<1>3. p[1] = a /\ p[2] = b /\ p[3] = c /\ p[4] = d
  OBVIOUS
<1>4. p \in [1 .. 4 -> Nat]
  BY DEF Step
<1> HIDE DEF s, p
<1>5. ASSUME NEW k \in 1 .. 3 PROVE Step(s[k], p[k], p[k + 1])
  <2>1. k = 1 \/ k = 2 \/ k = 3
    OBVIOUS
  <2> QED
    BY <1>2, <1>3, <2>1
<1>6. Walk(s, p, a, d)
  BY <1>1, <1>3, <1>4, <1>5 DEF Walk
<1> QED
  BY <1>1, <1>6 DEF Walks, s

LEMMA Four ==
  ASSUME NEW x, NEW y, NEW z, NEW u,
         NEW a, NEW b, NEW c, NEW d, NEW e,
         Step(x, a, b), Step(y, b, c), Step(z, c, d), Step(u, d, e)
  PROVE  Walks(<<x, y, z, u>>, a, e)
<1> DEFINE s == <<x, y, z, u>>
           p == [k \in 1 .. 5 |-> IF k = 1 THEN a ELSE IF k = 2 THEN b ELSE IF k = 3 THEN c ELSE IF k = 4 THEN d ELSE e]
<1>1. s \in Seq({x, y, z, u}) /\ Len(s) = 4
  OBVIOUS
<1>2. s[1] = x /\ s[2] = y /\ s[3] = z /\ s[4] = u
  OBVIOUS
<1>3. p[1] = a /\ p[2] = b /\ p[3] = c /\ p[4] = d /\ p[5] = e
  OBVIOUS
<1>4. p \in [1 .. 5 -> Nat]
  BY DEF Step
<1> HIDE DEF s, p
<1>5. ASSUME NEW k \in 1 .. 4 PROVE Step(s[k], p[k], p[k + 1])
  <2>1. k = 1 \/ k = 2 \/ k = 3 \/ k = 4
    OBVIOUS
  <2> QED
    BY <1>2, <1>3, <2>1
<1>6. Walk(s, p, a, e)
  BY <1>1, <1>3, <1>4, <1>5 DEF Walk
<1> QED
  BY <1>1, <1>6 DEF Walks, s

LEMMA Five ==
  ASSUME NEW x, NEW y, NEW z, NEW u, NEW v,
         NEW a, NEW b, NEW c, NEW d, NEW e, NEW f,
         Step(x, a, b), Step(y, b, c), Step(z, c, d), Step(u, d, e), Step(v, e, f)
  PROVE  Walks(<<x, y, z, u, v>>, a, f)
<1> DEFINE s == <<x, y, z, u, v>>
           p == [k \in 1 .. 6 |-> IF k = 1 THEN a ELSE IF k = 2 THEN b ELSE IF k = 3 THEN c ELSE IF k = 4 THEN d ELSE IF k = 5 THEN e ELSE f]
<1>1. s \in Seq({x, y, z, u, v}) /\ Len(s) = 5
  OBVIOUS
<1>2. s[1] = x /\ s[2] = y /\ s[3] = z /\ s[4] = u /\ s[5] = v
  OBVIOUS
<1>3. p[1] = a /\ p[2] = b /\ p[3] = c /\ p[4] = d /\ p[5] = e /\ p[6] = f
  OBVIOUS
<1>4. p \in [1 .. 6 -> Nat]
  BY DEF Step
<1> HIDE DEF s, p
<1>5. ASSUME NEW k \in 1 .. 5 PROVE Step(s[k], p[k], p[k + 1])
  <2>1. k = 1 \/ k = 2 \/ k = 3 \/ k = 4 \/ k = 5
    OBVIOUS
  <2> QED
    BY <1>2, <1>3, <2>1
<1>6. Walk(s, p, a, f)
  BY <1>1, <1>3, <1>4, <1>5 DEF Walk
<1> QED
  BY <1>1, <1>6 DEF Walks, s

LEMMA Six ==
  ASSUME NEW x, NEW y, NEW z, NEW u, NEW v, NEW w,
         NEW a, NEW b, NEW c, NEW d, NEW e, NEW f, NEW g,
         Step(x, a, b), Step(y, b, c), Step(z, c, d), Step(u, d, e), Step(v, e, f), Step(w, f, g)
  PROVE  Walks(<<x, y, z, u, v, w>>, a, g)
<1> DEFINE s == <<x, y, z, u, v, w>>
           p == [k \in 1 .. 7 |-> IF k = 1 THEN a ELSE IF k = 2 THEN b ELSE IF k = 3 THEN c ELSE IF k = 4 THEN d ELSE IF k = 5 THEN e ELSE IF k = 6 THEN f ELSE g]
<1>1. s \in Seq({x, y, z, u, v, w}) /\ Len(s) = 6
  OBVIOUS
<1>2. s[1] = x /\ s[2] = y /\ s[3] = z /\ s[4] = u /\ s[5] = v /\ s[6] = w
  OBVIOUS
<1>3. p[1] = a /\ p[2] = b /\ p[3] = c /\ p[4] = d /\ p[5] = e /\ p[6] = f /\ p[7] = g
  OBVIOUS
<1>4. p \in [1 .. 7 -> Nat]
  BY DEF Step
<1> HIDE DEF s, p
<1>5. ASSUME NEW k \in 1 .. 6 PROVE Step(s[k], p[k], p[k + 1])
  <2>1. k = 1 \/ k = 2 \/ k = 3 \/ k = 4 \/ k = 5 \/ k = 6
    OBVIOUS
  <2> QED
    BY <1>2, <1>3, <2>1
<1>6. Walk(s, p, a, g)
  BY <1>1, <1>3, <1>4, <1>5 DEF Walk
<1> QED
  BY <1>1, <1>6 DEF Walks, s

LEMMA Seven ==
  ASSUME NEW x, NEW y, NEW z, NEW u, NEW v, NEW w, NEW r,
         NEW a, NEW b, NEW c, NEW d, NEW e, NEW f, NEW g, NEW h,
         Step(x, a, b), Step(y, b, c), Step(z, c, d), Step(u, d, e), Step(v, e, f), Step(w, f, g), Step(r, g, h)
  PROVE  Walks(<<x, y, z, u, v, w, r>>, a, h)
<1> DEFINE s == <<x, y, z, u, v, w, r>>
           p == [k \in 1 .. 8 |-> IF k = 1 THEN a ELSE IF k = 2 THEN b ELSE IF k = 3 THEN c ELSE IF k = 4 THEN d ELSE IF k = 5 THEN e ELSE IF k = 6 THEN f ELSE IF k = 7 THEN g ELSE h]
<1>1. s \in Seq({x, y, z, u, v, w, r}) /\ Len(s) = 7
  OBVIOUS
<1>2. s[1] = x /\ s[2] = y /\ s[3] = z /\ s[4] = u /\ s[5] = v /\ s[6] = w /\ s[7] = r
  OBVIOUS
<1>3. p[1] = a /\ p[2] = b /\ p[3] = c /\ p[4] = d /\ p[5] = e /\ p[6] = f /\ p[7] = g /\ p[8] = h
  OBVIOUS
<1>4. p \in [1 .. 8 -> Nat]
  BY DEF Step
<1> HIDE DEF s, p
<1>5. ASSUME NEW k \in 1 .. 7 PROVE Step(s[k], p[k], p[k + 1])
  <2>1. k = 1 \/ k = 2 \/ k = 3 \/ k = 4 \/ k = 5 \/ k = 6 \/ k = 7
    OBVIOUS
  <2> QED
    BY <1>2, <1>3, <2>1
<1>6. Walk(s, p, a, h)
  BY <1>1, <1>3, <1>4, <1>5 DEF Walk
<1> QED
  BY <1>1, <1>6 DEF Walks, s
-----------------------------------------------------------------------------
(* Nodes.                                                                  *)

TwoParts == Binary \cup {"ND_ASSIGN", "ND_COMMA", "ND_LOGAND", "ND_LOGOR"}
OnePart ==
  {"ND_ADDR", "ND_DEREF", "ND_CAST", "ND_NOT", "ND_BITNOT", "ND_FUNCALL", "ND_CASE", "ND_LABEL",
   "ND_RETURN", "ND_EXPR_STMT"}

LEMMA BinaryKinds ==
  Binary = {"ND_ADD", "ND_SUB", "ND_MUL", "ND_BITAND", "ND_BITOR", "ND_BITXOR", "ND_SHL",
            "ND_DIV", "ND_EQ", "ND_NE", "ND_LT", "ND_LE", "ND_MOD", "ND_SHR"}
<1>1. DOMAIN Plainly = {"ND_ADD", "ND_SUB", "ND_MUL", "ND_BITAND", "ND_BITOR", "ND_BITXOR", "ND_SHL"}
  BY DEF Plainly
<1>2. DOMAIN Floating = {"ND_ADD", "ND_SUB", "ND_MUL", "ND_DIV", "ND_EQ", "ND_NE", "ND_LT", "ND_LE"}
  BY DEF Floating
<1> QED
  BY <1>1, <1>2 DEF Binary

LEMMA PartsOfKind ==
  ASSUME NEW n
  PROVE  /\ n.kind \in TwoParts => Parts(n) = <<n.lhs, n.rhs>>
         /\ n.kind \in OnePart => Parts(n) = <<n.lhs>>
         /\ n.kind \in {"ND_COND", "ND_IF"} => Parts(n) = <<n.cond, n.then, n.els>>
         /\ n.kind \in {"ND_WHILE", "ND_DO", "ND_SWITCH"} => Parts(n) = <<n.cond, n.then>>
         /\ n.kind = "ND_FOR" => Parts(n) = <<n.init, n.cond, n.then, n.inc>>
         /\ n.kind \in {"ND_STMT_EXPR", "ND_BLOCK"} => Parts(n) = n.body
<1>1. n.kind \in TwoParts => Parts(n) = <<n.lhs, n.rhs>>
  BY BinaryKinds DEF Parts, TwoParts
<1>2. n.kind \in OnePart => Parts(n) = <<n.lhs>>
  BY BinaryKinds DEF Parts, OnePart
<1>3. n.kind \in {"ND_COND", "ND_IF"} => Parts(n) = <<n.cond, n.then, n.els>>
  BY BinaryKinds DEF Parts
<1>4. n.kind \in {"ND_WHILE", "ND_DO", "ND_SWITCH"} => Parts(n) = <<n.cond, n.then>>
  BY BinaryKinds DEF Parts
<1>5. n.kind = "ND_FOR" => Parts(n) = <<n.init, n.cond, n.then, n.inc>>
  BY BinaryKinds DEF Parts
<1>6. n.kind \in {"ND_STMT_EXPR", "ND_BLOCK"} => Parts(n) = n.body
  BY BinaryKinds DEF Parts
<1> QED
  BY <1>1, <1>2, <1>3, <1>4, <1>5, <1>6

\* The parts of a node are nodes.
LEMMA NodeParts ==
  ASSUME NEW n \in Nodes
  PROVE  /\ n.kind \in TwoParts \cup OnePart => n.lhs \in Nodes
         /\ n.kind \in TwoParts => n.rhs \in Nodes
         /\ n.kind \in {"ND_COND", "ND_IF", "ND_WHILE", "ND_DO", "ND_FOR", "ND_SWITCH"} =>
              n.cond \in Nodes /\ n.then \in Nodes
         /\ n.kind \in {"ND_COND", "ND_IF"} => n.els \in Nodes
         /\ n.kind = "ND_FOR" => n.init \in Nodes /\ n.inc \in Nodes
         /\ n.kind \in {"ND_STMT_EXPR", "ND_BLOCK"} => n.body \in Seq(Nodes)
         /\ n.kind = "ND_FUNCALL" => n.args \in Seq(Nodes)
         /\ n.kind = "ND_SWITCH" => n.case_next \in Seq(Nodes)
<1>1. Parts(n) \in Seq(Nodes)
  BY NodesAssumption DEF Closed
<1>2. \A x, y, z, w :
        /\ <<x>> \in Seq(Nodes) => x \in Nodes
        /\ <<x, y>> \in Seq(Nodes) => x \in Nodes /\ y \in Nodes
        /\ <<x, y, z>> \in Seq(Nodes) => x \in Nodes /\ y \in Nodes /\ z \in Nodes
        /\ <<x, y, z, w>> \in Seq(Nodes) => x \in Nodes /\ y \in Nodes /\ z \in Nodes /\ w \in Nodes
  OBVIOUS
<1>3. n.kind \in TwoParts => n.lhs \in Nodes /\ n.rhs \in Nodes
  BY <1>1, <1>2, PartsOfKind
<1>4. n.kind \in OnePart => n.lhs \in Nodes
  BY <1>1, <1>2, PartsOfKind
<1>5. n.kind \in {"ND_COND", "ND_IF"} => n.cond \in Nodes /\ n.then \in Nodes /\ n.els \in Nodes
  BY <1>1, <1>2, PartsOfKind
<1>6. n.kind \in {"ND_WHILE", "ND_DO", "ND_SWITCH"} => n.cond \in Nodes /\ n.then \in Nodes
  BY <1>1, <1>2, PartsOfKind
<1>7. n.kind = "ND_FOR" => n.init \in Nodes /\ n.cond \in Nodes /\ n.then \in Nodes /\ n.inc \in Nodes
  BY <1>1, <1>2, PartsOfKind
<1>8. n.kind \in {"ND_STMT_EXPR", "ND_BLOCK"} => n.body \in Seq(Nodes)
  BY <1>1, PartsOfKind
<1>9. /\ n.kind = "ND_FUNCALL" => n.args \in Seq(Nodes)
      /\ n.kind = "ND_SWITCH" => n.case_next \in Seq(Nodes)
  BY NodesAssumption DEF Closed
<1> QED
  BY <1>3, <1>4, <1>5, <1>6, <1>7, <1>8, <1>9
-----------------------------------------------------------------------------
(* Items.                                                                  *)

LEMMA NodeItems ==
  \A n \in Nodes, a \in Nat :
    /\ Step(Expr(n), a, a + 1) /\ Step(Addr(n), a, a + 1) /\ Step(Stmt(n), a, a)
BY DEF Step, Known, Net, Expr, Addr, Stmt

LEMMA Instructions ==
  \A op, regs, arg : \A a \in Nat :
    /\ Step(Ins(op, regs, arg, 0), a, a)
    /\ Step(Ins(op, regs, arg, 1), a, a + 1)
    /\ Step(Ins(op, regs, arg, -1), a + 1, a)
BY DEF Step, Known, Net, Ins

LEMMA Marks ==
  /\ Step(AssertTop, 0, 0)
  /\ \A brk, cont : \A a \in Nat : Step(Restore(brk, cont), a, a)
BY DEF Step, Known, Net, AssertTop, Restore

\* What the helpers of codegen.c do with the registers.
LEMMA CmpZero == \A ty : \A a \in Nat : Walks(cmp_zero(ty), a + 1, a)
<1> SUFFICES ASSUME NEW ty, NEW a \in Nat PROVE Walks(cmp_zero(ty), a + 1, a)
  OBVIOUS
<1>1. PICK op, regs : cmp_zero(ty) = <<Ins(op, regs, <<>>, -1)>>
  BY DEF cmp_zero
<1> QED
  BY <1>1, One, Instructions

LEMMA Load == \A ty : \A a \in Nat : Walks(load(ty), a, a)
<1> SUFFICES ASSUME NEW ty, NEW a \in Nat PROVE Walks(load(ty), a, a)
  OBVIOUS
<1>1. load(ty) = <<>> \/ \E op, regs, arg : load(ty) = <<Ins(op, regs, arg, 0)>>
  BY DEF load
<1> QED
  BY <1>1, Nothing, One, Instructions

LEMMA Store == \A ty : \A a \in Nat : Walks(store(ty), a + 1, a)
<1> SUFFICES ASSUME NEW ty, NEW a \in Nat PROVE Walks(store(ty), a + 1, a)
  OBVIOUS
<1>1. PICK op, regs, arg : store(ty) = <<Ins(op, regs, arg, -1)>>
  BY DEF store
<1> QED
  BY <1>1, One, Instructions

LEMMA Cast == \A from, to : \A a \in Nat : Walks(cast(from, to), a + 1, a + 1)
<1> SUFFICES ASSUME NEW from, NEW to, NEW a \in Nat PROVE Walks(cast(from, to), a + 1, a + 1)
  OBVIOUS
<1>1. CASE to = "bool"
  <2>1. cast(from, to) = cmp_zero(from) \o <<Ins("seqz", <<R(0), R(0)>>, <<>>, 1)>>
    BY <1>1 DEF cast, IsFlo
  <2>2. Walks(<<Ins("seqz", <<R(0), R(0)>>, <<>>, 1)>>, a, a + 1)
    BY One, Instructions
  <2> QED
    BY <2>1, <2>2, CmpZero, Both
<1>2. CASE to # "bool"
  <2>1. cast(from, to) = <<>> \/ \E op, regs, arg : cast(from, to) = <<Ins(op, regs, arg, 0)>>
    BY <1>2 DEF cast
  <2> QED
    BY <2>1, Nothing, One, Instructions
<1> QED
  BY <1>1, <1>2

LEMMA BinaryCode ==
  ASSUME NEW n, n.kind \in Binary
  PROVE  \E op, regs, oq, regt :
           /\ Calm(op) /\ Calm(oq)
           /\ \/ binary(n) = <<Ins(op, regs, <<>>, 0)>>
              \/ binary(n) = <<Ins(op, regs, <<>>, 0)>> \o <<>>
              \/ binary(n) = <<Ins(op, regs, <<>>, 0)>> \o <<Ins(oq, regt, <<>>, 0)>>
<1> DEFINE flo == IsFlo(n.lhs.ty) /\ n.kind \in DOMAIN Floating
           K == {"ND_ADD", "ND_SUB", "ND_MUL", "ND_BITAND", "ND_BITOR", "ND_BITXOR", "ND_SHL"}
           L == {"ND_ADD", "ND_SUB", "ND_MUL", "ND_DIV", "ND_EQ", "ND_NE", "ND_LT", "ND_LE"}
<1>1. /\ \A op \in {"add", "sub", "mul", "and", "or", "xor", "sll"} : Calm(op)
      /\ \A op \in {"fadd", "fsub", "fmul", "fdiv", "feq", "flt", "fle"} : Calm(op)
      /\ \A op \in {"div", "divu", "rem", "remu", "srl", "sra", "slt", "sltu", "seqz", "snez"} : Calm(op)
  BY DEF Calm
<1>2. DOMAIN Plainly = K /\ DOMAIN Floating = L
  BY DEF Plainly, Floating
<1>3. (\A k \in K : Calm(Plainly[k])) /\ (\A k \in L : Calm(Floating[k]))
  BY <1>1 DEF Plainly, Floating
<1>4. n.kind \in K \cup L \cup {"ND_MOD", "ND_SHR"}
  BY <1>2 DEF Binary
<1>5. CASE flo
  <2> DEFINE op == Floating[n.kind]
             regs == <<Of(n.ty, -2), F(-2), F(-1)>>
  <2>1. Calm(op)
    BY <1>2, <1>3, <1>5
  <2>2. CASE n.kind = "ND_NE"
    <3>1. binary(n) = <<Ins(op, regs, <<>>, 0)>> \o <<Ins("seqz", <<R(-2), R(-2)>>, <<>>, 0)>>
      BY <1>5, <2>2 DEF binary
    <3> QED
      BY <1>1, <2>1, <3>1
  <2>3. CASE n.kind # "ND_NE"
    <3>1. binary(n) = <<Ins(op, regs, <<>>, 0)>> \o <<>>
      BY <1>2, <1>5, <2>3 DEF binary
    <3> QED
      BY <2>1, <3>1
  <2> QED
    BY <2>2, <2>3
<1>6. CASE ~flo /\ n.kind \in K
  <2> DEFINE op == Plainly[n.kind]
             regs == <<R(-2), R(-2), R(-1)>>
  <2>1. Calm(op)
    BY <1>3, <1>6
  <2>2. binary(n) = <<Ins(op, regs, <<>>, 0)>>
    BY <1>2, <1>6 DEF binary
  <2> QED
    BY <2>1, <2>2
<1>7. CASE ~flo /\ n.kind \in {"ND_DIV", "ND_MOD", "ND_SHR", "ND_LT"}
  <2>1. \E op, regs : op \in {"div", "divu", "rem", "remu", "srl", "sra", "slt", "sltu"} /\
          binary(n) = <<Ins(op, regs, <<>>, 0)>>
    <3>1. CASE n.kind = "ND_DIV"
      BY <1>2, <1>7, <3>1 DEF binary
    <3>2. CASE n.kind = "ND_MOD"
      BY <1>2, <1>7, <3>2 DEF binary
    <3>3. CASE n.kind = "ND_SHR"
      BY <1>2, <1>7, <3>3 DEF binary
    <3>4. CASE n.kind = "ND_LT"
      BY <1>2, <1>7, <3>4 DEF binary
    <3> QED
      BY <1>7, <3>1, <3>2, <3>3, <3>4
  <2> QED
    BY <1>1, <2>1
<1>8. CASE ~flo /\ n.kind \in {"ND_EQ", "ND_NE", "ND_LE"}
  <2>1. \E op, oq, regs, regt :
          /\ op \in {"sub", "slt", "sltu"} /\ oq \in {"seqz", "snez"}
          /\ binary(n) = <<Ins(op, regs, <<>>, 0)>> \o <<Ins(oq, regt, <<>>, 0)>>
    BY <1>2, <1>8 DEF binary
  <2> QED
    BY <1>1, <2>1
<1> QED
  BY <1>2, <1>4, <1>5, <1>6, <1>7, <1>8

LEMMA BinaryWalks ==
  ASSUME NEW n, n.kind \in Binary, NEW a \in Nat
  PROVE  Walks(binary(n), a, a)
<1>1. \A op, regs : Walks(<<Ins(op, regs, <<>>, 0)>>, a, a)
  BY One, Instructions
<1>2. \A op, regs, oq, regt :
        Walks(<<Ins(op, regs, <<>>, 0)>> \o <<Ins(oq, regt, <<>>, 0)>>, a, a)
  BY <1>1, Both
<1> QED
  BY <1>1, <1>2, BinaryCode, Nothing, Both

LEMMA Flat ==
  /\ \A op, r, name, s : \A a \in Nat : Step(Branch(op, r, name, s), a, a)
  /\ \A name, s : \A a \in Nat : Step(Label(name, s), a, a) /\ Step(Jump(name, s), a, a)
  /\ \A a \in Nat : Step(Top(1), a, a + 1) /\ Step(Top(-1), a + 1, a)
BY Instructions DEF Branch, Label, Jump, Top

\* A condition leaves its result in a register above top.
LEMMA Condition ==
  ASSUME NEW n \in Nodes, NEW ty, NEW a \in Nat
  PROVE  Walks(<<Expr(n)>> \o cmp_zero(ty), a, a)
<1>1. Walks(<<Expr(n)>>, a, a + 1)
  BY NodeItems, One
<1> QED
  BY <1>1, CmpZero, Both

LEMMA LogicalWalks ==
  ASSUME NEW l \in Nodes, NEW r \in Nodes, NEW t, NEW u, NEW a \in Nat, NEW x, NEW y, NEW rest,
         Step(x, a, a), Step(y, a, a), Walks(rest, a, a + 1)
  PROVE  Walks(<<Expr(l)>> \o cmp_zero(t) \o <<x>> \o <<Expr(r)>> \o cmp_zero(u) \o <<y>> \o rest,
               a, a + 1)
<1>1. Walks(<<Expr(r)>>, a, a + 1) /\ Walks(<<x>>, a, a) /\ Walks(<<y>>, a, a)
  BY NodeItems, One
<1> DEFINE A == <<Expr(l)>> \o cmp_zero(t)
           B == A \o <<x>>
           C == B \o <<Expr(r)>>
           D == C \o cmp_zero(u)
           E == D \o <<y>>
<1>2. Walks(A, a, a)
  BY Condition
<1> HIDE DEF A
<1>3. Walks(B, a, a)
  BY <1>1, <1>2, Both
<1> HIDE DEF B
<1>4. Walks(C, a, a + 1)
  BY <1>1, <1>3, Both
<1> HIDE DEF C
<1>5. Walks(D, a, a)
  BY <1>4, CmpZero, Both
<1> HIDE DEF D
<1>6. Walks(E, a, a)
  BY <1>1, <1>5, Both
<1> HIDE DEF E
<1>7. Walks(E \o rest, a, a + 1)
  BY <1>6, Both
<1> QED
  BY <1>7 DEF A, B, C, D, E

\* The statements of a body.
LEMMA Statements ==
  ASSUME NEW body \in Seq(Nodes), NEW a \in Nat
  PROVE  Walks([i \in DOMAIN body |-> Stmt(body[i])], a, a)
<1> DEFINE s == [i \in DOMAIN body |-> Stmt(body[i])]
<1>1. s \in Seq({Stmt(n) : n \in Nodes}) /\ Len(s) = Len(body)
  OBVIOUS
<1>2. \A i \in 1 .. Len(s) : s[i] = Stmt(body[i]) /\ body[i] \in Nodes
  BY <1>1
<1> HIDE DEF s
<1>3. \A i \in 1 .. Len(s) : Step(s[i], a, a)
  BY <1>2, NodeItems
<1> QED
  BY <1>1, <1>3, Level DEF s

\* The end of && and ||.
LEMMA Outcome ==
  ASSUME NEW v, NEW w, NEW l, NEW a \in Nat
  PROVE  Walks(<<Ins("li", <<R(0)>>, <<v>>, 0), Jump("end", seq), Label(l, seq),
                 Ins("li", <<R(0)>>, <<w>>, 1), Label("end", seq)>>, a, a + 1)
<1>1. /\ Step(Ins("li", <<R(0)>>, <<v>>, 0), a, a) /\ Step(Jump("end", seq), a, a)
      /\ Step(Label(l, seq), a, a) /\ Step(Ins("li", <<R(0)>>, <<w>>, 1), a, a + 1)
      /\ Step(Label("end", seq), a + 1, a + 1)
  BY Instructions, Flat
<1> QED
  BY <1>1, Five
-----------------------------------------------------------------------------
(* Steps.                                                                  *)

\* A call does its item by doing others.
LEMMA Becomes ==
  ASSUME Balanced, status = "gen", todo # <<>>, NEW items, Become(items),
         Walks(items, top, top + Net(Head(todo)))
  PROVE  Balanced'
<1>1. Walks(Tail(todo), top + Net(Head(todo)), 0)
  BY First DEF Balanced
<1>2. todo' = items \o Tail(todo) /\ UNCHANGED <<top, status>>
  BY DEF Become
<1>3. Walks(items \o Tail(todo), top, 0)
  BY <1>1, Both
<1> QED
  BY <1>2, <1>3 DEF Balanced

\* A call that reports an error changes nothing else.
LEMMA Fails == ASSUME Balanced, Fail PROVE Balanced'
BY DEF Balanced, Fail

LEMMA AtItem ==
  ASSUME Balanced, NEW do \in {"expr", "addr", "stmt", "cases"}, At(do)
  PROVE  /\ status = "gen" /\ todo # <<>> /\ top \in Nat /\ N \in Nodes
         /\ Net(Head(todo)) = IF do \in {"expr", "addr"} THEN 1 ELSE IF do = "cases" THEN -1 ELSE 0
         /\ do = "cases" => N.kind = "ND_SWITCH" /\ top + Net(Head(todo)) \in Nat
<1>1. status = "gen" /\ todo # <<>> /\ Head(todo).do = do
  BY DEF At
<1>2. Step(Head(todo), top, top + Net(Head(todo)))
  BY <1>1, First DEF Balanced
<1> QED
  BY <1>1, <1>2 DEF Balanced, Step, Known, N, Net

LEMMA AddrStep == ASSUME Balanced, GenAddr PROVE Balanced'
<1>1. /\ status = "gen" /\ todo # <<>> /\ top \in Nat /\ N \in Nodes
      /\ Net(Head(todo)) = 1
  <2>1. At("addr")
    BY DEF GenAddr, AddrVar, AddrDeref, AddrComma, AddrOther, AtNode
  <2> QED
    BY <2>1, AtItem
<1>2. ASSUME NEW items, Plain(items), Walks(items, top, top + 1) PROVE Balanced'
  BY <1>1, <1>2, Becomes DEF Plain
<1>3. CASE AddrVar
  <2>1. Walks(<<Ins("addr", <<R(0)>>, <<N.var>>, 1)>>, top, top + 1)
    BY <1>1, One, Instructions
  <2> QED
    BY <1>2, <1>3, <2>1 DEF AddrVar
<1>4. CASE AddrDeref
  <2>1. N.lhs \in Nodes
    BY <1>1, <1>4, NodeParts DEF AddrDeref, AtNode, OnePart
  <2>2. Walks(<<Expr(N.lhs)>>, top, top + 1)
    BY <1>1, <2>1, One, NodeItems
  <2> QED
    BY <1>2, <1>4, <2>2 DEF AddrDeref
<1>5. CASE AddrComma
  <2>1. N.lhs \in Nodes /\ N.rhs \in Nodes
    BY <1>1, <1>5, NodeParts DEF AddrComma, AtNode, TwoParts
  <2>2. Walks(<<Expr(N.lhs), Top(-1), Addr(N.rhs)>>, top, top + 1)
    BY <1>1, <2>1, Three, NodeItems, Flat
  <2> QED
    BY <1>2, <1>5, <2>2 DEF AddrComma
<1>6. CASE AddrOther
  BY <1>6, Fails DEF AddrOther
<1> QED
  BY <1>3, <1>4, <1>5, <1>6 DEF GenAddr

LEMMA ExprStep == ASSUME Balanced, GenExpr PROVE Balanced'
<1>1. /\ status = "gen" /\ todo # <<>> /\ top \in Nat /\ N \in Nodes
      /\ Net(Head(todo)) = 1
  <2>1. At("expr")
    BY DEF GenExpr, ExprNum, ExprVar, ExprAssign, ExprAddr, ExprDeref, ExprStmtExpr, ExprNull,
       ExprComma, ExprCast, ExprCond, ExprNot, ExprLogAnd, ExprLogOr, ExprBitNot, ExprFuncall,
       ExprBinary, AtNode
  <2> QED
    BY <2>1, AtItem
<1>2. ASSUME NEW items, Plain(items) \/ Labelled(items), Walks(items, top, top + 1)
      PROVE  Balanced'
  BY <1>1, <1>2, Becomes DEF Plain, Labelled
<1>3. CASE ExprNum
  <2>1. Walks(<<Ins("li", <<Of(N.ty, 0)>>, <<N.val>>, 1)>>, top, top + 1)
    BY <1>1, One, Instructions
  <2> QED
    BY <1>2, <1>3, <2>1 DEF ExprNum
<1>4. CASE ExprVar
  <2>1. Walks(<<Addr(N)>> \o load(N.ty), top, top + 1)
    <3>1. Walks(<<Addr(N)>>, top, top + 1)
      BY <1>1, One, NodeItems
    <3> QED
      BY <1>1, <3>1, Load, Both
  <2> QED
    BY <1>2, <1>4, <2>1 DEF ExprVar
<1>5. CASE ExprAssign
  <2>1. N.lhs \in Nodes /\ N.rhs \in Nodes
    BY <1>1, <1>5, NodeParts DEF ExprAssign, AtNode, TwoParts
  <2>2. Walks(<<Expr(N.rhs), Addr(N.lhs)>> \o store(N.ty), top, top + 1)
    <3>1. top + 1 \in Nat
      BY <1>1
    <3>2. Walks(<<Expr(N.rhs), Addr(N.lhs)>>, top, top + 1 + 1)
      BY <1>1, <2>1, <3>1, Two, NodeItems
    <3> QED
      BY <3>1, <3>2, Store, Both
  <2> QED
    BY <1>2, <1>5, <2>2 DEF ExprAssign
<1>6. CASE ExprAddr
  <2>1. N.lhs \in Nodes
    BY <1>1, <1>6, NodeParts DEF ExprAddr, AtNode, OnePart
  <2>2. Walks(<<Addr(N.lhs)>>, top, top + 1)
    BY <1>1, <2>1, One, NodeItems
  <2> QED
    BY <1>2, <1>6, <2>2 DEF ExprAddr
<1>7. CASE ExprDeref
  <2>1. N.lhs \in Nodes
    BY <1>1, <1>7, NodeParts DEF ExprDeref, AtNode, OnePart
  <2>2. Walks(<<Expr(N.lhs)>> \o load(N.ty), top, top + 1)
    <3>1. Walks(<<Expr(N.lhs)>>, top, top + 1)
      BY <1>1, <2>1, One, NodeItems
    <3> QED
      BY <1>1, <3>1, Load, Both
  <2> QED
    BY <1>2, <1>7, <2>2 DEF ExprDeref
<1>8. CASE ExprStmtExpr
  <2> DEFINE body == [i \in DOMAIN N.body |-> Stmt(N.body[i])]
  <2>1. N.body \in Seq(Nodes)
    BY <1>1, <1>8, NodeParts DEF ExprStmtExpr, AtNode
  <2>2. Walks(body, top, top)
    BY <1>1, <2>1, Statements
  <2>3. Walks(<<Top(1)>>, top, top + 1)
    BY <1>1, One, Flat
  <2> HIDE DEF body
  <2>4. Walks(body \o <<Top(1)>>, top, top + 1)
    BY <2>2, <2>3, Both
  <2> QED
    BY <1>2, <1>8, <2>4 DEF ExprStmtExpr, body
<1>9. CASE ExprNull
  <2>1. Walks(<<Top(1)>>, top, top + 1)
    BY <1>1, One, Flat
  <2> QED
    BY <1>2, <1>9, <2>1 DEF ExprNull
<1>10. CASE ExprComma
  <2>1. N.lhs \in Nodes /\ N.rhs \in Nodes
    BY <1>1, <1>10, NodeParts DEF ExprComma, AtNode, TwoParts
  <2>2. Walks(<<Expr(N.lhs), Top(-1), Expr(N.rhs)>>, top, top + 1)
    BY <1>1, <2>1, Three, NodeItems, Flat
  <2> QED
    BY <1>2, <1>10, <2>2 DEF ExprComma
<1>11. CASE ExprCast
  <2>1. N.lhs \in Nodes
    BY <1>1, <1>11, NodeParts DEF ExprCast, AtNode, OnePart
  <2>2. Walks(<<Expr(N.lhs)>> \o cast(N.lhs.ty, N.ty), top, top + 1)
    <3>1. Walks(<<Expr(N.lhs)>>, top, top + 1)
      BY <1>1, <2>1, One, NodeItems
    <3> QED
      BY <1>1, <3>1, Cast, Both
  <2> QED
    BY <1>2, <1>11, <2>2 DEF ExprCast
<1>12. CASE ExprCond
  <2> DEFINE test == <<Expr(N.cond)>> \o cmp_zero(N.cond.ty)
             rest == <<Branch("bnez", R(0), "else", seq), Expr(N.then), Top(-1), Jump("end", seq),
                       Label("else", seq), Expr(N.els), Label("end", seq)>>
  <2>1. N.cond \in Nodes /\ N.then \in Nodes /\ N.els \in Nodes
    BY <1>1, <1>12, NodeParts DEF ExprCond, AtNode
  <2>2. Walks(test, top, top)
    BY <1>1, <2>1, Condition
  <2>3. Walks(rest, top, top + 1)
    <3>1. /\ Step(Branch("bnez", R(0), "else", seq), top, top) /\ Step(Expr(N.then), top, top + 1)
          /\ Step(Top(-1), top + 1, top) /\ Step(Jump("end", seq), top, top)
          /\ Step(Label("else", seq), top, top) /\ Step(Expr(N.els), top, top + 1)
          /\ Step(Label("end", seq), top + 1, top + 1)
      BY <1>1, <2>1, NodeItems, Flat
    <3> QED
      BY <3>1, Seven
  <2> HIDE DEF test, rest
  <2>4. Walks(test \o rest, top, top + 1)
    BY <2>2, <2>3, Both
  <2> QED
    BY <1>2, <1>12, <2>4 DEF ExprCond, test, rest
<1>13. CASE ExprNot
  <2> DEFINE test == <<Expr(N.lhs)>> \o cmp_zero(N.lhs.ty)
             rest == <<Ins("snez", <<R(0), R(0)>>, <<>>, 1)>>
  <2>1. N.lhs \in Nodes
    BY <1>1, <1>13, NodeParts DEF ExprNot, AtNode, OnePart
  <2>2. Walks(test, top, top) /\ Walks(rest, top, top + 1)
    BY <1>1, <2>1, Condition, One, Instructions
  <2> HIDE DEF test, rest
  <2>3. Walks(test \o rest, top, top + 1)
    BY <2>2, Both
  <2> QED
    BY <1>2, <1>13, <2>3 DEF ExprNot, test, rest
<1>14. CASE ExprLogAnd
  <2> DEFINE x == Branch("bnez", R(0), "false", seq)
             rest == <<Ins("li", <<R(0)>>, <<1>>, 0), Jump("end", seq), Label("false", seq),
                       Ins("li", <<R(0)>>, <<0>>, 1), Label("end", seq)>>
  <2>1. N.lhs \in Nodes /\ N.rhs \in Nodes
    BY <1>1, <1>14, NodeParts DEF ExprLogAnd, AtNode, TwoParts
  <2>2. Walks(rest, top, top + 1)
    BY <1>1, Outcome
  <2>3. Step(x, top, top)
    BY <1>1, Flat
  <2> HIDE DEF x, rest
  <2>4. Walks(<<Expr(N.lhs)>> \o cmp_zero(N.lhs.ty) \o <<x>> \o <<Expr(N.rhs)>>
                \o cmp_zero(N.rhs.ty) \o <<x>> \o rest, top, top + 1)
    BY <1>1, <2>1, <2>2, <2>3, LogicalWalks
  <2> QED
    BY <1>2, <1>14, <2>4 DEF ExprLogAnd, x, rest
<1>15. CASE ExprLogOr
  <2> DEFINE x == Branch("beqz", R(0), "true", seq)
             rest == <<Ins("li", <<R(0)>>, <<0>>, 0), Jump("end", seq), Label("true", seq),
                       Ins("li", <<R(0)>>, <<1>>, 1), Label("end", seq)>>
  <2>1. N.lhs \in Nodes /\ N.rhs \in Nodes
    BY <1>1, <1>15, NodeParts DEF ExprLogOr, AtNode, TwoParts
  <2>2. Walks(rest, top, top + 1)
    BY <1>1, Outcome
  <2>3. Step(x, top, top)
    BY <1>1, Flat
  <2> HIDE DEF x, rest
  <2>4. Walks(<<Expr(N.lhs)>> \o cmp_zero(N.lhs.ty) \o <<x>> \o <<Expr(N.rhs)>>
                \o cmp_zero(N.rhs.ty) \o <<x>> \o rest, top, top + 1)
    BY <1>1, <2>1, <2>2, <2>3, LogicalWalks
  <2> QED
    BY <1>2, <1>15, <2>4 DEF ExprLogOr, x, rest
<1>16. CASE ExprBitNot
  <2>1. N.lhs \in Nodes
    BY <1>1, <1>16, NodeParts DEF ExprBitNot, AtNode, OnePart
  <2>2. Walks(<<Expr(N.lhs), Ins("not", <<R(-1), R(-1)>>, <<>>, 0)>>, top, top + 1)
    <3>1. Step(Expr(N.lhs), top, top + 1) /\ top + 1 \in Nat
      BY <1>1, <2>1, NodeItems
    <3>2. Step(Ins("not", <<R(-1), R(-1)>>, <<>>, 0), top + 1, top + 1)
      BY <3>1, Instructions
    <3> QED
      BY <3>1, <3>2, Two
  <2> QED
    BY <1>2, <1>16, <2>2 DEF ExprBitNot
<1>17. CASE ExprFuncall
  <2> DEFINE arg(i) == LET t == N.args[i].ty
                       IN Ins("arg", <<>>, <<i, N.args[i].var, size[t], is_unsigned(t)>>, 0)
             called == <<Ins("push ra", <<>>, <<>>, 0), Expr(N.lhs)>>
             passed == [i \in DOMAIN N.args |-> arg(i)]
             jump == <<Ins("jalr", <<R(-1)>>, <<Len(N.args)>>, -1)>>
             mask == IF N.ty = "bool" THEN <<Ins("andi a0", <<>>, <<>>, 0)>> ELSE <<>>
             back == <<Ins("pop ra", <<>>, <<>>, 0), Ins("mv result", <<Of(N.ty, 0)>>, <<>>, 1)>>
  <2>1. N.lhs \in Nodes /\ N.args \in Seq(Nodes) /\ top + 1 \in Nat
    <3>1. N.kind = "ND_FUNCALL"
      BY <1>17 DEF ExprFuncall, AtNode
    <3>2. N.lhs \in Nodes
      BY <1>1, <3>1, NodeParts DEF OnePart
    <3>3. N.args \in Seq(Nodes)
      BY <1>1, <3>1, NodeParts
    <3> QED
      BY <1>1, <3>2, <3>3
  <2>2. Walks(called, top, top + 1)
    BY <1>1, <2>1, Two, Instructions, NodeItems
  <2>3. Walks(passed, top + 1, top + 1)
    <3> HIDE DEF arg
    <3>1. passed \in Seq({arg(i) : i \in DOMAIN N.args}) /\ Len(passed) = Len(N.args)
      BY <2>1
    <3>2. \A i \in 1 .. Len(passed) : passed[i] = arg(i)
      BY <2>1, <3>1
    <3>3. \A i : Step(arg(i), top + 1, top + 1)
      BY <2>1, Instructions DEF arg
    <3> HIDE DEF passed
    <3> QED
      BY <2>1, <3>1, <3>2, <3>3, Level
  <2>4. Walks(jump, top + 1, top) /\ Walks(mask, top, top)
    BY <1>1, One, Instructions, Nothing
  <2>5. Walks(back, top, top + 1)
    BY <1>1, Two, Instructions
  <2> HIDE DEF called, passed, jump, mask, back
  <2>6. Walks(called \o passed, top, top + 1)
    BY <2>2, <2>3, Both
  <2>7. Walks(called \o passed \o jump, top, top)
    BY <2>4, <2>6, Both
  <2>8. Walks(called \o passed \o jump \o mask, top, top)
    BY <2>4, <2>7, Both
  <2>9. Walks(called \o passed \o jump \o mask \o back, top, top + 1)
    BY <2>5, <2>8, Both
  <2> QED
    BY <1>2, <1>17, <2>9 DEF ExprFuncall, called, passed, jump, mask, back
<1>18. CASE ExprBinary
  <2> DEFINE ask == Ins("none", <<R(-2), R(-1)>>, <<>>, 0)
  <2>1. N.kind \in Binary /\ N.lhs \in Nodes /\ N.rhs \in Nodes
    BY <1>1, <1>18, NodeParts DEF ExprBinary, TwoParts
  <2>2. top + 1 \in Nat /\ top + 1 + 1 \in Nat
    BY <1>1
  <2>3. /\ Step(Expr(N.lhs), top, top + 1) /\ Step(Expr(N.rhs), top + 1, top + 1 + 1)
        /\ Step(ask, top + 1 + 1, top + 1 + 1) /\ Step(Top(-1), top + 1 + 1, top + 1)
    BY <1>1, <2>1, <2>2, NodeItems, Flat, Instructions
  <2> HIDE DEF ask
  <2>4. Walks(<<Expr(N.lhs), Expr(N.rhs), ask>>, top, top + 1 + 1)
    BY <2>3, Three
  <2>5. Walks(<<Expr(N.lhs), Expr(N.rhs), ask>> \o binary(N), top, top + 1 + 1)
    BY <2>1, <2>2, <2>4, BinaryWalks, Both
  <2>6. Walks(<<Top(-1)>>, top + 1 + 1, top + 1)
    BY <2>3, One
  <2>7. Walks(<<Expr(N.lhs), Expr(N.rhs), ask>> \o binary(N) \o <<Top(-1)>>, top, top + 1)
    BY <2>5, <2>6, Both
  <2> QED
    BY <1>2, <1>18, <2>7 DEF ExprBinary, ask
<1> QED
  BY <1>3, <1>4, <1>5, <1>6, <1>7, <1>8, <1>9, <1>10, <1>11, <1>12, <1>13, <1>14, <1>15, <1>16,
     <1>17, <1>18 DEF GenExpr

LEMMA StmtStep == ASSUME Balanced, GenStmt, ~StmtSwitchCases PROVE Balanced'
<1>1. /\ status = "gen" /\ todo # <<>> /\ top \in Nat /\ N \in Nodes
      /\ Net(Head(todo)) = 0
  <2>1. At("stmt")
    BY DEF GenStmt, StmtIf, StmtWhile, StmtDo, StmtFor, StmtSwitch, StmtCase, StmtBlock, StmtBreak,
       StmtContinue, StmtGoto, StmtLabel, StmtReturn, StmtExpr, AtNode
  <2> QED
    BY <2>1, AtItem
<1>2. ASSUME NEW items, Become(items), Walks(items, top, top)
      PROVE  Balanced'
  <2>1. top + Net(Head(todo)) = top
    BY <1>1
  <2> QED
    BY <1>1, <1>2, <2>1, Becomes
<1>3. CASE StmtIf
  <2> DEFINE test == <<Expr(N.cond)>> \o cmp_zero(N.cond.ty)
             rest == IF N.els = Null
                     THEN <<Branch("bnez", R(0), "end", seq), Stmt(N.then), Label("end", seq)>>
                     ELSE <<Branch("bnez", R(0), "else", seq), Stmt(N.then), Jump("end", seq),
                            Label("else", seq), Stmt(N.els), Label("end", seq)>>
  <2>1. N.cond \in Nodes /\ N.then \in Nodes /\ N.els \in Nodes
    BY <1>1, <1>3, NodeParts DEF StmtIf, AtNode
  <2>2. Walks(test, top, top)
    BY <1>1, <2>1, Condition
  <2>3. Walks(rest, top, top)
    <3>1. /\ Step(Branch("bnez", R(0), "end", seq), top, top) /\ Step(Stmt(N.then), top, top)
          /\ Step(Label("end", seq), top, top) /\ Step(Branch("bnez", R(0), "else", seq), top, top)
          /\ Step(Jump("end", seq), top, top) /\ Step(Label("else", seq), top, top)
          /\ Step(Stmt(N.els), top, top)
      BY <1>1, <2>1, NodeItems, Flat
    <3> QED
      BY <3>1, Three, Six
  <2> HIDE DEF test, rest
  <2>4. Walks(test \o rest, top, top)
    BY <2>2, <2>3, Both
  <2> QED
    BY <1>2, <1>3, <2>4 DEF StmtIf, Labelled, test, rest
<1>4. ASSUME NEW items, Loop(items), Walks(items, top, top) PROVE Balanced'
  <2> DEFINE rest == <<Label("break", seq), Restore(brkseq, contseq)>>
  <2>1. Walks(rest, top, top)
    BY <1>1, Two, Flat, Marks
  <2> HIDE DEF rest
  <2>2. Walks(items \o rest, top, top)
    BY <1>4, <2>1, Both
  <2> QED
    BY <1>2, <1>4, <2>2 DEF Loop, rest
<1>5. ASSUME NEW n \in Nodes PROVE Walks(OptStmt(n), top, top)
  BY <1>1, Nothing, One, NodeItems DEF OptStmt
<1>6. CASE StmtWhile
  <2> DEFINE begin == <<Label("begin", seq), Expr(N.cond), Ins("beqz", <<R(-1)>>, <<"break", seq>>, -1)>>
             end == <<Label("continue", seq), Jump("begin", seq)>>
  <2>1. N.cond \in Nodes /\ N.then \in Nodes
    BY <1>1, <1>6, NodeParts DEF StmtWhile, AtNode
  <2>2. Walks(begin, top, top) /\ Walks(end, top, top)
    BY <1>1, <2>1, Two, Three, Flat, NodeItems, Instructions
  <2> HIDE DEF begin, end
  <2>3. Walks(begin \o OptStmt(N.then), top, top)
    BY <1>5, <2>1, <2>2, Both
  <2>4. Walks(begin \o OptStmt(N.then) \o end, top, top)
    BY <2>2, <2>3, Both
  <2> QED
    BY <1>4, <1>6, <2>4 DEF StmtWhile, begin, end
<1>7. CASE StmtDo
  <2> DEFINE begin == <<Label("begin", seq), Stmt(N.then), Label("continue", seq), Expr(N.cond)>>
             end == <<Branch("beqz", R(0), "begin", seq)>>
  <2>1. N.cond \in Nodes /\ N.then \in Nodes
    BY <1>1, <1>7, NodeParts DEF StmtDo, AtNode
  <2>2. Walks(begin, top, top + 1) /\ Walks(end, top, top)
    BY <1>1, <2>1, One, Four, Flat, NodeItems
  <2> HIDE DEF begin, end
  <2>3. Walks(begin \o cmp_zero(N.cond.ty), top, top)
    BY <1>1, <2>2, CmpZero, Both
  <2>4. Walks(begin \o cmp_zero(N.cond.ty) \o end, top, top)
    BY <2>2, <2>3, Both
  <2> QED
    BY <1>4, <1>7, <2>4 DEF StmtDo, begin, end
<1>8. CASE StmtFor
  <2> DEFINE test == <<Label("begin", seq), Expr(N.cond), Ins("beqz", <<R(-1)>>, <<"break", seq>>, -1)>>
             cont == <<Label("continue", seq)>>
             end == <<Jump("begin", seq)>>
  <2>1. N.kind = "ND_FOR"
    BY <1>8 DEF StmtFor, AtNode
  <2>2. N.cond \in Nodes /\ N.then \in Nodes /\ N.init \in Nodes /\ N.inc \in Nodes
    BY <1>1, <2>1, NodeParts
  <2>3. Walks(test, top, top) /\ Walks(cont, top, top) /\ Walks(end, top, top)
    BY <1>1, <2>2, One, Three, Flat, NodeItems, Instructions
  <2> HIDE DEF test, cont, end
  <2> DEFINE A == OptStmt(N.init) \o test
             B == A \o OptStmt(N.then)
             C == B \o cont
             D == C \o OptStmt(N.inc)
  <2>4. Walks(A, top, top)
    BY <1>5, <2>2, <2>3, Both
  <2> HIDE DEF A
  <2>5. Walks(B, top, top)
    BY <1>5, <2>2, <2>4, Both
  <2> HIDE DEF B
  <2>6. Walks(C, top, top)
    BY <2>3, <2>5, Both
  <2> HIDE DEF C
  <2>7. Walks(D, top, top)
    BY <1>5, <2>2, <2>6, Both
  <2> HIDE DEF D
  <2>8. Walks(D \o end, top, top)
    BY <2>3, <2>7, Both
  <2> QED
    BY <1>4, <1>8, <2>8 DEF StmtFor, test, cont, end, A, B, C, D
<1>9. CASE StmtSwitch
  <2> DEFINE cases == [do |-> "cases", n |-> N, seq |-> seq]
  <2>1. N.kind = "ND_SWITCH"
    BY <1>9 DEF StmtSwitch, AtNode
  <2>2. N.cond \in Nodes /\ N.then \in Nodes
    BY <1>1, <2>1, NodeParts
  <2>3. Step(cases, top + 1, top)
    BY <1>1, <2>1 DEF Step, Known, Net
  <2> HIDE DEF cases
  <2>4. Walks(<<Expr(N.cond), cases, Stmt(N.then), Label("break", seq), Restore(brkseq, contseq)>>,
              top, top)
    <3>1. /\ Step(Expr(N.cond), top, top + 1) /\ Step(Stmt(N.then), top, top)
          /\ Step(Label("break", seq), top, top) /\ Step(Restore(brkseq, contseq), top, top)
      BY <1>1, <2>2, NodeItems, Flat, Marks
    <3> QED
      BY <2>3, <3>1, Five
  <2> QED
    BY <1>2, <1>9, <2>4 DEF StmtSwitch, cases
<1>10. CASE StmtCase
  <2>1. N.lhs \in Nodes
    BY <1>1, <1>10, NodeParts DEF StmtCase, AtNode, OnePart
  <2>2. Walks(<<Label("case", case_label[N.id]), Stmt(N.lhs)>>, top, top)
    BY <1>1, <2>1, Two, Flat, NodeItems
  <2> QED
    BY <1>2, <1>10, <2>2 DEF StmtCase, Plain
<1>11. CASE StmtBlock
  <2>1. N.body \in Seq(Nodes)
    BY <1>1, <1>11, NodeParts DEF StmtBlock, AtNode
  <2>2. Walks([i \in DOMAIN N.body |-> Stmt(N.body[i])], top, top)
    BY <1>1, <2>1, Statements
  <2> QED
    BY <1>2, <1>11, <2>2 DEF StmtBlock, Plain
<1>12. CASE StmtBreak \/ StmtContinue \/ StmtGoto
  <2>1. \A name, s : Walks(<<Jump(name, s)>>, top, top)
    BY <1>1, One, Flat
  <2> QED
    BY <1>2, <1>12, <2>1, Fails DEF StmtBreak, StmtContinue, StmtGoto, Plain
<1>13. CASE StmtLabel
  <2>1. N.lhs \in Nodes
    BY <1>1, <1>13, NodeParts DEF StmtLabel, AtNode, OnePart
  <2>2. Walks(<<Label(N.label_name, 0), Stmt(N.lhs)>>, top, top)
    BY <1>1, <2>1, Two, Flat, NodeItems
  <2> QED
    BY <1>2, <1>13, <2>2 DEF StmtLabel, Plain
<1>14. CASE StmtReturn
  <2> DEFINE value == IF N.lhs = Null THEN <<>>
                      ELSE <<Expr(N.lhs), Ins("mv a0", <<Of(N.lhs.ty, -1)>>, <<>>, -1)>>
             leave == <<Jump("return", 0)>>
  <2>1. N.lhs \in Nodes
    BY <1>1, <1>14, NodeParts DEF StmtReturn, AtNode, OnePart
  <2>2. Walks(value, top, top) /\ Walks(leave, top, top)
    BY <1>1, <2>1, Nothing, One, Two, NodeItems, Instructions, Flat
  <2> HIDE DEF value, leave
  <2>3. Walks(value \o leave, top, top)
    BY <2>2, Both
  <2> QED
    BY <1>2, <1>14, <2>3 DEF StmtReturn, Plain, value, leave
<1>15. CASE StmtExpr
  <2>1. N.lhs \in Nodes
    BY <1>1, <1>15, NodeParts DEF StmtExpr, AtNode, OnePart
  <2>2. Walks(<<Expr(N.lhs), Top(-1)>>, top, top)
    BY <1>1, <2>1, Two, Flat, NodeItems
  <2> QED
    BY <1>2, <1>15, <2>2 DEF StmtExpr, Plain
<1> QED
  BY <1>3, <1>6, <1>7, <1>8, <1>9, <1>10, <1>11, <1>12, <1>13, <1>14, <1>15 DEF GenStmt
-----------------------------------------------------------------------------
(* Sequences put together.                                                 *)

LEMMA NatLess == IsWellFoundedOn({p \in Nat \X Nat : p[1] < p[2]}, Nat)
BY NatLessThanWellFounded DEF OpToRel

LEMMA LeastNat ==
  ASSUME NEW S, S \subseteq Nat, S # {}
  PROVE  \E n \in S : \A m \in S : n <= m
<1> DEFINE LT == {p \in Nat \X Nat : p[1] < p[2]}
<1>1. PICK n \in S : \A m \in S : ~ (<<m, n>> \in LT)
  BY NatLess, WFMin
<1>2. \A m \in S : ~ (m < n)
  BY <1>1
<1> QED
  BY <1>2

\* f[i] is the first i sequences of ss, one behind the other.
Joined(f, ss, n) == f = [i \in 1 .. n |-> IF i = 1 THEN ss[i] ELSE f[i - 1] \o ss[i]]

LEMMA JoinedExists ==
  ASSUME NEW M \in Nat, NEW ss
  PROVE  \E f : Joined(f, ss, M)
<1> DEFINE Missing == {n \in 0 .. M : ~ \E f : Joined(f, ss, n)}
<1>1. Missing \subseteq Nat
  OBVIOUS
<1>2. ASSUME Missing # {} PROVE FALSE
  <2>1. PICK n \in Missing : \A m \in Missing : n <= m
    <3> HIDE DEF Missing
    <3> QED
      BY <1>1, <1>2, LeastNat
  <2>2. n \in 0 .. M /\ ~ \E f : Joined(f, ss, n)
    BY <2>1
  <2>3. CASE n = 0
    <3> DEFINE f == [i \in 1 .. n |-> ss[i]]
    <3>1. Joined(f, ss, n)
      BY <2>3 DEF Joined
    <3> QED
      BY <2>2, <3>1
  <2>4. CASE n # 0
    <3>1. n - 1 \in 0 .. M /\ n - 1 \notin Missing
      BY <2>1, <2>2, <2>4
    <3>2. PICK f : Joined(f, ss, n - 1)
      BY <3>1
    <3> DEFINE g == [i \in 1 .. n |-> IF i = 1 THEN ss[i] ELSE f[i - 1] \o ss[i]]
    <3>3. \A i \in 1 .. n : i # 1 => g[i - 1] = f[i - 1]
      <4> SUFFICES ASSUME NEW j \in 1 .. n, j # 1 PROVE g[j - 1] = f[j - 1]
        OBVIOUS
      <4>1. j - 1 \in 1 .. n - 1 /\ j - 1 \in 1 .. n
        BY <2>2, <2>4
      <4>2. f[j - 1] = IF j - 1 = 1 THEN ss[j - 1] ELSE f[j - 1 - 1] \o ss[j - 1]
        BY <3>2, <4>1 DEF Joined
      <4> QED
        BY <4>1, <4>2
    <3>4. Joined(g, ss, n)
      BY <3>3 DEF Joined
    <3> QED
      BY <2>2, <3>4
  <2> QED
    BY <2>3, <2>4
<1>3. M \in 0 .. M /\ Missing = {}
  BY <1>2
<1> QED
  BY <1>3

LEMMA JoinedWalks ==
  ASSUME NEW M \in Nat, NEW ss, NEW a \in Nat, \A k \in 1 .. M : Walks(ss[k], a, a),
         NEW f, Joined(f, ss, M)
  PROVE  \A k \in 1 .. M : Walks(f[k], a, a)
<1> DEFINE Bad == {k \in 1 .. M : ~ Walks(f[k], a, a)}
<1>1. Bad \subseteq Nat
  OBVIOUS
<1>2. ASSUME Bad # {} PROVE FALSE
  <2>1. PICK k \in Bad : \A m \in Bad : k <= m
    <3> HIDE DEF Bad
    <3> QED
      BY <1>1, <1>2, LeastNat
  <2>2. k \in 1 .. M /\ ~ Walks(f[k], a, a)
    BY <2>1
  <2>3. f[k] = IF k = 1 THEN ss[k] ELSE f[k - 1] \o ss[k]
    BY <2>2 DEF Joined
  <2>4. k # 1 /\ k - 1 \in 1 .. M
    BY <2>2, <2>3
  <2>5. k - 1 \notin Bad
    BY <2>1, <2>2
  <2>6. Walks(f[k - 1], a, a) /\ Walks(ss[k], a, a)
    BY <2>2, <2>4, <2>5
  <2>7. Walks(f[k - 1] \o ss[k], a, a)
    BY <2>6, Both
  <2> QED
    BY <2>2, <2>3, <2>4, <2>7
<1> QED
  BY <1>2

LEMMA FlattenWalks ==
  ASSUME NEW S, NEW ss \in Seq(S), NEW a \in Nat, \A k \in 1 .. Len(ss) : Walks(ss[k], a, a)
  PROVE  Walks(FlattenSeq(ss), a, a)
<1> DEFINE M == Len(ss)
           P(f) == f = [i \in 1 .. M |-> IF i = 1 THEN ss[i] ELSE f[i - 1] \o ss[i]]
           flatten == CHOOSE f : P(f)
<1>1. M \in Nat
  OBVIOUS
<1>2. CASE M = 0
  <2>1. FlattenSeq(ss) = ss /\ ss = <<>>
    BY <1>2 DEF FlattenSeq
  <2> QED
    BY <2>1, Nothing
<1>3. CASE M # 0
  <2>1. FlattenSeq(ss) = flatten[M]
    BY <1>3 DEF FlattenSeq
  <2>2. \A f : P(f) <=> Joined(f, ss, M)
    BY DEF Joined
  <2>3. \E f : P(f)
    <3> HIDE DEF P, M
    <3> QED
      BY <1>1, <2>2, JoinedExists
  <2>4. P(flatten)
    <3> HIDE DEF P
    <3> QED
      BY <2>3
  <2>5. Joined(flatten, ss, M)
    <3> HIDE DEF P, flatten
    <3> QED
      BY <2>2, <2>4
  <2> HIDE DEF flatten, P
  <2>6. \A k \in 1 .. M : Walks(flatten[k], a, a)
    BY <1>1, <2>5, JoinedWalks
  <2> QED
    BY <1>1, <1>3, <2>1, <2>6
<1> QED
  BY <1>2, <1>3

LEMMA CasesStep == ASSUME Balanced, StmtSwitchCases PROVE Balanced'
<1>1. /\ status = "gen" /\ todo # <<>> /\ top \in Nat /\ N \in Nodes /\ N.kind = "ND_SWITCH"
      /\ Net(Head(todo)) = -1 /\ top + Net(Head(todo)) \in Nat
  <2>1. At("cases")
    BY DEF StmtSwitchCases
  <2> QED
    BY <2>1, AtItem
<1> DEFINE cases == N.case_next
           all == all_cases(N)
           number(c) == labelseq - 1 + CHOOSE i \in DOMAIN all : all[i].id = c
           test(i) == <<Ins("li a0", <<>>, <<cases[i].val>>, 0),
                        Branch("beq a0", R(-1), "case", number(cases[i].id))>>
           tests == [i \in DOMAIN cases |-> test(i)]
           otherwise == IF N.default_case = Null THEN <<>>
                        ELSE <<Jump("case", number(N.default_case.id))>>
           leave == <<Jump("break", Head(todo).seq)>>
<1>2. /\ todo' = FlattenSeq(tests) \o <<Top(-1)>> \o otherwise \o leave \o Tail(todo)
      /\ UNCHANGED <<top, status>>
  BY DEF StmtSwitchCases
<1> HIDE DEF number
<1>3. PICK b \in Nat : top = b + 1 /\ top + Net(Head(todo)) = b
  BY <1>1
<1>4. Walks(Tail(todo), b, 0)
  BY <1>1, <1>3, First DEF Balanced
<1>5. cases \in Seq(Nodes)
  BY <1>1, NodeParts
<1>6. \A i : Walks(test(i), top, top)
  <2>1. \A i : /\ Step(Ins("li a0", <<>>, <<cases[i].val>>, 0), top, top)
               /\ Step(Branch("beq a0", R(-1), "case", number(cases[i].id)), top, top)
    BY <1>1, Instructions, Flat
  <2> QED
    BY <2>1, Two
<1> HIDE DEF test, cases
<1>7. tests \in Seq({test(i) : i \in DOMAIN cases}) /\ Len(tests) = Len(cases)
  BY <1>5
<1>8. \A i \in 1 .. Len(tests) : tests[i] = test(i)
  BY <1>5, <1>7
<1>9. Walks(<<Top(-1)>>, top, b) /\ Walks(otherwise, b, b) /\ Walks(leave, b, b)
  BY <1>3, One, Nothing, Flat
<1> HIDE DEF tests, otherwise, leave
<1>10. Walks(FlattenSeq(tests), top, top)
  BY <1>1, <1>6, <1>7, <1>8, FlattenWalks
<1>11. Walks(FlattenSeq(tests) \o <<Top(-1)>>, top, b)
  BY <1>9, <1>10, Both
<1>12. Walks(FlattenSeq(tests) \o <<Top(-1)>> \o otherwise, top, b)
  BY <1>9, <1>11, Both
<1>13. Walks(FlattenSeq(tests) \o <<Top(-1)>> \o otherwise \o leave, top, b)
  BY <1>9, <1>12, Both
<1>14. Walks(todo', top, 0)
  BY <1>2, <1>4, <1>13, Both
<1> QED
  BY <1>1, <1>2, <1>14 DEF Balanced

LEMMA EmitStep == ASSUME Balanced, Emit PROVE Balanced'
<1>1. CASE Fail
  BY <1>1, Fails
<1>2. CASE ~Fail
  <2>1. /\ status = "gen" /\ todo # <<>> /\ Head(todo).do = "ins"
        /\ todo' = Tail(todo) /\ top' = top + Head(todo).d /\ UNCHANGED status
    BY <1>2 DEF Emit, At
  <2>2. Walks(todo, top, 0)
    BY <2>1 DEF Balanced
  <2>3. Net(Head(todo)) = Head(todo).d
    BY <2>1 DEF Net
  <2>4. Step(Head(todo), top, top') /\ Walks(todo', top', 0)
    BY <2>1, <2>2, <2>3, First
  <2> QED
    BY <2>1, <2>4 DEF Balanced, Step
<1> QED
  BY <1>1, <1>2

LEMMA MarkStep == ASSUME Balanced, RestoreLabels \/ CheckTop PROVE Balanced'
<1>1. /\ status = "gen" /\ todo # <<>> /\ Head(todo).do \in {"restore", "assert"}
  BY DEF RestoreLabels, CheckTop, At
<1>2. Net(Head(todo)) = 0
  BY <1>1 DEF Net
<1>3. Step(Head(todo), top, top) /\ Walks(Tail(todo), top, 0) /\ top \in Nat
  <2>1. top + Net(Head(todo)) = top
    BY <1>2 DEF Balanced
  <2> QED
    BY <1>1, <2>1, First DEF Balanced
<1>4. CASE RestoreLabels
  BY <1>1, <1>3, <1>4 DEF RestoreLabels, Balanced
<1>5. CASE CheckTop
  <2>1. top = 0
    BY <1>3, <1>5 DEF CheckTop, At, Step
  <2>2. Become(<<>>)
    BY <1>5, <2>1 DEF CheckTop, Plain
  <2>3. Walks(<<>>, top, top + Net(Head(todo)))
    BY <1>2, <1>3, Nothing
  <2> QED
    BY <1>1, <2>2, <2>3, Becomes
<1> QED
  BY <1>4, <1>5

LEMMA InitBalanced == Init => Balanced
<1> SUFFICES ASSUME Init PROVE Balanced
  OBVIOUS
<1> DEFINE item(i) == <<Stmt(fn[i]), AssertTop>>
           items == [i \in DOMAIN fn |-> item(i)]
<1>1. fn \in Seq(Nodes) /\ todo = FlattenSeq(items) /\ top = 0 /\ status = "gen"
  BY NodesAssumption DEF Init
<1>2. \A i \in 1 .. Len(fn) : Walks(item(i), 0, 0)
  <2>1. \A i \in 1 .. Len(fn) : Step(Stmt(fn[i]), 0, 0)
    BY <1>1, NodeItems
  <2> QED
    BY <2>1, Two, Marks
<1> HIDE DEF item
<1>3. items \in Seq({item(i) : i \in DOMAIN fn}) /\ Len(items) = Len(fn)
  BY <1>1
<1>4. \A i \in 1 .. Len(items) : items[i] = item(i)
  BY <1>1, <1>3
<1> HIDE DEF items
<1>5. Walks(FlattenSeq(items), 0, 0)
  BY <1>2, <1>3, <1>4, FlattenWalks
<1> QED
  BY <1>1, <1>5 DEF Balanced

(***************************************************************************)
(* Whatever the body is made of, gen_stmt leaves the register count top    *)
(* where it found it: the assert(top == 0) after every statement of a      *)
(* function never fails, and no register below the first is left           *)
(* (gen_stmt, gen_expr, gen_addr and codegen, codegen.c).                  *)
(***************************************************************************)
THEOREM RegistersBalanced == Spec => []TopBalanced
<1>1. Balanced => TopBalanced
  BY DEF Balanced, TopBalanced
<1>2. Balanced /\ [Next]_vars => Balanced'
  <2> SUFFICES ASSUME Balanced, [Next]_vars PROVE Balanced'
    OBVIOUS
  <2>1. CASE Finish
    BY <2>1 DEF Finish, Balanced
  <2>2. CASE UNCHANGED vars
    BY <2>2 DEF vars, Balanced
  <2> QED
    BY <2>1, <2>2, AddrStep, ExprStep, StmtStep, CasesStep, EmitStep, MarkStep DEF Next
<1> QED
  BY InitBalanced, <1>1, <1>2, PTL DEF Spec
-----------------------------------------------------------------------------
(* The labels: what the items of todo define and need.                     *)

IsNode(x) == x.do \in {"expr", "addr", "stmt"}

\* What is defined: a label, or a case that will be one.
Lab(l) == <<"label", l>>
Cas(c) == <<"case", c>>

\* What x defines.
Owned(n) == {Lab(<<l, 0>>) : l \in Labels[n]} \cup {Cas(c) : c \in Cases(n)}
Marked(x) ==
  IF IsNode(x) THEN Owned(x.n)
  ELSE IF x.do = "ins" /\ x.op = "label" THEN {Lab(x.arg)} ELSE {}

\* The labels it jumps to, or lets others jump to.
LoopLabels(brk, cont) ==
  (IF brk = 0 THEN {} ELSE {<<"break", brk>>}) \cup (IF cont = 0 THEN {} ELSE {<<"continue", cont>>})
Wanted(x) ==
  IF IsNode(x) THEN {<<l, 0>> : l \in Gotos[x.n]}
  ELSE IF x.do = "ins" /\ IsJump(x.op) THEN {x.arg}
  ELSE IF x.do = "restore" THEN LoopLabels(x.brk, x.cont)
  ELSE IF x.do = "cases" THEN {<<"break", x.seq>>} ELSE {}

Own(x) == IF IsNode(x) THEN OwnCases[x.n] ELSE {}
Inner(x) == IF IsNode(x) THEN InnerCases[x.n] ELSE {}

\* The body of a switch, when the numbers of its cases are still to be given.
Waits(s, k) == k > 1 /\ s[k - 1].do = "cases"

\* x can be done when the cases D have numbers and the labels T will be there.
Ready(x, waits, D, T) ==
  /\ Known(x)
  /\ waits => Own(x) \cap D = {}
  /\ ~waits => Own(x) \subseteq D
  /\ Inner(x) \cap D = {} /\ Inner(x) \cap Own(x) = {}
  /\ Wanted(x) \subseteq T

\* The items s, each ready in its turn, define what is in M, each a part of it.
Laid(s, M, D, T) ==
  /\ \E S : s \in Seq(S)
  /\ \A k \in 1 .. Len(s) : Ready(s[k], Waits(s, k), D, T)
  /\ \A k \in 1 .. Len(s) : s[k].do = "cases" => k + 1 \in 1 .. Len(s) /\ s[k + 1] = Stmt(s[k].n.then)
  /\ \A j, k \in 1 .. Len(s) : j # k => Marked(s[j]) \cap Marked(s[k]) = {}
  /\ M = UNION {Marked(s[k]) : k \in 1 .. Len(s)}

LEMMA LaidNothing == \A D, T : Laid(<<>>, {}, D, T)
<1>1. <<>> \in Seq({}) /\ Len(<<>>) = 0
  OBVIOUS
<1> QED
  BY <1>1 DEF Laid

LEMMA LaidOne ==
  ASSUME NEW x, NEW D, NEW T, Ready(x, FALSE, D, T), x.do # "cases"
  PROVE  Laid(<<x>>, Marked(x), D, T)
<1> DEFINE s == <<x>>
<1>1. s \in Seq({x}) /\ Len(s) = 1 /\ s[1] = x
  OBVIOUS
<1> HIDE DEF s
<1>2. \A k \in 1 .. Len(s) : k = 1 /\ s[k] = x /\ Waits(s, k) = FALSE
  BY <1>1 DEF Waits
<1>3. \A k \in 1 .. Len(s) : Ready(s[k], Waits(s, k), D, T)
  BY <1>2
<1>4. UNION {Marked(s[k]) : k \in 1 .. Len(s)} = Marked(x)
  BY <1>1, <1>2
<1> QED
  BY <1>1, <1>2, <1>3, <1>4 DEF Laid, s

LEMMA LaidBoth ==
  ASSUME NEW s, NEW t, NEW M, NEW K, NEW D, NEW T, Laid(s, M, D, T), Laid(t, K, D, T), M \cap K = {}
  PROVE  Laid(s \o t, M \cup K, D, T)
<1>1. PICK S : s \in Seq(S)
  BY DEF Laid
<1>2. PICK U : t \in Seq(U)
  BY DEF Laid
<1> DEFINE V == S \cup U
           n == Len(s)
           m == Len(t)
<1>3. s \in Seq(V) /\ t \in Seq(V) /\ n \in Nat /\ m \in Nat
  BY <1>1, <1>2
<1> HIDE DEF V
<1>4. /\ s \o t \in Seq(V) /\ Len(s \o t) = n + m
      /\ \A k \in 1 .. n : (s \o t)[k] = s[k]
      /\ \A k \in 1 .. m : (s \o t)[n + k] = t[k]
  BY <1>3
<1> DEFINE u == s \o t
<1> HIDE DEF u
<1>5. \A k \in 1 .. Len(u) :
        \/ k \in 1 .. n /\ u[k] = s[k]
        \/ \E j \in 1 .. m : k = n + j /\ u[k] = t[j]
  <2> SUFFICES ASSUME NEW k \in 1 .. Len(u)
               PROVE  \/ k \in 1 .. n /\ u[k] = s[k]
                      \/ \E j \in 1 .. m : k = n + j /\ u[k] = t[j]
    OBVIOUS
  <2>1. CASE k <= n
    BY <1>3, <1>4, <2>1 DEF u
  <2>2. CASE n < k
    <3>1. k - n \in 1 .. m /\ k = n + (k - n)
      BY <1>3, <1>4, <2>2 DEF u
    <3> QED
      BY <1>4, <3>1 DEF u
  <2> QED
    BY <1>3, <2>1, <2>2
<1>6. Len(u) = n + m
  BY <1>4 DEF u
<1>7. \A k \in 1 .. n : k \in 1 .. Len(u) /\ u[k] = s[k] /\ Waits(u, k) = Waits(s, k)
  <2> SUFFICES ASSUME NEW k \in 1 .. n
               PROVE  k \in 1 .. Len(u) /\ u[k] = s[k] /\ Waits(u, k) = Waits(s, k)
    OBVIOUS
  <2>1. k \in 1 .. Len(u) /\ u[k] = s[k]
    BY <1>3, <1>4, <1>6 DEF u
  <2>2. k > 1 => u[k - 1] = s[k - 1]
    BY <1>3, <1>4 DEF u
  <2> QED
    BY <2>1, <2>2 DEF Waits
<1>8. \A k \in 1 .. m : n + k \in 1 .. Len(u) /\ u[n + k] = t[k] /\ Waits(u, n + k) = Waits(t, k)
  <2> SUFFICES ASSUME NEW k \in 1 .. m
               PROVE  n + k \in 1 .. Len(u) /\ u[n + k] = t[k] /\ Waits(u, n + k) = Waits(t, k)
    OBVIOUS
  <2>1. n + k \in 1 .. Len(u) /\ u[n + k] = t[k]
    BY <1>3, <1>4, <1>6 DEF u
  <2>2. CASE k > 1
    <3>1. k - 1 \in 1 .. m /\ n + (k - 1) = n + k - 1
      BY <1>3, <2>2
    <3>2. u[n + k - 1] = t[k - 1]
      BY <1>4, <3>1 DEF u
    <3> QED
      BY <1>3, <2>1, <2>2, <3>2 DEF Waits
  <2>3. CASE k = 1
    <3>1. ~Waits(t, k)
      BY <2>3 DEF Waits
    <3>2. CASE n = 0
      BY <2>1, <2>3, <3>1, <3>2 DEF Waits
    <3>3. CASE n > 0
      <4>1. n \in 1 .. n /\ ~(n + 1 \in 1 .. n)
        BY <1>3, <3>3
      <4>2. s[n].do # "cases"
        BY <4>1 DEF Laid
      <4>3. u[n + k - 1] = s[n]
        BY <1>3, <1>7, <2>3, <4>1
      <4> QED
        BY <2>1, <3>1, <4>2, <4>3 DEF Waits
    <3> QED
      BY <1>3, <3>2, <3>3
  <2> QED
    BY <1>3, <2>2, <2>3
<1> HIDE DEF n, m
<1>9. /\ \A k \in 1 .. n : Ready(s[k], Waits(s, k), D, T)
      /\ \A k \in 1 .. n : s[k].do = "cases" => k + 1 \in 1 .. n /\ s[k + 1] = Stmt(s[k].n.then)
      /\ \A j, k \in 1 .. n : j # k => Marked(s[j]) \cap Marked(s[k]) = {}
      /\ M = UNION {Marked(s[k]) : k \in 1 .. n}
      /\ \A k \in 1 .. m : Ready(t[k], Waits(t, k), D, T)
      /\ \A k \in 1 .. m : t[k].do = "cases" => k + 1 \in 1 .. m /\ t[k + 1] = Stmt(t[k].n.then)
      /\ \A j, k \in 1 .. m : j # k => Marked(t[j]) \cap Marked(t[k]) = {}
      /\ K = UNION {Marked(t[k]) : k \in 1 .. m}
  BY DEF Laid, n, m
<1>10. \A k \in 1 .. Len(u) : Ready(u[k], Waits(u, k), D, T)
  BY <1>5, <1>7, <1>8, <1>9
<1>11. ASSUME NEW k \in 1 .. Len(u), u[k].do = "cases"
       PROVE  k + 1 \in 1 .. Len(u) /\ u[k + 1] = Stmt(u[k].n.then)
  <2>1. CASE k \in 1 .. n
    BY <1>7, <1>9, <1>11, <2>1
  <2>2. ASSUME NEW j \in 1 .. m, k = n + j, u[k] = t[j]
        PROVE  k + 1 \in 1 .. Len(u) /\ u[k + 1] = Stmt(u[k].n.then)
    <3>1. j + 1 \in 1 .. m /\ t[j + 1] = Stmt(t[j].n.then)
      BY <1>9, <1>11, <2>2
    <3>2. n + (j + 1) = k + 1
      BY <1>3, <2>2 DEF n
    <3>3. n + (j + 1) \in 1 .. Len(u) /\ u[n + (j + 1)] = t[j + 1]
      BY <1>8, <3>1
    <3> QED
      BY <2>2, <3>1, <3>2, <3>3
  <2> QED
    BY <1>5, <2>1, <2>2
<1>12. \A k \in 1 .. n : Marked(u[k]) \subseteq M
  BY <1>7, <1>9
<1>13. \A k \in 1 .. m : Marked(t[k]) \subseteq K
  BY <1>9
<1>14. ASSUME NEW j \in 1 .. Len(u), NEW k \in 1 .. Len(u), j # k
       PROVE  Marked(u[j]) \cap Marked(u[k]) = {}
  <2>1. CASE j \in 1 .. n /\ k \in 1 .. n
    BY <1>7, <1>9, <1>14, <2>1
  <2>2. ASSUME j \in 1 .. n, NEW i \in 1 .. m, k = n + i, u[k] = t[i]
        PROVE  Marked(u[j]) \cap Marked(u[k]) = {}
    BY <1>12, <1>13, <2>2
  <2>3. ASSUME k \in 1 .. n, NEW i \in 1 .. m, j = n + i, u[j] = t[i]
        PROVE  Marked(u[j]) \cap Marked(u[k]) = {}
    BY <1>12, <1>13, <2>3
  <2>4. ASSUME NEW i \in 1 .. m, j = n + i, u[j] = t[i], NEW h \in 1 .. m, k = n + h, u[k] = t[h]
        PROVE  Marked(u[j]) \cap Marked(u[k]) = {}
    <3>1. i # h
      BY <1>14, <2>4
    <3> QED
      BY <1>9, <2>4, <3>1
  <2> QED
    BY <1>5, <2>1, <2>2, <2>3, <2>4
<1>15. M \cup K = UNION {Marked(u[k]) : k \in 1 .. Len(u)}
  <2>1. ASSUME NEW x \in M \cup K PROVE \E k \in 1 .. Len(u) : x \in Marked(u[k])
    <3>1. CASE x \in M
      BY <1>7, <1>9, <3>1
    <3>2. CASE x \in K
      BY <1>8, <1>9, <3>2
    <3> QED
      BY <3>1, <3>2
  <2>2. \A k \in 1 .. Len(u) : Marked(u[k]) \subseteq M \cup K
    BY <1>5, <1>12, <1>13
  <2> QED
    BY <2>1, <2>2
<1> QED
  BY <1>4, <1>10, <1>11, <1>14, <1>15 DEF Laid, u

LEMMA LaidWith ==
  ASSUME NEW s, NEW t, NEW M, NEW K, NEW L, NEW D, NEW T,
         Laid(s, M, D, T), Laid(t, K, D, T), M \cap K = {}, L = M \cup K
  PROVE  Laid(s \o t, L, D, T)
BY LaidBoth

LEMMA LaidMore ==
  ASSUME NEW s, NEW M, NEW D, NEW T, NEW U, Laid(s, M, D, T), T \subseteq U
  PROVE  Laid(s, M, D, U)
<1>1. \A x, w : Ready(x, w, D, T) => Ready(x, w, D, U)
  BY DEF Ready
<1> QED
  BY <1>1 DEF Laid

\* What is left when the first item is done.
LEMMA LaidFirst ==
  ASSUME NEW s, NEW M, NEW D, NEW T, Laid(s, M, D, T), s # <<>>
  PROVE  /\ Ready(Head(s), FALSE, D, T)
         /\ M = Marked(Head(s)) \cup (M \ Marked(Head(s)))
         /\ Head(s).do # "cases" => Laid(Tail(s), M \ Marked(Head(s)), D, T)
<1>1. PICK S : s \in Seq(S)
  BY DEF Laid
<1> DEFINE n == Len(s)
           t == Tail(s)
           K == M \ Marked(Head(s))
<1>2. n \in Nat /\ n >= 1 /\ Head(s) = s[1]
  BY <1>1
<1>3. /\ t \in Seq(S) /\ Len(t) = n - 1
      /\ \A k \in 1 .. n - 1 : t[k] = s[k + 1]
  BY <1>1, <1>2
<1> HIDE DEF n, t
<1>4. /\ \A k \in 1 .. n : Ready(s[k], Waits(s, k), D, T)
      /\ \A k \in 1 .. n : s[k].do = "cases" => k + 1 \in 1 .. n /\ s[k + 1] = Stmt(s[k].n.then)
      /\ \A j, k \in 1 .. n : j # k => Marked(s[j]) \cap Marked(s[k]) = {}
      /\ M = UNION {Marked(s[k]) : k \in 1 .. n}
  BY DEF Laid, n
<1>5. 1 \in 1 .. n /\ Waits(s, 1) = FALSE
  BY <1>2 DEF Waits
<1>6. Ready(Head(s), FALSE, D, T)
  BY <1>2, <1>4, <1>5
<1>7. Marked(Head(s)) \subseteq M
  BY <1>2, <1>4, <1>5
<1>8. \A k \in 1 .. n - 1 : k + 1 \in 1 .. n /\ k + 1 # 1 /\ t[k] = s[k + 1]
  BY <1>2, <1>3
<1>9. ASSUME Head(s).do # "cases" PROVE Laid(t, K, D, T)
  <2>1. ASSUME NEW k \in 1 .. n - 1 PROVE Waits(t, k) = Waits(s, k + 1)
    <3>1. CASE k = 1
      <4>1. ~Waits(t, k)
        BY <3>1 DEF Waits
      <4>2. ~Waits(s, k + 1)
        BY <1>2, <1>9, <3>1 DEF Waits
      <4> QED
        BY <4>1, <4>2 DEF Waits
    <3>2. CASE k # 1
      <4>1. k - 1 \in 1 .. n - 1 /\ (k - 1) + 1 = k + 1 - 1
        BY <1>2, <3>2
      <4>2. t[k - 1] = s[k + 1 - 1]
        BY <1>3, <4>1
      <4>3. k > 1 /\ k + 1 > 1
        BY <1>2, <3>2
      <4> QED
        BY <4>2, <4>3 DEF Waits
    <3> QED
      BY <3>1, <3>2
  <2>2. \A k \in 1 .. n - 1 : Ready(t[k], Waits(t, k), D, T)
    BY <1>4, <1>8, <2>1
  <2>3. ASSUME NEW k \in 1 .. n - 1, t[k].do = "cases"
        PROVE  k + 1 \in 1 .. n - 1 /\ t[k + 1] = Stmt(t[k].n.then)
    <3>1. k + 1 + 1 \in 1 .. n /\ s[k + 1 + 1] = Stmt(s[k + 1].n.then)
      BY <1>4, <1>8, <2>3
    <3>2. k + 1 \in 1 .. n - 1
      BY <1>2, <3>1
    <3> QED
      BY <1>8, <3>1, <3>2
  <2>4. ASSUME NEW j \in 1 .. n - 1, NEW k \in 1 .. n - 1, j # k
        PROVE  Marked(t[j]) \cap Marked(t[k]) = {}
    <3>1. j + 1 # k + 1
      BY <2>4
    <3> QED
      BY <1>4, <1>8, <3>1
  <2>5. ASSUME NEW x \in K PROVE \E k \in 1 .. n - 1 : x \in Marked(t[k])
    <3>1. PICK j \in 1 .. n : x \in Marked(s[j])
      BY <1>4
    <3>2. j # 1
      BY <1>2, <3>1
    <3>3. j - 1 \in 1 .. n - 1 /\ (j - 1) + 1 = j
      BY <1>2, <3>2
    <3>4. t[j - 1] = s[j]
      BY <1>3, <3>3
    <3> QED
      BY <3>1, <3>3, <3>4
  <2>6. ASSUME NEW k \in 1 .. n - 1 PROVE Marked(t[k]) \subseteq K
    <3>1. Marked(t[k]) \subseteq M
      BY <1>4, <1>8
    <3>2. Marked(t[k]) \cap Marked(s[1]) = {}
      BY <1>4, <1>5, <1>8
    <3> QED
      BY <1>2, <3>1, <3>2
  <2>7. K = UNION {Marked(t[k]) : k \in 1 .. n - 1}
    BY <2>5, <2>6
  <2> QED
    BY <1>3, <2>2, <2>3, <2>4, <2>7 DEF Laid
<1> QED
  BY <1>6, <1>7, <1>9 DEF t

\* An item that defines nothing and jumps nowhere.
Quiet(x) ==
  \/ x.do = "assert"
  \/ x.do = "ins" /\ x.op # "label" /\ ~IsJump(x.op)

LEMMA LaidQuiet ==
  ASSUME NEW S, NEW s \in Seq(S), \A k \in 1 .. Len(s) : Quiet(s[k]), NEW D, NEW T
  PROVE  Laid(s, {}, D, T)
<1>1. ASSUME NEW k \in 1 .. Len(s)
      PROVE  /\ s[k].do \notin {"expr", "addr", "stmt", "restore", "cases"}
             /\ Marked(s[k]) = {} /\ Wanted(s[k]) = {} /\ Own(s[k]) = {} /\ Inner(s[k]) = {}
             /\ Known(s[k])
  <2>1. Quiet(s[k])
    OBVIOUS
  <2> QED
    BY <2>1 DEF Quiet, Marked, Wanted, Own, Inner, Known, IsNode
<1>2. \A k \in 1 .. Len(s) : ~Waits(s, k)
  <2> SUFFICES ASSUME NEW k \in 1 .. Len(s), k > 1 PROVE s[k - 1].do # "cases"
    BY DEF Waits
  <2>1. k - 1 \in 1 .. Len(s)
    OBVIOUS
  <2> QED
    BY <1>1, <2>1
<1>3. \A k \in 1 .. Len(s) : Ready(s[k], Waits(s, k), D, T)
  BY <1>1, <1>2 DEF Ready
<1>4. {} = UNION {Marked(s[k]) : k \in 1 .. Len(s)}
  BY <1>1
<1> QED
  BY <1>1, <1>3, <1>4 DEF Laid

LEMMA LaidQuietOne ==
  ASSUME NEW x, Quiet(x), NEW D, NEW T
  PROVE  Laid(<<x>>, {}, D, T)
<1> DEFINE s == <<x>>
<1>1. s \in Seq({x}) /\ \A k \in 1 .. Len(s) : s[k] = x
  OBVIOUS
<1> HIDE DEF s
<1>2. Laid(s, {}, D, T)
  BY <1>1, LaidQuiet
<1> QED
  BY <1>2 DEF s

\* Quiet items before or behind others.
LEMMA LaidBehind ==
  ASSUME NEW s, NEW t, NEW M, NEW D, NEW T, Laid(s, M, D, T), Laid(t, {}, D, T)
  PROVE  Laid(s \o t, M, D, T)
<1>1. M \cap {} = {} /\ M = M \cup {}
  OBVIOUS
<1> QED
  BY <1>1, LaidWith

LEMMA LaidBefore ==
  ASSUME NEW s, NEW t, NEW M, NEW D, NEW T, Laid(s, {}, D, T), Laid(t, M, D, T)
  PROVE  Laid(s \o t, M, D, T)
<1>1. {} \cap M = {} /\ M = {} \cup M
  OBVIOUS
<1> QED
  BY <1>1, LaidWith

LEMMA ConsEqual ==
  ASSUME NEW S, NEW x \in S, NEW t \in Seq(S), NEW s \in Seq(S),
         Len(s) = Len(t) + 1, s[1] = x, \A k \in 1 .. Len(t) : s[k + 1] = t[k]
  PROVE  s = <<x>> \o t
<1> DEFINE p == <<x>> \o t
<1>1. <<x>> \in Seq(S) /\ Len(<<x>>) = 1 /\ <<x>>[1] = x
  OBVIOUS
<1>2. /\ p \in Seq(S) /\ Len(p) = 1 + Len(t)
      /\ \A i \in 1 .. 1 + Len(t) : p[i] = IF i <= 1 THEN <<x>>[i] ELSE t[i - 1]
  BY <1>1, ConcatProperties
<1>3. Len(t) \in Nat
  OBVIOUS
<1> HIDE DEF p
<1>4. ASSUME NEW i \in 1 .. Len(s) PROVE s[i] = p[i]
  <2>1. CASE i = 1
    BY <1>1, <1>2, <1>3, <2>1
  <2>2. CASE i # 1
    <3>1. i - 1 \in 1 .. Len(t) /\ (i - 1) + 1 = i
      BY <1>3, <2>2
    <3>2. s[i] = t[i - 1]
      BY <3>1
    <3> QED
      BY <1>2, <1>3, <2>2, <3>2
  <2> QED
    BY <2>1, <2>2
<1>5. Len(s) = Len(p)
  BY <1>2, <1>3
<1>6. s = p
  BY <1>2, <1>4, <1>5, SeqEqual
<1> QED
  BY <1>6 DEF p

LEMMA Tuple2 ==
  ASSUME NEW x, NEW y
  PROVE  <<x, y>> = <<x>> \o <<y>>
<1> DEFINE S == {x, y}
           s == <<x, y>>
           t == <<y>>
<1>1. s \in Seq(S) /\ t \in Seq(S) /\ x \in S /\ Len(s) = 2 /\ Len(t) = 1
  OBVIOUS
<1>2. s[1] = x /\ \A k \in 1 .. 1 : s[k + 1] = t[k]
  OBVIOUS
<1> HIDE DEF S, s, t
<1>3. Len(s) = Len(t) + 1
  BY <1>1
<1>4. s = <<x>> \o t
  BY <1>1, <1>2, <1>3, ConsEqual
<1> QED
  BY <1>4 DEF s, t

LEMMA Tuple3 ==
  ASSUME NEW x, NEW y, NEW z
  PROVE  <<x, y, z>> = <<x>> \o <<y, z>>
<1> DEFINE S == {x, y, z}
           s == <<x, y, z>>
           t == <<y, z>>
<1>1. s \in Seq(S) /\ t \in Seq(S) /\ x \in S /\ Len(s) = 3 /\ Len(t) = 2
  OBVIOUS
<1>2. s[1] = x /\ \A k \in 1 .. 2 : s[k + 1] = t[k]
  OBVIOUS
<1> HIDE DEF S, s, t
<1>3. Len(s) = Len(t) + 1
  BY <1>1
<1>4. s = <<x>> \o t
  BY <1>1, <1>2, <1>3, ConsEqual
<1> QED
  BY <1>4 DEF s, t

LEMMA Tuple4 ==
  ASSUME NEW x, NEW y, NEW z, NEW u
  PROVE  <<x, y, z, u>> = <<x>> \o <<y, z, u>>
<1> DEFINE S == {x, y, z, u}
           s == <<x, y, z, u>>
           t == <<y, z, u>>
<1>1. s \in Seq(S) /\ t \in Seq(S) /\ x \in S /\ Len(s) = 4 /\ Len(t) = 3
  OBVIOUS
<1>2. s[1] = x /\ \A k \in 1 .. 3 : s[k + 1] = t[k]
  OBVIOUS
<1> HIDE DEF S, s, t
<1>3. Len(s) = Len(t) + 1
  BY <1>1
<1>4. s = <<x>> \o t
  BY <1>1, <1>2, <1>3, ConsEqual
<1> QED
  BY <1>4 DEF s, t

LEMMA Tuple5 ==
  ASSUME NEW x, NEW y, NEW z, NEW u, NEW v
  PROVE  <<x, y, z, u, v>> = <<x>> \o <<y, z, u, v>>
<1> DEFINE S == {x, y, z, u, v}
           s == <<x, y, z, u, v>>
           t == <<y, z, u, v>>
<1>1. s \in Seq(S) /\ t \in Seq(S) /\ x \in S /\ Len(s) = 5 /\ Len(t) = 4
  OBVIOUS
<1>2. s[1] = x /\ \A k \in 1 .. 4 : s[k + 1] = t[k]
  OBVIOUS
<1> HIDE DEF S, s, t
<1>3. Len(s) = Len(t) + 1
  BY <1>1
<1>4. s = <<x>> \o t
  BY <1>1, <1>2, <1>3, ConsEqual
<1> QED
  BY <1>4 DEF s, t

LEMMA Tuple6 ==
  ASSUME NEW x, NEW y, NEW z, NEW u, NEW v, NEW w
  PROVE  <<x, y, z, u, v, w>> = <<x>> \o <<y, z, u, v, w>>
<1> DEFINE S == {x, y, z, u, v, w}
           s == <<x, y, z, u, v, w>>
           t == <<y, z, u, v, w>>
<1>1. s \in Seq(S) /\ t \in Seq(S) /\ x \in S /\ Len(s) = 6 /\ Len(t) = 5
  OBVIOUS
<1>2. s[1] = x /\ \A k \in 1 .. 5 : s[k + 1] = t[k]
  OBVIOUS
<1> HIDE DEF S, s, t
<1>3. Len(s) = Len(t) + 1
  BY <1>1
<1>4. s = <<x>> \o t
  BY <1>1, <1>2, <1>3, ConsEqual
<1> QED
  BY <1>4 DEF s, t

LEMMA Tuple7 ==
  ASSUME NEW x, NEW y, NEW z, NEW u, NEW v, NEW w, NEW r
  PROVE  <<x, y, z, u, v, w, r>> = <<x>> \o <<y, z, u, v, w, r>>
<1> DEFINE S == {x, y, z, u, v, w, r}
           s == <<x, y, z, u, v, w, r>>
           t == <<y, z, u, v, w, r>>
<1>1. s \in Seq(S) /\ t \in Seq(S) /\ x \in S /\ Len(s) = 7 /\ Len(t) = 6
  OBVIOUS
<1>2. s[1] = x /\ \A k \in 1 .. 6 : s[k + 1] = t[k]
  OBVIOUS
<1> HIDE DEF S, s, t
<1>3. Len(s) = Len(t) + 1
  BY <1>1
<1>4. s = <<x>> \o t
  BY <1>1, <1>2, <1>3, ConsEqual
<1> QED
  BY <1>4 DEF s, t

LEMMA LaidPair ==
  ASSUME NEW x, NEW y, NEW M, NEW K, NEW D, NEW T,
         Laid(<<x>>, M, D, T), Laid(<<y>>, K, D, T), M \cap K = {}
  PROVE  Laid(<<x, y>>, M \cup K, D, T)
<1> DEFINE s == <<x>>
           t == <<y>>
<1>1. Laid(s, M, D, T) /\ Laid(t, K, D, T)
  OBVIOUS
<1>2. <<x, y>> = s \o t
  BY Tuple2
<1> HIDE DEF s, t
<1>3. Laid(s \o t, M \cup K, D, T)
  BY <1>1, LaidBoth
<1> QED
  BY <1>2, <1>3

LEMMA LaidTriple ==
  ASSUME NEW x, NEW y, NEW z, NEW M, NEW K, NEW L, NEW D, NEW T,
         Laid(<<x>>, M, D, T), Laid(<<y>>, K, D, T), Laid(<<z>>, L, D, T),
         M \cap K = {}, M \cap L = {}, K \cap L = {}
  PROVE  Laid(<<x, y, z>>, M \cup K \cup L, D, T)
<1> DEFINE s == <<x>>
           t == <<y, z>>
<1>1. Laid(t, K \cup L, D, T)
  BY LaidPair
<1>2. M \cap (K \cup L) = {} /\ M \cup K \cup L = M \cup (K \cup L) /\ Laid(s, M, D, T)
  OBVIOUS
<1>3. <<x, y, z>> = s \o t
  BY Tuple3
<1> HIDE DEF s, t
<1>4. Laid(s \o t, M \cup (K \cup L), D, T)
  BY <1>1, <1>2, LaidBoth
<1> QED
  BY <1>2, <1>3, <1>4
-----------------------------------------------------------------------------
(* What nodes contain.  The functions on nodes are unions over the parts.  *)

LEMMA Distinct ==
  /\ \A l, k : Lab(l) = Lab(k) => l = k
  /\ \A c, d : Cas(c) = Cas(d) => c = d
  /\ \A l, c : Lab(l) # Cas(c)
BY DEF Lab, Cas

Unites(f, own, P) == f = [n \in Nodes |-> own[n] \cup UNION {f[m] : m \in P[n]}]

LEMMA UnionOverParts ==
  ASSUME NEW own, NEW P \in [Nodes -> SUBSET Nodes]
  PROVE  \E f : Unites(f, own, P)
<1> DEFINE Shut(S) == S \subseteq Nodes /\ \A k \in S : P[k] \subseteq S
           Below(n) == {m \in Nodes : \A S \in SUBSET Nodes : Shut(S) /\ n \in S => m \in S}
           f == [n \in Nodes |-> UNION {own[m] : m \in Below(n)}]
<1>1. ASSUME NEW n \in Nodes PROVE n \in Below(n)
  OBVIOUS
<1>2. ASSUME NEW n \in Nodes, NEW m \in P[n] PROVE m \in Nodes /\ Below(m) \subseteq Below(n)
  OBVIOUS
<1>3. ASSUME NEW n \in Nodes PROVE Below(n) \subseteq {n} \cup UNION {Below(m) : m \in P[n]}
  <2> DEFINE S == {n} \cup UNION {Below(m) : m \in P[n]}
  <2>1. S \subseteq Nodes
    BY <1>2
  <2>2. ASSUME NEW k \in S PROVE P[k] \subseteq S
    <3>1. CASE k = n
      <4>1. \A m \in P[n] : m \in Below(m)
        BY <1>1, <1>2
      <4> QED
        BY <3>1, <4>1
    <3>2. ASSUME NEW m \in P[n], k \in Below(m) PROVE P[k] \subseteq S
      <4>1. P[k] \subseteq Below(m)
        BY <3>2
      <4> QED
        BY <3>2, <4>1
    <3> QED
      BY <3>1, <3>2
  <2>3. Shut(S) /\ n \in S
    BY <2>1, <2>2
  <2> QED
    BY <2>1, <2>3
<1> DEFINE g(n) == UNION {own[m] : m \in Below(n)}
<1> HIDE DEF Below
<1>4. ASSUME NEW n \in Nodes PROVE g(n) = own[n] \cup UNION {g(m) : m \in P[n]}
  <2>1. ASSUME NEW x \in g(n) PROVE x \in own[n] \cup UNION {g(m) : m \in P[n]}
    <3>1. PICK k \in Below(n) : x \in own[k]
      OBVIOUS
    <3>2. CASE k = n
      BY <3>1, <3>2
    <3>3. ASSUME NEW m \in P[n], k \in Below(m) PROVE x \in g(m)
      BY <1>2, <3>1, <3>3
    <3> QED
      BY <1>3, <3>1, <3>2, <3>3
  <2>2. own[n] \subseteq g(n)
    BY <1>1
  <2>3. ASSUME NEW m \in P[n] PROVE g(m) \subseteq g(n)
    BY <1>2
  <2> HIDE DEF g
  <2>4. UNION {g(m) : m \in P[n]} \subseteq g(n)
    BY <2>3
  <2>5. g(n) \subseteq own[n] \cup UNION {g(m) : m \in P[n]}
    BY <2>1
  <2> QED
    BY <2>2, <2>4, <2>5
<1> HIDE DEF g
<1>5. \A n \in Nodes : f[n] = g(n)
  BY DEF g
<1>6. ASSUME NEW n \in Nodes PROVE UNION {g(m) : m \in P[n]} = UNION {f[m] : m \in P[n]}
  <2>1. \A m \in P[n] : f[m] = g(m)
    BY <1>2, <1>5
  <2> HIDE DEF f
  <2>2. {g(m) : m \in P[n]} = {f[m] : m \in P[n]}
    BY <2>1
  <2> QED
    BY <2>2
<1>7. \A n \in Nodes : g(n) = own[n] \cup UNION {f[m] : m \in P[n]}
  BY <1>4, <1>6
<1>8. f = [n \in Nodes |-> g(n)]
  BY DEF g
<1> HIDE DEF f
<1>9. Unites(f, own, P)
  BY <1>7, <1>8 DEF Unites
<1> QED
  BY <1>9

LEMMA PartsInNodes == [n \in Nodes |-> Range(Parts(n))] \in [Nodes -> SUBSET Nodes]
<1> SUFFICES ASSUME NEW n \in Nodes PROVE Range(Parts(n)) \subseteq Nodes
  OBVIOUS
<1>1. Parts(n) \in Seq(Nodes)
  BY NodesAssumption DEF Closed
<1> QED
  BY <1>1 DEF Range

LEMMA LabelsOf ==
  ASSUME NEW n \in Nodes
  PROVE  Labels[n] = (IF n.kind = "ND_LABEL" THEN {n.label_name} ELSE {})
                       \cup UNION {Labels[m] : m \in Range(Parts(n))}
<1> DEFINE own(m) == IF m.kind = "ND_LABEL" THEN {m.label_name} ELSE {}
           P(m) == Range(Parts(m))
           Is(f) == f = [m \in Nodes |-> own(m) \cup UNION {f[k] : k \in P(m)}]
           fown == [m \in Nodes |-> own(m)]
           fP == [m \in Nodes |-> P(m)]
<1>1. Labels = CHOOSE f : Is(f)
  BY DEF Labels
<1>2. fP \in [Nodes -> SUBSET Nodes]
  BY PartsInNodes
<1> HIDE DEF own, P
<1>3. \A m \in Nodes : fown[m] = own(m) /\ fP[m] = P(m)
  OBVIOUS
<1> HIDE DEF fown, fP
<1>4. PICK f : Unites(f, fown, fP)
  BY <1>2, UnionOverParts
<1>5. Is(f)
  BY <1>3, <1>4 DEF Unites
<1>6. Is(Labels)
  <2> HIDE DEF Is
  <2> QED
    BY <1>1, <1>5
<1>7. Labels[n] = own(n) \cup UNION {Labels[k] : k \in P(n)}
  BY <1>6
<1> QED
  BY <1>7 DEF own, P

LEMMA GotosOf ==
  ASSUME NEW n \in Nodes
  PROVE  Gotos[n] = (IF n.kind = "ND_GOTO" THEN {n.label_name} ELSE {})
                      \cup UNION {Gotos[m] : m \in Range(Parts(n))}
<1> DEFINE own(m) == IF m.kind = "ND_GOTO" THEN {m.label_name} ELSE {}
           P(m) == Range(Parts(m))
           Is(f) == f = [m \in Nodes |-> own(m) \cup UNION {f[k] : k \in P(m)}]
           fown == [m \in Nodes |-> own(m)]
           fP == [m \in Nodes |-> P(m)]
<1>1. Gotos = CHOOSE f : Is(f)
  BY DEF Gotos
<1>2. fP \in [Nodes -> SUBSET Nodes]
  BY PartsInNodes
<1> HIDE DEF own, P
<1>3. \A m \in Nodes : fown[m] = own(m) /\ fP[m] = P(m)
  OBVIOUS
<1> HIDE DEF fown, fP
<1>4. PICK f : Unites(f, fown, fP)
  BY <1>2, UnionOverParts
<1>5. Is(f)
  BY <1>3, <1>4 DEF Unites
<1>6. Is(Gotos)
  <2> HIDE DEF Is
  <2> QED
    BY <1>1, <1>5
<1>7. Gotos[n] = own(n) \cup UNION {Gotos[k] : k \in P(n)}
  BY <1>6
<1> QED
  BY <1>7 DEF own, P

\* The parts of n in the switch n is in.
Around(n) == IF n.kind = "ND_SWITCH" THEN {n.cond} ELSE Range(Parts(n))

LEMMA OwnCasesOf ==
  ASSUME NEW n \in Nodes
  PROVE  OwnCases[n] = (IF n.kind = "ND_CASE" THEN {n.id} ELSE {})
                         \cup UNION {OwnCases[m] : m \in Around(n)}
<1> DEFINE own(m) == IF m.kind = "ND_CASE" THEN {m.id} ELSE {}
           P(m) == Range(IF m.kind = "ND_SWITCH" THEN <<m.cond>> ELSE Parts(m))
           Is(f) == f = [m \in Nodes |-> own(m) \cup UNION {f[k] : k \in P(m)}]
           fown == [m \in Nodes |-> own(m)]
           fP == [m \in Nodes |-> P(m)]
<1>1. OwnCases = CHOOSE f : Is(f)
  BY DEF OwnCases
<1>2. ASSUME NEW m \in Nodes PROVE P(m) \subseteq Nodes /\ P(m) = Around(m)
  <2>1. CASE m.kind = "ND_SWITCH"
    <3>1. m.cond \in Nodes
      BY <2>1, NodeParts
    <3> DEFINE s == <<m.cond>>
    <3>2. Range(s) = {m.cond}
      BY DEF Range
    <3>3. P(m) = Range(s)
      BY <2>1
    <3> HIDE DEF s, P
    <3> QED
      BY <2>1, <3>1, <3>2, <3>3 DEF Around
  <2>2. CASE m.kind # "ND_SWITCH"
    <3>1. Range(Parts(m)) \subseteq Nodes
      BY PartsInNodes
    <3> QED
      BY <2>2, <3>1 DEF Around
  <2> QED
    BY <2>1, <2>2
<1> HIDE DEF own, P
<1>3. \A m \in Nodes : fown[m] = own(m) /\ fP[m] = P(m)
  OBVIOUS
<1>4. fP \in [Nodes -> SUBSET Nodes]
  BY <1>2
<1> HIDE DEF fown, fP
<1>5. PICK f : Unites(f, fown, fP)
  BY <1>4, UnionOverParts
<1>6. Is(f)
  BY <1>3, <1>5 DEF Unites
<1>7. Is(OwnCases)
  <2> HIDE DEF Is
  <2> QED
    BY <1>1, <1>6
<1>8. OwnCases[n] = own(n) \cup UNION {OwnCases[k] : k \in P(n)}
  BY <1>7
<1> QED
  BY <1>2, <1>8 DEF own

LEMMA InnerCasesOf ==
  ASSUME NEW n \in Nodes
  PROVE  InnerCases[n] = (IF n.kind = "ND_SWITCH" THEN OwnCases[n.then] ELSE {})
                           \cup UNION {InnerCases[m] : m \in Range(Parts(n))}
<1> DEFINE own(m) == IF m.kind = "ND_SWITCH" THEN OwnCases[m.then] ELSE {}
           P(m) == Range(Parts(m))
           Is(f) == f = [m \in Nodes |-> own(m) \cup UNION {f[k] : k \in P(m)}]
           fown == [m \in Nodes |-> own(m)]
           fP == [m \in Nodes |-> P(m)]
<1>1. InnerCases = CHOOSE f : Is(f)
  BY DEF InnerCases
<1>2. fP \in [Nodes -> SUBSET Nodes]
  BY PartsInNodes
<1> HIDE DEF own, P
<1>3. \A m \in Nodes : fown[m] = own(m) /\ fP[m] = P(m)
  OBVIOUS
<1> HIDE DEF fown, fP
<1>4. PICK f : Unites(f, fown, fP)
  BY <1>2, UnionOverParts
<1>5. Is(f)
  BY <1>3, <1>4 DEF Unites
<1>6. Is(InnerCases)
  <2> HIDE DEF Is
  <2> QED
    BY <1>1, <1>5
<1>7. InnerCases[n] = own(n) \cup UNION {InnerCases[k] : k \in P(n)}
  BY <1>6
<1> QED
  BY <1>7 DEF own, P

LEMMA PartIsNode == ASSUME NEW n \in Nodes, NEW m \in Range(Parts(n)) PROVE m \in Nodes
<1>1. [k \in Nodes |-> Range(Parts(k))][n] \subseteq Nodes
  BY PartsInNodes
<1> QED
  BY <1>1

\* A node defines what its parts define, a label its name and a case itself.
OwnMark(n) ==
  IF n.kind = "ND_LABEL" THEN {Lab(<<n.label_name, 0>>)} ELSE IF n.kind = "ND_CASE" THEN {Cas(n.id)} ELSE {}

LEMMA CasesOf ==
  ASSUME NEW n \in Nodes
  PROVE  \A c : c \in Cases(n) <=> \/ n.kind = "ND_CASE" /\ c = n.id
                                   \/ \E m \in Range(Parts(n)) : c \in Cases(m)
<1> DEFINE P == Range(Parts(n))
           A == Around(n)
<1> SUFFICES ASSUME NEW c
             PROVE  c \in Cases(n) <=> \/ n.kind = "ND_CASE" /\ c = n.id
                                       \/ \E m \in P : c \in Cases(m)
  OBVIOUS
<1> HIDE DEF P, A
<1>1. c \in InnerCases[n] <=> \/ n.kind = "ND_SWITCH" /\ c \in OwnCases[n.then]
                              \/ \E m \in P : c \in InnerCases[m]
  BY InnerCasesOf DEF P
<1>2. c \in OwnCases[n] <=> \/ n.kind = "ND_CASE" /\ c = n.id
                            \/ \E m \in A : c \in OwnCases[m]
  BY OwnCasesOf DEF A
<1>3. \A m : c \in Cases(m) <=> c \in OwnCases[m] \/ c \in InnerCases[m]
  BY DEF Cases
<1>4. CASE n.kind = "ND_SWITCH"
  <2>1. P = {n.cond, n.then}
    <3> DEFINE s == <<n.cond, n.then>>
    <3>1. Range(s) = {n.cond, n.then}
      BY DEF Range
    <3>2. Parts(n) = s
      BY <1>4, PartsOfKind
    <3> HIDE DEF s
    <3> QED
      BY <3>1, <3>2 DEF P
  <2>2. A = {n.cond}
    BY <1>4 DEF Around, A
  <2> QED
    BY <1>1, <1>2, <1>3, <1>4, <2>1, <2>2
<1>5. CASE n.kind # "ND_SWITCH"
  <2>1. A = P
    BY <1>5 DEF Around, P, A
  <2> QED
    BY <1>1, <1>2, <1>3, <1>5, <2>1
<1> QED
  BY <1>4, <1>5

LEMMA OwnedOf ==
  ASSUME NEW n \in Nodes
  PROVE  Owned(n) = OwnMark(n) \cup UNION {Owned(m) : m \in Range(Parts(n))}
<1> DEFINE P == Range(Parts(n))
<1>1. \A l : l \in Labels[n] <=> \/ n.kind = "ND_LABEL" /\ l = n.label_name
                                 \/ \E m \in P : l \in Labels[m]
  BY LabelsOf
<1>2. \A c : c \in Cases(n) <=> \/ n.kind = "ND_CASE" /\ c = n.id
                                \/ \E m \in P : c \in Cases(m)
  BY CasesOf
<1> HIDE DEF P
<1>3. \A m, x : x \in Owned(m) <=> \/ \E l \in Labels[m] : x = Lab(<<l, 0>>)
                                   \/ \E c \in Cases(m) : x = Cas(c)
  BY DEF Owned
<1>4. \A x : x \in OwnMark(n) <=> \/ n.kind = "ND_LABEL" /\ x = Lab(<<n.label_name, 0>>)
                                  \/ n.kind = "ND_CASE" /\ x = Cas(n.id)
  BY DEF OwnMark
<1>5. ASSUME NEW x PROVE x \in Owned(n) <=> x \in OwnMark(n) \/ \E m \in P : x \in Owned(m)
  <2>1. ASSUME x \in Owned(n) PROVE x \in OwnMark(n) \/ \E m \in P : x \in Owned(m)
    <3>1. CASE \E l \in Labels[n] : x = Lab(<<l, 0>>)
      BY <1>1, <1>3, <1>4, <3>1
    <3>2. CASE \E c \in Cases(n) : x = Cas(c)
      BY <1>2, <1>3, <1>4, <3>2
    <3> QED
      BY <1>3, <2>1, <3>1, <3>2
  <2>2. ASSUME x \in OwnMark(n) PROVE x \in Owned(n)
    BY <1>1, <1>2, <1>3, <1>4, <2>2
  <2>3. ASSUME NEW m \in P, x \in Owned(m) PROVE x \in Owned(n)
    <3>1. CASE \E l \in Labels[m] : x = Lab(<<l, 0>>)
      <4>1. \A l \in Labels[m] : l \in Labels[n]
        BY <1>1
      <4> QED
        BY <1>3, <3>1, <4>1
    <3>2. CASE \E c \in Cases(m) : x = Cas(c)
      <4>1. \A c \in Cases(m) : c \in Cases(n)
        BY <1>2
      <4> QED
        BY <1>3, <3>2, <4>1
    <3> QED
      BY <1>3, <2>3, <3>1, <3>2
  <2> QED
    BY <2>1, <2>2, <2>3
<1> QED
  BY <1>5 DEF P

LEMMA OwnedApart ==
  ASSUME NEW a, NEW b, Labels[a] \cap Labels[b] = {}, Cases(a) \cap Cases(b) = {}
  PROVE  Owned(a) \cap Owned(b) = {}
<1> SUFFICES ASSUME NEW x \in Owned(a), x \in Owned(b) PROVE FALSE
  OBVIOUS
<1>1. CASE \E l \in Labels[a] : x = Lab(<<l, 0>>)
  <2>1. PICK l \in Labels[a] : x = Lab(<<l, 0>>)
    BY <1>1
  <2>2. PICK k \in Labels[b] : x = Lab(<<k, 0>>)
    BY <2>1, Distinct DEF Owned
  <2>3. <<l, 0>> = <<k, 0>>
    BY <2>1, <2>2, Distinct
  <2> QED
    BY <2>3
<1>2. CASE \E c \in Cases(a) : x = Cas(c)
  <2>1. PICK c \in Cases(a) : x = Cas(c)
    BY <1>2
  <2>2. PICK d \in Cases(b) : x = Cas(d)
    BY <2>1, Distinct DEF Owned
  <2>3. c = d
    BY <2>1, <2>2, Distinct
  <2> QED
    BY <2>3
<1> QED
  BY <1>1, <1>2 DEF Owned

LEMMA PartsApart ==
  ASSUME NEW n \in Nodes
  PROVE  /\ \A i, j \in DOMAIN Parts(n) : i < j => Owned(Parts(n)[i]) \cap Owned(Parts(n)[j]) = {}
         /\ n.kind \in {"ND_LABEL", "ND_CASE"} => OwnMark(n) \cap Owned(n.lhs) = {}
<1>1. Apart(Parts(n))
  BY LabelsAssumption
<1>2. ASSUME NEW i \in DOMAIN Parts(n), NEW j \in DOMAIN Parts(n), i < j
      PROVE  Owned(Parts(n)[i]) \cap Owned(Parts(n)[j]) = {}
  BY <1>1, <1>2, OwnedApart DEF Apart
<1>3. CASE n.kind = "ND_LABEL"
  <2>1. n.label_name \notin Labels[n.lhs]
    BY <1>3, LabelsAssumption
  <2>2. ASSUME Lab(<<n.label_name, 0>>) \in Owned(n.lhs) PROVE FALSE
    <3>1. PICK l \in Labels[n.lhs] : Lab(<<n.label_name, 0>>) = Lab(<<l, 0>>)
      BY <2>2, Distinct DEF Owned
    <3>2. <<n.label_name, 0>> = <<l, 0>>
      BY <3>1, Distinct
    <3> QED
      BY <2>1, <3>2
  <2>3. OwnMark(n) = {Lab(<<n.label_name, 0>>)}
    BY <1>3 DEF OwnMark
  <2> QED
    BY <1>2, <1>3, <2>2, <2>3
<1>4. CASE n.kind = "ND_CASE"
  <2>1. n.id \notin Cases(n.lhs)
    BY <1>4, LabelsAssumption
  <2>2. Cas(n.id) \notin Owned(n.lhs)
    BY <2>1, Distinct DEF Owned
  <2>3. OwnMark(n) = {Cas(n.id)}
    BY <1>4 DEF OwnMark
  <2> QED
    BY <1>2, <1>4, <2>2, <2>3
<1> QED
  BY <1>2, <1>3, <1>4
-----------------------------------------------------------------------------
(* Nodes that can be generated.                                            *)

Fit(n, D, T) ==
  /\ n \in Nodes
  /\ OwnCases[n] \subseteq D /\ InnerCases[n] \cap D = {} /\ InnerCases[n] \cap OwnCases[n] = {}
  /\ \A l \in Gotos[n] : <<l, 0>> \in T

LEMMA ReadyFit ==
  ASSUME NEW x, IsNode(x), NEW D, NEW T
  PROVE  /\ Ready(x, FALSE, D, T) <=> Fit(x.n, D, T)
         /\ Marked(x) = Owned(x.n)
BY DEF Ready, Fit, IsNode, Known, Own, Inner, Wanted, Marked

LEMMA NodeLaid ==
  ASSUME NEW n, NEW D, NEW T, Fit(n, D, T)
  PROVE  /\ Laid(<<Expr(n)>>, Owned(n), D, T) /\ Laid(<<Addr(n)>>, Owned(n), D, T)
         /\ Laid(<<Stmt(n)>>, Owned(n), D, T)
<1>1. ASSUME NEW x, IsNode(x), x.n = n PROVE Laid(<<x>>, Owned(n), D, T)
  <2>1. Ready(x, FALSE, D, T) /\ Marked(x) = Owned(n)
    BY <1>1, ReadyFit
  <2>2. x.do # "cases"
    BY <1>1 DEF IsNode
  <2> QED
    BY <2>1, <2>2, LaidOne
<1>2. /\ IsNode(Expr(n)) /\ Expr(n).n = n
      /\ IsNode(Addr(n)) /\ Addr(n).n = n
      /\ IsNode(Stmt(n)) /\ Stmt(n).n = n
  BY DEF IsNode, Expr, Addr, Stmt
<1>3. Laid(<<Expr(n)>>, Owned(n), D, T)
  BY <1>1, <1>2
<1>4. Laid(<<Addr(n)>>, Owned(n), D, T)
  BY <1>1, <1>2
<1>5. Laid(<<Stmt(n)>>, Owned(n), D, T)
  BY <1>1, <1>2
<1> QED
  BY <1>3, <1>4, <1>5

LEMMA PartFit ==
  ASSUME NEW n, NEW D, NEW T, Fit(n, D, T), n.kind # "ND_SWITCH"
  PROVE  \A m \in Range(Parts(n)) : Fit(m, D, T)
<1> SUFFICES ASSUME NEW m \in Range(Parts(n)) PROVE Fit(m, D, T)
  OBVIOUS
<1>1. n \in Nodes
  BY DEF Fit
<1>2. m \in Nodes
  BY <1>1, PartIsNode
<1>3. Around(n) = Range(Parts(n))
  BY DEF Around
<1>4. OwnCases[m] \subseteq OwnCases[n]
  BY <1>1, <1>3, OwnCasesOf
<1>5. InnerCases[m] \subseteq InnerCases[n]
  BY <1>1, InnerCasesOf
<1>6. Gotos[m] \subseteq Gotos[n]
  BY <1>1, GotosOf
<1> QED
  BY <1>2, <1>4, <1>5, <1>6 DEF Fit

\* What the parts need and define, by the kind of the node.
LEMMA TwoFit ==
  ASSUME NEW n, NEW D, NEW T, Fit(n, D, T), n.kind \in TwoParts
  PROVE  /\ Fit(n.lhs, D, T) /\ Fit(n.rhs, D, T)
         /\ Owned(n) = Owned(n.lhs) \cup Owned(n.rhs) /\ Owned(n.lhs) \cap Owned(n.rhs) = {}
<1> DEFINE s == <<n.lhs, n.rhs>>
<1>1. Range(s) = {n.lhs, n.rhs} /\ DOMAIN s = 1 .. 2 /\ s[1] = n.lhs /\ s[2] = n.rhs
  BY DEF Range
<1>2. Parts(n) = s /\ n \in Nodes
  BY PartsOfKind DEF Fit
<1> HIDE DEF s
<1>3. n.kind \notin {"ND_SWITCH", "ND_LABEL", "ND_CASE"}
  BY BinaryKinds DEF TwoParts
<1>4. Fit(n.lhs, D, T) /\ Fit(n.rhs, D, T)
  BY <1>1, <1>2, <1>3, PartFit
<1>5. OwnMark(n) = {}
  BY <1>3 DEF OwnMark
<1>6. Owned(n) = Owned(n.lhs) \cup Owned(n.rhs)
  BY <1>1, <1>2, <1>5, OwnedOf
<1>7. Owned(s[1]) \cap Owned(s[2]) = {}
  BY <1>1, <1>2, PartsApart
<1> QED
  BY <1>1, <1>4, <1>6, <1>7

LEMMA OneFit ==
  ASSUME NEW n, NEW D, NEW T, Fit(n, D, T), n.kind \in OnePart
  PROVE  /\ Fit(n.lhs, D, T) /\ Owned(n) = OwnMark(n) \cup Owned(n.lhs)
         /\ OwnMark(n) \cap Owned(n.lhs) = {}
<1> DEFINE s == <<n.lhs>>
<1>1. Range(s) = {n.lhs}
  BY DEF Range
<1>2. Parts(n) = s /\ n \in Nodes
  BY PartsOfKind DEF Fit
<1> HIDE DEF s
<1>3. n.kind # "ND_SWITCH"
  BY DEF OnePart
<1>4. Fit(n.lhs, D, T)
  BY <1>1, <1>2, <1>3, PartFit
<1>5. Owned(n) = OwnMark(n) \cup Owned(n.lhs)
  BY <1>1, <1>2, OwnedOf
<1>6. OwnMark(n) \cap Owned(n.lhs) = {}
  BY <1>2, PartsApart DEF OwnMark
<1> QED
  BY <1>4, <1>5, <1>6

LEMMA ThreeFit ==
  ASSUME NEW n, NEW D, NEW T, Fit(n, D, T), n.kind \in {"ND_COND", "ND_IF"}
  PROVE  /\ Fit(n.cond, D, T) /\ Fit(n.then, D, T) /\ Fit(n.els, D, T)
         /\ Owned(n) = Owned(n.cond) \cup Owned(n.then) \cup Owned(n.els)
         /\ Owned(n.cond) \cap Owned(n.then) = {} /\ Owned(n.cond) \cap Owned(n.els) = {}
         /\ Owned(n.then) \cap Owned(n.els) = {}
<1> DEFINE s == <<n.cond, n.then, n.els>>
<1>1. /\ Range(s) = {n.cond, n.then, n.els}
      /\ DOMAIN s = 1 .. 3 /\ s[1] = n.cond /\ s[2] = n.then /\ s[3] = n.els
  BY DEF Range
<1>2. Parts(n) = s /\ n \in Nodes
  BY PartsOfKind DEF Fit
<1> HIDE DEF s
<1>3. Fit(n.cond, D, T) /\ Fit(n.then, D, T) /\ Fit(n.els, D, T)
  BY <1>1, <1>2, PartFit
<1>4. OwnMark(n) = {}
  BY DEF OwnMark
<1>5. Owned(n) = UNION {Owned(m) : m \in {n.cond, n.then, n.els}}
  BY <1>1, <1>2, <1>4, OwnedOf
<1>6. /\ Owned(s[1]) \cap Owned(s[2]) = {} /\ Owned(s[1]) \cap Owned(s[3]) = {}
      /\ Owned(s[2]) \cap Owned(s[3]) = {}
  BY <1>1, <1>2, PartsApart
<1> QED
  BY <1>1, <1>3, <1>5, <1>6

LEMMA LoopFit ==
  ASSUME NEW n, NEW D, NEW T, Fit(n, D, T), n.kind \in {"ND_WHILE", "ND_DO"}
  PROVE  /\ Fit(n.cond, D, T) /\ Fit(n.then, D, T)
         /\ Owned(n) = Owned(n.cond) \cup Owned(n.then) /\ Owned(n.cond) \cap Owned(n.then) = {}
<1> DEFINE s == <<n.cond, n.then>>
<1>1. Range(s) = {n.cond, n.then} /\ DOMAIN s = 1 .. 2 /\ s[1] = n.cond /\ s[2] = n.then
  BY DEF Range
<1>2. Parts(n) = s /\ n \in Nodes
  BY PartsOfKind DEF Fit
<1> HIDE DEF s
<1>3. Fit(n.cond, D, T) /\ Fit(n.then, D, T)
  BY <1>1, <1>2, PartFit
<1>4. OwnMark(n) = {}
  BY DEF OwnMark
<1>5. Owned(n) = Owned(n.cond) \cup Owned(n.then)
  BY <1>1, <1>2, <1>4, OwnedOf
<1>6. Owned(s[1]) \cap Owned(s[2]) = {}
  BY <1>1, <1>2, PartsApart
<1> QED
  BY <1>1, <1>3, <1>5, <1>6

LEMMA ForFit ==
  ASSUME NEW n, NEW D, NEW T, Fit(n, D, T), n.kind = "ND_FOR"
  PROVE  /\ Fit(n.init, D, T) /\ Fit(n.cond, D, T) /\ Fit(n.then, D, T) /\ Fit(n.inc, D, T)
         /\ Owned(n) = Owned(n.init) \cup Owned(n.cond) \cup Owned(n.then) \cup Owned(n.inc)
         /\ Owned(n.init) \cap Owned(n.cond) = {} /\ Owned(n.init) \cap Owned(n.then) = {}
         /\ Owned(n.init) \cap Owned(n.inc) = {} /\ Owned(n.cond) \cap Owned(n.then) = {}
         /\ Owned(n.cond) \cap Owned(n.inc) = {} /\ Owned(n.then) \cap Owned(n.inc) = {}
<1> DEFINE s == <<n.init, n.cond, n.then, n.inc>>
<1>1. /\ Range(s) = {n.init, n.cond, n.then, n.inc}
      /\ DOMAIN s = 1 .. 4 /\ s[1] = n.init /\ s[2] = n.cond /\ s[3] = n.then /\ s[4] = n.inc
  BY DEF Range
<1>2. Parts(n) = s /\ n \in Nodes
  BY PartsOfKind DEF Fit
<1> HIDE DEF s
<1>3. Fit(n.init, D, T) /\ Fit(n.cond, D, T) /\ Fit(n.then, D, T) /\ Fit(n.inc, D, T)
  BY <1>1, <1>2, PartFit
<1>4. OwnMark(n) = {}
  BY DEF OwnMark
<1>5. Owned(n) = UNION {Owned(m) : m \in {n.init, n.cond, n.then, n.inc}}
  BY <1>1, <1>2, <1>4, OwnedOf
<1>6. /\ Owned(s[1]) \cap Owned(s[2]) = {} /\ Owned(s[1]) \cap Owned(s[3]) = {}
      /\ Owned(s[1]) \cap Owned(s[4]) = {} /\ Owned(s[2]) \cap Owned(s[3]) = {}
      /\ Owned(s[2]) \cap Owned(s[4]) = {} /\ Owned(s[3]) \cap Owned(s[4]) = {}
  BY <1>1, <1>2, PartsApart
<1> QED
  BY <1>1, <1>3, <1>5, <1>6

\* A node without parts.
LEMMA NoneFit ==
  ASSUME NEW n \in Nodes, Parts(n) = <<>>, n.kind \notin {"ND_LABEL", "ND_CASE"}
  PROVE  Owned(n) = {}
<1> DEFINE s == <<>>
<1>1. Range(s) = {}
  BY DEF Range
<1>2. Range(Parts(n)) = {}
  BY <1>1
<1>3. OwnMark(n) = {}
  BY DEF OwnMark
<1> QED
  BY <1>2, <1>3, OwnedOf

LEMMA PartsOfOthers ==
  ASSUME NEW n, n.kind \in {"ND_VAR", "ND_NUM", "ND_NULL_EXPR", "ND_BREAK", "ND_CONTINUE", "ND_GOTO", "NULL"}
  PROVE  Parts(n) = <<>>
BY BinaryKinds DEF Parts

LEMMA NullOwns == Null \in Nodes => Owned(Null) = {}
<1>1. Null.kind = "NULL"
  BY DEF Null
<1> QED
  BY <1>1, NoneFit, PartsOfOthers

LEMMA ApartEither ==
  ASSUME NEW b \in Seq(Nodes),
         \A i, j \in DOMAIN b : i < j => Owned(b[i]) \cap Owned(b[j]) = {}
  PROVE  \A i, j \in 1 .. Len(b) : i # j => Owned(b[i]) \cap Owned(b[j]) = {}
<1> SUFFICES ASSUME NEW i \in 1 .. Len(b), NEW j \in 1 .. Len(b), i # j
             PROVE  Owned(b[i]) \cap Owned(b[j]) = {}
  OBVIOUS
<1>1. DOMAIN b = 1 .. Len(b) /\ (i < j \/ j < i)
  OBVIOUS
<1>2. CASE i < j
  BY <1>1, <1>2
<1>3. CASE j < i
  <2>1. Owned(b[j]) \cap Owned(b[i]) = {}
    BY <1>1, <1>3
  <2> QED
    BY <2>1
<1> QED
  BY <1>1, <1>2, <1>3

\* The statements of a body, one behind the other.
LEMMA StatementsLaid ==
  ASSUME NEW b \in Seq(Nodes), NEW D, NEW T, \A i \in 1 .. Len(b) : Fit(b[i], D, T),
         \A i, j \in DOMAIN b : i < j => Owned(b[i]) \cap Owned(b[j]) = {}
  PROVE  Laid([i \in DOMAIN b |-> Stmt(b[i])], UNION {Owned(b[i]) : i \in 1 .. Len(b)}, D, T)
<1> DEFINE s == [i \in DOMAIN b |-> Stmt(b[i])]
           M == UNION {Owned(b[i]) : i \in 1 .. Len(b)}
<1>1. s \in Seq({Stmt(n) : n \in Nodes}) /\ Len(s) = Len(b)
  OBVIOUS
<1>2. \A i \in 1 .. Len(s) : s[i] = Stmt(b[i])
  BY <1>1
<1> HIDE DEF s
<1>3. \A i \in 1 .. Len(s) : IsNode(s[i]) /\ s[i].n = b[i] /\ s[i].do # "cases"
  <2>1. \A n : IsNode(Stmt(n)) /\ Stmt(n).n = n /\ Stmt(n).do # "cases"
    BY DEF IsNode, Stmt
  <2> QED
    BY <1>2, <2>1
<1>4. ASSUME NEW i \in 1 .. Len(s)
      PROVE  Ready(s[i], Waits(s, i), D, T) /\ Marked(s[i]) = Owned(b[i])
  <2>1. i > 1 => i - 1 \in 1 .. Len(s)
    OBVIOUS
  <2>2. Waits(s, i) = FALSE
    BY <1>3, <2>1 DEF Waits
  <2>3. Ready(s[i], FALSE, D, T) /\ Marked(s[i]) = Owned(b[i])
    BY <1>1, <1>3, ReadyFit
  <2> QED
    BY <2>2, <2>3
<1>5. \A i, j \in 1 .. Len(s) : i # j => Marked(s[i]) \cap Marked(s[j]) = {}
  BY <1>1, <1>4, ApartEither
<1>6. M = UNION {Marked(s[i]) : i \in 1 .. Len(s)}
  <2>1. {Marked(s[i]) : i \in 1 .. Len(s)} = {Owned(b[i]) : i \in 1 .. Len(b)}
    BY <1>1, <1>4
  <2> QED
    BY <2>1
<1> HIDE DEF M
<1>7. Laid(s, M, D, T)
  BY <1>1, <1>3, <1>4, <1>5, <1>6 DEF Laid
<1> QED
  BY <1>7 DEF s, M

LEMMA BodyFit ==
  ASSUME NEW n, NEW D, NEW T, Fit(n, D, T), n.kind \in {"ND_STMT_EXPR", "ND_BLOCK"}
  PROVE  Laid([i \in DOMAIN n.body |-> Stmt(n.body[i])], Owned(n), D, T)
<1> DEFINE b == n.body
<1>1. Parts(n) = b /\ n \in Nodes
  BY PartsOfKind DEF Fit
<1>2. b \in Seq(Nodes)
  BY <1>1, NodeParts
<1> HIDE DEF b
<1>3. Range(b) = {b[i] : i \in 1 .. Len(b)}
  BY <1>2 DEF Range
<1>4. \A i \in 1 .. Len(b) : Fit(b[i], D, T)
  BY <1>1, <1>3, PartFit
<1>5. \A i, j \in DOMAIN b : i < j => Owned(b[i]) \cap Owned(b[j]) = {}
  BY <1>1, PartsApart
<1>6. OwnMark(n) = {}
  BY DEF OwnMark
<1>7. Owned(n) = UNION {Owned(b[i]) : i \in 1 .. Len(b)}
  BY <1>1, <1>3, <1>6, OwnedOf
<1>8. Laid([i \in DOMAIN b |-> Stmt(b[i])], Owned(n), D, T)
  BY <1>2, <1>4, <1>5, <1>7, StatementsLaid
<1> QED
  BY <1>8 DEF b

\* Labels, jumps and the like.
LEMMA LabelLaid ==
  ASSUME NEW name, NEW k, NEW D, NEW T
  PROVE  Laid(<<Label(name, k)>>, {Lab(<<name, k>>)}, D, T)
<1> DEFINE x == Label(name, k)
<1>1. /\ x.do = "ins" /\ ~IsNode(x) /\ Marked(x) = {Lab(<<name, k>>)}
      /\ Wanted(x) = {} /\ Own(x) = {} /\ Inner(x) = {} /\ Known(x)
  BY DEF Label, Ins, IsNode, Marked, Wanted, Own, Inner, Known, IsJump
<1> HIDE DEF x
<1>2. Ready(x, FALSE, D, T)
  BY <1>1 DEF Ready
<1>3. Laid(<<x>>, {Lab(<<name, k>>)}, D, T)
  BY <1>1, <1>2, LaidOne
<1> QED
  BY <1>3 DEF x

LEMMA JumpLaid ==
  ASSUME NEW x, NEW D, NEW T, x.do = "ins", x.op # "label", IsJump(x.op) => x.arg \in T
  PROVE  Laid(<<x>>, {}, D, T)
<1>1. /\ ~IsNode(x) /\ Marked(x) = {} /\ Wanted(x) \subseteq T
      /\ Own(x) = {} /\ Inner(x) = {} /\ Known(x)
  BY DEF IsNode, Marked, Wanted, Own, Inner, Known
<1>2. Ready(x, FALSE, D, T) /\ x.do # "cases"
  BY <1>1 DEF Ready
<1> QED
  BY <1>1, <1>2, LaidOne

LEMMA InsLaid ==
  ASSUME NEW op, NEW regs, NEW arg, NEW d, NEW D, NEW T, op # "label", IsJump(op) => arg \in T
  PROVE  Laid(<<Ins(op, regs, arg, d)>>, {}, D, T)
<1> DEFINE x == Ins(op, regs, arg, d)
<1>1. x.do = "ins" /\ x.op = op /\ x.arg = arg
  BY DEF Ins
<1> HIDE DEF x
<1>2. Laid(<<x>>, {}, D, T)
  BY <1>1, JumpLaid
<1> QED
  BY <1>2 DEF x

LEMMA TopLaid == \A d, D, T : Laid(<<Top(d)>>, {}, D, T)
<1> SUFFICES ASSUME NEW d, NEW D, NEW T PROVE Laid(<<Top(d)>>, {}, D, T)
  OBVIOUS
<1>1. ~IsJump("none")
  BY DEF IsJump
<1> QED
  BY <1>1, InsLaid DEF Top

LEMMA GoLaid ==
  ASSUME NEW name, NEW k, NEW D, NEW T, <<name, k>> \in T
  PROVE  /\ Laid(<<Jump(name, k)>>, {}, D, T)
         /\ \A op, r : op # "label" => Laid(<<Branch(op, r, name, k)>>, {}, D, T)
BY InsLaid DEF Jump, Branch

LEMMA RestoreLaid ==
  ASSUME NEW brk, NEW cont, NEW D, NEW T, LoopLabels(brk, cont) \subseteq T
  PROVE  Laid(<<Restore(brk, cont)>>, {}, D, T)
<1> DEFINE x == Restore(brk, cont)
<1>1. /\ x.do = "restore" /\ ~IsNode(x) /\ Marked(x) = {}
      /\ Wanted(x) \subseteq T /\ Own(x) = {} /\ Inner(x) = {} /\ Known(x)
  BY DEF Restore, IsNode, Marked, Wanted, Own, Inner, Known
<1> HIDE DEF x
<1>2. Ready(x, FALSE, D, T)
  BY <1>1 DEF Ready
<1>3. Laid(<<x>>, {}, D, T)
  BY <1>1, <1>2, LaidOne
<1> QED
  BY <1>3 DEF x

LEMMA AssertLaid == \A D, T : Laid(<<AssertTop>>, {}, D, T)
BY LaidQuietOne DEF AssertTop, Quiet

\* The helpers write no label and no jump.
LEMMA CmpZeroLaid == \A ty, D, T : Laid(cmp_zero(ty), {}, D, T)
<1> SUFFICES ASSUME NEW ty, NEW D, NEW T PROVE Laid(cmp_zero(ty), {}, D, T)
  OBVIOUS
<1>1. ~IsJump("feqz") /\ ~IsJump("seqz")
  BY DEF IsJump
<1> QED
  BY <1>1, InsLaid DEF cmp_zero

LEMMA LoadLaid == \A ty, D, T : Laid(load(ty), {}, D, T)
<1> SUFFICES ASSUME NEW ty, NEW D, NEW T PROVE Laid(load(ty), {}, D, T)
  OBVIOUS
<1>1. ~IsJump("fld") /\ ~IsJump("load")
  BY DEF IsJump
<1> QED
  BY <1>1, InsLaid, LaidNothing DEF load

LEMMA StoreLaid == \A ty, D, T : Laid(store(ty), {}, D, T)
<1> SUFFICES ASSUME NEW ty, NEW D, NEW T PROVE Laid(store(ty), {}, D, T)
  OBVIOUS
<1>1. ~IsJump("fsd") /\ ~IsJump("store")
  BY DEF IsJump
<1> QED
  BY <1>1, InsLaid DEF store

LEMMA CastLaid == \A from, to, D, T : Laid(cast(from, to), {}, D, T)
<1> SUFFICES ASSUME NEW from, NEW to, NEW D, NEW T PROVE Laid(cast(from, to), {}, D, T)
  OBVIOUS
<1>1. ~IsJump("seqz") /\ ~IsJump("fcvt.l.d") /\ ~IsJump("fcvt.d.l") /\ ~IsJump("extend")
  BY DEF IsJump
<1>2. CASE to = "bool"
  <2> DEFINE t == <<Ins("seqz", <<R(0), R(0)>>, <<>>, 1)>>
  <2>1. cast(from, to) = cmp_zero(from) \o t
    BY <1>2 DEF cast, IsFlo
  <2>2. Laid(t, {}, D, T)
    BY <1>1, InsLaid
  <2> HIDE DEF t
  <2> QED
    BY <2>1, <2>2, CmpZeroLaid, LaidBehind
<1>3. CASE to # "bool"
  <2>1. \/ cast(from, to) = <<>>
        \/ \E op, regs, arg : ~IsJump(op) /\ op # "label" /\ cast(from, to) = <<Ins(op, regs, arg, 0)>>
    BY <1>1, <1>3 DEF cast
  <2> QED
    BY <2>1, InsLaid, LaidNothing
<1> QED
  BY <1>2, <1>3

LEMMA BinaryLaid ==
  ASSUME NEW n, n.kind \in Binary, NEW D, NEW T
  PROVE  Laid(binary(n), {}, D, T)
<1>1. \A op, regs : Calm(op) => Laid(<<Ins(op, regs, <<>>, 0)>>, {}, D, T)
  BY InsLaid DEF Calm, IsJump
<1>2. \A op, regs, oq, regt : Calm(op) /\ Calm(oq) =>
        Laid(<<Ins(op, regs, <<>>, 0)>> \o <<Ins(oq, regt, <<>>, 0)>>, {}, D, T)
  BY <1>1, LaidBehind
<1>3. \A op, regs : Calm(op) => Laid(<<Ins(op, regs, <<>>, 0)>> \o <<>>, {}, D, T)
  BY <1>1, LaidBehind, LaidNothing
<1> DEFINE ins(op, regs) == Ins(op, regs, <<>>, 0)
<1>4. PICK op, regs, oq, regt :
        /\ Calm(op) /\ Calm(oq)
        /\ \/ binary(n) = <<ins(op, regs)>>
           \/ binary(n) = <<ins(op, regs)>> \o <<>>
           \/ binary(n) = <<ins(op, regs)>> \o <<ins(oq, regt)>>
  BY BinaryCode
<1>5. Laid(<<ins(op, regs)>>, {}, D, T)
  BY <1>1, <1>4
<1>6. Laid(<<ins(op, regs)>> \o <<>>, {}, D, T)
  BY <1>3, <1>4
<1>7. Laid(<<ins(op, regs)>> \o <<ins(oq, regt)>>, {}, D, T)
  BY <1>2, <1>4
<1> QED
  BY <1>4, <1>5, <1>6, <1>7
-----------------------------------------------------------------------------
(* What is defined already, or will be.                                    *)

\* A jump to l finds it, when the marks K are all there will be.
Has(K, f, l) ==
  \/ l = <<"return", 0>> \/ Lab(l) \in K
  \/ \E d \in DOMAIN f : Cas(d) \in K /\ l = <<"case", f[d]>>

\* The numbers up to n are used, each case has one of its own.
Numbered(K, f, n) ==
  /\ \A l : Lab(l) \in K => l # <<"return", 0>> /\ l[2] \in 0 .. n - 1
  /\ \A d \in DOMAIN f : f[d] \in 1 .. n - 1 /\ (Cas(d) \in K => Lab(<<"case", f[d]>>) \notin K)
  /\ \A d, e \in DOMAIN f : f[d] = f[e] => d = e

\* The items s define M, the code C; T are the labels that may be jumped to, J
\* those the code does jump to.
Good(s, M, T, C, J, f, n) ==
  /\ n \in Nat \ {0}
  /\ Laid(s, M, DOMAIN f, T)
  /\ M \cap C = {}
  /\ Numbered(M \cup C, f, n)
  /\ \A l \in T : Has(M \cup C, f, l)
  /\ J \subseteq T

\* The labels in the code, those it jumps to, and that no label is there twice.
MarksOf(c) == {Lab(c[k].arg) : k \in {j \in DOMAIN c : c[j].op = "label"}}
TargetsOf(c) == {c[k].arg : k \in {j \in DOMAIN c : IsJump(c[j].op)}}
Once(c) == \A j, k \in DOMAIN c : c[j].op = "label" /\ c[k].op = "label" /\ c[j].arg = c[k].arg => j = k

Resolved ==
  /\ \E S : code \in Seq(S)
  /\ Once(code)
  /\ status = "done" => \A l \in TargetsOf(code) : Lab(l) \in MarksOf(code)
  /\ status = "gen" => \E M, T : /\ Good(todo, M, T, MarksOf(code), TargetsOf(code), case_label, labelseq)
                                 /\ LoopLabels(brkseq, contseq) \subseteq T
-----------------------------------------------------------------------------
(* A first item that becomes others, which take the number n for the names *)
(* A.                                                                      *)

Fresh(A, n) == {Lab(<<a, n>>) : a \in A}
Goals(A, n) == {<<a, n>> : a \in A}

LEMMA FreshMarks ==
  ASSUME NEW s, NEW M, NEW T, NEW C, NEW J, NEW f, NEW n, NEW A, Good(s, M, T, C, J, f, n)
  PROVE  Fresh(A, n) \cap (M \cup C) = {}
<1> SUFFICES ASSUME NEW a \in A, Lab(<<a, n>>) \in M \cup C PROVE FALSE
  BY DEF Fresh
<1>1. <<a, n>>[2] \in 0 .. n - 1
  BY DEF Good, Numbered
<1> QED
  BY <1>1 DEF Good

LEMMA FreshNumbered ==
  ASSUME NEW K, NEW f, NEW n \in Nat \ {0}, NEW A, NEW m \in Nat, m >= n, A # {} => m > n,
         Numbered(K, f, n)
  PROVE  Numbered(K \cup Fresh(A, n), f, m)
<1> DEFINE L == K \cup Fresh(A, n)
<1>1. \A x : x \in L <=> x \in K \/ \E a \in A : x = Lab(<<a, n>>)
  BY DEF Fresh
<1> HIDE DEF L
<1>2. ASSUME NEW l, Lab(l) \in L PROVE l # <<"return", 0>> /\ l[2] \in 0 .. m - 1
  <2>1. CASE Lab(l) \in K
    <3>1. l # <<"return", 0>> /\ l[2] \in 0 .. n - 1
      BY <2>1 DEF Numbered
    <3> QED
      BY <3>1
  <2>2. ASSUME NEW a \in A, Lab(l) = Lab(<<a, n>>) PROVE l # <<"return", 0>> /\ l[2] \in 0 .. m - 1
    <3>1. l = <<a, n>>
      BY <2>2, Distinct
    <3>2. m > n
      BY <2>2
    <3> QED
      BY <3>1, <3>2
  <2> QED
    BY <1>1, <1>2, <2>1, <2>2
<1>3. ASSUME NEW d \in DOMAIN f
      PROVE  f[d] \in 1 .. m - 1 /\ (Cas(d) \in L => Lab(<<"case", f[d]>>) \notin L)
  <2>1. f[d] \in 1 .. n - 1 /\ (Cas(d) \in K => Lab(<<"case", f[d]>>) \notin K)
    BY DEF Numbered
  <2>2. ASSUME Cas(d) \in L PROVE Cas(d) \in K
    <3>1. Cas(d) \in K \/ \E a \in A : Cas(d) = Lab(<<a, n>>)
      BY <1>1, <2>2
    <3>2. \A a : Lab(<<a, n>>) # Cas(d)
      BY Distinct
    <3> QED
      BY <3>1, <3>2
  <2>3. ASSUME NEW a \in A, Lab(<<"case", f[d]>>) = Lab(<<a, n>>) PROVE FALSE
    <3>1. <<"case", f[d]>> = <<a, n>>
      BY <2>3, Distinct
    <3> QED
      BY <2>1, <3>1
  <2>4. f[d] \in 1 .. m - 1
    BY <2>1
  <2> QED
    BY <1>1, <2>1, <2>2, <2>3, <2>4
<1>4. \A d, e \in DOMAIN f : f[d] = f[e] => d = e
  BY DEF Numbered
<1> QED
  BY <1>2, <1>3, <1>4 DEF Numbered, L

LEMMA GoodReplaced ==
  ASSUME NEW s, NEW M, NEW T, NEW C, NEW J, NEW f, NEW n, Good(s, M, T, C, J, f, n),
         s # <<>>, Head(s).do # "cases", NEW items, NEW A,
         Laid(items, Marked(Head(s)) \cup Fresh(A, n), DOMAIN f, T \cup Goals(A, n)),
         NEW m \in Nat, m >= n, A # {} => m > n
  PROVE  Good(items \o Tail(s), M \cup Fresh(A, n), T \cup Goals(A, n), C, J, f, m)
<1> DEFINE H == Marked(Head(s))
           F1 == Fresh(A, n)
           G == Goals(A, n)
           D == DOMAIN f
<1>1. n \in Nat \ {0} /\ Laid(s, M, D, T) /\ M \cap C = {} /\ Numbered(M \cup C, f, n)
      /\ (\A l \in T : Has(M \cup C, f, l)) /\ J \subseteq T
  BY DEF Good
<1>2. M = H \cup (M \ H) /\ Laid(Tail(s), M \ H, D, T)
  BY <1>1, LaidFirst
<1>3. F1 \cap (M \cup C) = {}
  BY FreshMarks
<1>4. Numbered(M \cup C \cup F1, f, m)
  BY <1>1, FreshNumbered
<1>5. \A l \in G : Lab(l) \in F1
  BY DEF Fresh, Goals
<1>6. Laid(items, H \cup F1, D, T \cup G)
  OBVIOUS
<1> HIDE DEF H, F1, G, D
<1>7. Laid(Tail(s), M \ H, D, T \cup G)
  BY <1>2, LaidMore
<1>8. (H \cup F1) \cap (M \ H) = {} /\ M \cup F1 = (H \cup F1) \cup (M \ H)
  BY <1>2, <1>3
<1>9. Laid(items \o Tail(s), M \cup F1, D, T \cup G)
  BY <1>6, <1>7, <1>8, LaidWith
<1>10. (M \cup F1) \cap C = {} /\ (M \cup F1) \cup C = M \cup C \cup F1
  BY <1>1, <1>3
<1>11. ASSUME NEW l \in T \cup G PROVE Has(M \cup C \cup F1, f, l)
  BY <1>1, <1>5 DEF Has
<1>12. m \in Nat \ {0} /\ J \subseteq T \cup G
  BY <1>1
<1> HIDE DEF Good
<1>13. Good(items \o Tail(s), M \cup F1, T \cup G, C, J, f, m)
  BY <1>4, <1>9, <1>10, <1>11, <1>12 DEF Good, D
<1> QED
  BY <1>13 DEF F1, G
-----------------------------------------------------------------------------
(* A case becomes a label.                                                 *)

LEMMA CaseNumbered ==
  ASSUME NEW K, NEW f, NEW n, Numbered(K, f, n), NEW c \in DOMAIN f, Cas(c) \in K
  PROVE  /\ Lab(<<"case", f[c]>>) \notin K
         /\ Numbered((K \ {Cas(c)}) \cup {Lab(<<"case", f[c]>>)}, f, n)
<1> DEFINE l0 == <<"case", f[c]>>
           L == (K \ {Cas(c)}) \cup {Lab(l0)}
<1>1. f[c] \in 1 .. n - 1 /\ Lab(l0) \notin K
  BY DEF Numbered
<1>2. l0 # <<"return", 0>> /\ l0[2] = f[c]
  OBVIOUS
<1>3. \A d \in DOMAIN f : <<"case", f[d]>> = l0 => f[d] = f[c]
  OBVIOUS
<1> HIDE DEF l0
<1>4. \A x : x \in L <=> (x \in K /\ x # Cas(c)) \/ x = Lab(l0)
  OBVIOUS
<1> HIDE DEF L
<1>5. ASSUME NEW l, Lab(l) \in L PROVE l # <<"return", 0>> /\ l[2] \in 0 .. n - 1
  <2>1. CASE Lab(l) \in K
    BY <2>1 DEF Numbered
  <2>2. CASE Lab(l) = Lab(l0)
    <3>1. l = l0
      BY <2>2, Distinct
    <3>2. f[c] \in 0 .. n - 1
      BY <1>1
    <3> QED
      BY <1>2, <3>1, <3>2
  <2> QED
    BY <1>4, <1>5, <2>1, <2>2
<1>6. ASSUME NEW d \in DOMAIN f
      PROVE  f[d] \in 1 .. n - 1 /\ (Cas(d) \in L => Lab(<<"case", f[d]>>) \notin L)
  <2>1. f[d] \in 1 .. n - 1 /\ (Cas(d) \in K => Lab(<<"case", f[d]>>) \notin K)
    BY DEF Numbered
  <2>2. ASSUME Cas(d) \in L PROVE Lab(<<"case", f[d]>>) \notin L
    <3>1. Cas(d) # Lab(l0)
      BY Distinct
    <3>2. Cas(d) \in K /\ d # c
      BY <1>4, <2>2, <3>1
    <3>3. f[d] # f[c]
      BY <3>2 DEF Numbered
    <3>4. Lab(<<"case", f[d]>>) # Lab(l0)
      BY <1>3, <3>3, Distinct
    <3> QED
      BY <1>4, <2>1, <3>2, <3>4
  <2> QED
    BY <2>1, <2>2
<1>7. \A d, e \in DOMAIN f : f[d] = f[e] => d = e
  BY DEF Numbered
<1>8. Numbered(L, f, n)
  BY <1>5, <1>6, <1>7 DEF Numbered
<1> QED
  BY <1>1, <1>8 DEF L, l0

LEMMA GoodCase ==
  ASSUME NEW s, NEW M, NEW T, NEW C, NEW J, NEW f, NEW n, Good(s, M, T, C, J, f, n),
         s # <<>>, IsNode(Head(s)), NEW x, x = Head(s).n, x.kind = "ND_CASE"
  PROVE  Good(<<Label("case", f[x.id]), Stmt(x.lhs)>> \o Tail(s),
              (M \ {Cas(x.id)}) \cup {Lab(<<"case", f[x.id]>>)}, T, C, J, f, n)
<1> DEFINE D == DOMAIN f
           K == M \cup C
           c == x.id
           l0 == <<"case", f[x.id]>>
           H == Marked(Head(s))
           B == Owned(x.lhs)
           M2 == (M \ {Cas(c)}) \cup {Lab(l0)}
           items == <<Label("case", f[x.id]), Stmt(x.lhs)>>
<1>1. n \in Nat \ {0} /\ Laid(s, M, D, T) /\ M \cap C = {} /\ Numbered(K, f, n)
      /\ (\A l \in T : Has(K, f, l)) /\ J \subseteq T
  BY DEF Good
<1>2. M = H \cup (M \ H) /\ Laid(Tail(s), M \ H, D, T) /\ Ready(Head(s), FALSE, D, T)
  <2>1. Head(s).do # "cases"
    BY DEF IsNode
  <2> QED
    BY <1>1, <2>1, LaidFirst
<1>3. Fit(x, D, T) /\ H = Owned(x)
  BY <1>2, ReadyFit
<1>4. Fit(x.lhs, D, T) /\ H = {Cas(c)} \cup B /\ Cas(c) \notin B
  <2>1. x.kind \in OnePart /\ OwnMark(x) = {Cas(c)}
    BY DEF OnePart, OwnMark
  <2> QED
    BY <1>3, <2>1, OneFit
<1>5. c \in D
  <2>1. c \in OwnCases[x]
    BY <1>3, OwnCasesOf DEF Fit
  <2> QED
    BY <1>3, <2>1 DEF Fit
<1>6. Cas(c) \in M /\ Cas(c) \notin C
  BY <1>1, <1>2, <1>4
<1>7. Lab(l0) \notin K /\ Numbered((K \ {Cas(c)}) \cup {Lab(l0)}, f, n)
  BY <1>1, <1>5, <1>6, CaseNumbered
<1>8. Lab(l0) \notin B
  BY <1>2, <1>4, <1>7
<1>9. Laid(items, {Lab(l0)} \cup B, D, T)
  <2>1. Laid(<<Label("case", f[x.id])>>, {Lab(l0)}, D, T)
    BY LabelLaid
  <2>2. Laid(<<Stmt(x.lhs)>>, B, D, T)
    BY <1>4, NodeLaid
  <2>3. {Lab(l0)} \cap B = {}
    BY <1>8
  <2> HIDE DEF B
  <2> QED
    BY <2>1, <2>2, <2>3, LaidPair
<1>10. \A l \in T : Has(M2 \cup C, f, l)
  <2> SUFFICES ASSUME NEW l \in T PROVE Has(M2 \cup C, f, l)
    OBVIOUS
  <2>1. Has(K, f, l)
    BY <1>1
  <2>2. CASE l = <<"return", 0>>
    BY <2>2 DEF Has
  <2>3. CASE Lab(l) \in K
    <3>1. Lab(l) # Cas(c)
      BY Distinct
    <3> QED
      BY <2>3, <3>1 DEF Has
  <2>4. ASSUME NEW d \in DOMAIN f, Cas(d) \in K, l = <<"case", f[d]>> PROVE Has(M2 \cup C, f, l)
    <3>1. CASE d = c
      BY <2>4, <3>1 DEF Has
    <3>2. CASE d # c
      <4>1. Cas(d) # Cas(c)
        BY <3>2, Distinct
      <4> QED
        BY <2>4, <4>1 DEF Has
    <3> QED
      BY <3>1, <3>2
  <2> QED
    BY <2>1, <2>2, <2>3, <2>4 DEF Has
<1> HIDE DEF items, B, l0, H, D
<1>11. ({Lab(l0)} \cup B) \cap (M \ H) = {} /\ M2 = ({Lab(l0)} \cup B) \cup (M \ H)
  BY <1>2, <1>4, <1>6, <1>7
<1>12. Laid(items \o Tail(s), M2, D, T)
  BY <1>2, <1>9, <1>11, LaidWith
<1>13. M2 \cap C = {} /\ M2 \cup C = (K \ {Cas(c)}) \cup {Lab(l0)}
  BY <1>1, <1>6, <1>7
<1> HIDE DEF M2, K
<1>14. Numbered(M2 \cup C, f, n)
  BY <1>7, <1>13
<1>15. Good(items \o Tail(s), M2, T, C, J, f, n)
  BY <1>1, <1>10, <1>12, <1>13, <1>14 DEF Good, D
<1> QED
  BY <1>15 DEF items, M2, l0
-----------------------------------------------------------------------------
(* The cases of a switch get their numbers.                                *)

\* What x owns, if it is a node.
LEMMA CasesMarked ==
  ASSUME NEW x, NEW c, c \in Own(x) \/ c \in Inner(x)
  PROVE  Cas(c) \in Marked(x)
<1>1. IsNode(x)
  BY DEF Own, Inner
<1>2. c \in Cases(x.n)
  BY <1>1 DEF Own, Inner, Cases
<1> QED
  BY <1>1, <1>2 DEF Marked, Owned

LEMMA LaidCases ==
  ASSUME NEW s, NEW M, NEW D, NEW T, Laid(s, M, D, T), s # <<>>, Head(s).do = "cases",
         NEW I, I = OwnCases[Head(s).n.then]
  PROVE  /\ I \cap D = {} /\ \A c \in I : Cas(c) \in M
         /\ \A U : T \subseteq U => Laid(Tail(s), M, D \cup I, U)
<1>1. PICK S : s \in Seq(S)
  BY DEF Laid
<1> DEFINE n == Len(s)
           t == Tail(s)
           w == Head(s).n
<1>2. n \in Nat /\ n >= 1 /\ Head(s) = s[1]
  BY <1>1
<1>3. /\ t \in Seq(S) /\ Len(t) = n - 1
      /\ \A k \in 1 .. n - 1 : t[k] = s[k + 1]
  BY <1>1, <1>2
<1> HIDE DEF n, t
<1>4. /\ \A k \in 1 .. n : Ready(s[k], Waits(s, k), D, T)
      /\ \A k \in 1 .. n : s[k].do = "cases" => k + 1 \in 1 .. n /\ s[k + 1] = Stmt(s[k].n.then)
      /\ \A j, k \in 1 .. n : j # k => Marked(s[j]) \cap Marked(s[k]) = {}
      /\ M = UNION {Marked(s[k]) : k \in 1 .. n}
  BY DEF Laid, n
<1>5. 1 \in 1 .. n /\ 2 \in 1 .. n /\ s[2] = Stmt(w.then)
  <2>1. 1 \in 1 .. n
    BY <1>2
  <2>2. 1 + 1 \in 1 .. n /\ s[1 + 1] = Stmt(s[1].n.then)
    BY <1>2, <1>4, <2>1
  <2> QED
    BY <1>2, <2>1, <2>2
<1>6. IsNode(s[2]) /\ s[2].n = w.then /\ s[2].do # "cases"
  BY <1>5 DEF IsNode, Stmt
<1>7. Waits(s, 2) = TRUE
  BY <1>2 DEF Waits
<1>8. Ready(s[2], TRUE, D, T)
  BY <1>4, <1>5, <1>7
<1>9. Own(s[2]) = I
  BY <1>6 DEF Own
<1>10. I \cap D = {} /\ Known(s[2]) /\ Inner(s[2]) \cap D = {} /\ Inner(s[2]) \cap I = {} /\ Wanted(s[2]) \subseteq T
  BY <1>8, <1>9 DEF Ready
<1>11. \A c \in I : Cas(c) \in Marked(s[2])
  BY <1>9, CasesMarked
<1>12. \A c \in I : Cas(c) \in M
  BY <1>4, <1>5, <1>11
<1>13. Marked(s[1]) = {}
  BY <1>2 DEF Marked, IsNode
<1>14. \A k \in 1 .. n - 1 : k + 1 \in 1 .. n /\ t[k] = s[k + 1]
  BY <1>2, <1>3
<1>15. ASSUME NEW U, T \subseteq U PROVE Laid(t, M, D \cup I, U)
  <2>1. ASSUME NEW k \in 1 .. n - 1 PROVE Ready(t[k], Waits(t, k), D \cup I, U)
    <3>1. CASE k = 1
      <4>1. t[k] = s[2] /\ Waits(t, k) = FALSE
        <5>1. 1 + 1 = 2
          OBVIOUS
        <5> QED
          BY <1>14, <3>1, <5>1 DEF Waits
      <4>2. Ready(s[2], FALSE, D \cup I, U)
        BY <1>9, <1>10, <1>15 DEF Ready
      <4> QED
        BY <4>1, <4>2
    <3>2. CASE k # 1
      <4>1. Waits(t, k) = Waits(s, k + 1)
        <5>1. k - 1 \in 1 .. n - 1 /\ (k - 1) + 1 = k + 1 - 1 /\ k > 1 /\ k + 1 > 1
          BY <1>2, <3>2
        <5>2. t[k - 1] = s[k + 1 - 1]
          BY <1>3, <5>1
        <5> QED
          BY <5>1, <5>2 DEF Waits
      <4> DEFINE x == s[k + 1]
                 u == Waits(s, k + 1)
      <4>2. t[k] = x /\ Ready(x, u, D, T)
        BY <1>4, <1>14
      <4>3. Marked(x) \cap Marked(s[2]) = {}
        <5>1. k + 1 # 2
          BY <3>2
        <5> QED
          BY <1>4, <1>5, <1>14, <5>1
      <4> HIDE DEF x, u
      <4>4. \A c \in I : c \notin Own(x) /\ c \notin Inner(x)
        BY <1>11, <4>3, CasesMarked
      <4>5. Ready(x, u, D \cup I, U)
        BY <1>15, <4>2, <4>4 DEF Ready
      <4> QED
        BY <4>1, <4>2, <4>5 DEF u
    <3> QED
      BY <3>1, <3>2
  <2>2. ASSUME NEW k \in 1 .. n - 1, t[k].do = "cases"
        PROVE  k + 1 \in 1 .. n - 1 /\ t[k + 1] = Stmt(t[k].n.then)
    <3>1. k + 1 + 1 \in 1 .. n /\ s[k + 1 + 1] = Stmt(s[k + 1].n.then)
      BY <1>4, <1>14, <2>2
    <3>2. k + 1 \in 1 .. n - 1
      BY <1>2, <3>1
    <3> QED
      BY <1>14, <3>1, <3>2
  <2>3. ASSUME NEW j \in 1 .. n - 1, NEW k \in 1 .. n - 1, j # k
        PROVE  Marked(t[j]) \cap Marked(t[k]) = {}
    <3>1. j + 1 # k + 1
      BY <2>3
    <3> QED
      BY <1>4, <1>14, <3>1
  <2>4. ASSUME NEW x \in M PROVE \E k \in 1 .. n - 1 : x \in Marked(t[k])
    <3>1. PICK j \in 1 .. n : x \in Marked(s[j])
      BY <1>4
    <3>2. j # 1
      BY <1>13, <3>1
    <3>3. j - 1 \in 1 .. n - 1 /\ (j - 1) + 1 = j
      BY <1>2, <3>2
    <3>4. t[j - 1] = s[j]
      BY <1>3, <3>3
    <3> QED
      BY <3>1, <3>3, <3>4
  <2>5. \A k \in 1 .. n - 1 : Marked(t[k]) \subseteq M
    BY <1>4, <1>14
  <2>6. M = UNION {Marked(t[k]) : k \in 1 .. n - 1}
    BY <2>4, <2>5
  <2> QED
    BY <1>3, <2>1, <2>2, <2>3, <2>6 DEF Laid
<1> QED
  BY <1>10, <1>12, <1>15 DEF t

\* The same in two parts, which the provers use separately.
LEMMA CasesOwned ==
  ASSUME NEW s, NEW M, NEW D, NEW T, Laid(s, M, D, T), s # <<>>, Head(s).do = "cases",
         NEW I, I = OwnCases[Head(s).n.then]
  PROVE  I \cap D = {} /\ \A c \in I : Cas(c) \in M
<1>1. \A r, K, E, V, H :
        Laid(r, K, E, V) /\ r # <<>> /\ Head(r).do = "cases" /\ H = OwnCases[Head(r).n.then]
          => H \cap E = {} /\ (\A c \in H : Cas(c) \in K)
  BY LaidCases
<1> QED
  BY <1>1

LEMMA CasesTail ==
  ASSUME NEW s, NEW M, NEW D, NEW T, Laid(s, M, D, T), s # <<>>, Head(s).do = "cases",
         NEW I, I = OwnCases[Head(s).n.then], NEW U, T \subseteq U
  PROVE  Laid(Tail(s), M, D \cup I, U)
<1>1. \A r, K, E, V, H :
        Laid(r, K, E, V) /\ r # <<>> /\ Head(r).do = "cases" /\ H = OwnCases[Head(r).n.then]
          => (\A W : V \subseteq W => Laid(Tail(r), K, E \cup H, W))
  BY LaidCases
<1> QED
  BY <1>1

\* New numbers from n on, for the cases I.
LEMMA CasesNumbered ==
  ASSUME NEW K, NEW f, NEW n \in Nat \ {0}, Numbered(K, f, n), NEW I, I \cap DOMAIN f = {},
         NEW m \in Nat, m >= n, NEW g, DOMAIN g = DOMAIN f \cup I,
         \A d \in DOMAIN f : g[d] = f[d],
         \A c \in I : g[c] \in n .. m - 1,
         \A c, d \in I : g[c] = g[d] => c = d
  PROVE  Numbered(K, g, m)
<1>1. ASSUME NEW l, Lab(l) \in K PROVE l # <<"return", 0>> /\ l[2] \in 0 .. m - 1 /\ l[2] \in 0 .. n - 1
  <2>1. l # <<"return", 0>> /\ l[2] \in 0 .. n - 1
    BY <1>1 DEF Numbered
  <2> QED
    BY <2>1
<1>2. ASSUME NEW d \in DOMAIN f
      PROVE  g[d] \in 1 .. n - 1 /\ (Cas(d) \in K => Lab(<<"case", g[d]>>) \notin K)
  BY DEF Numbered
<1>3. ASSUME NEW c \in I PROVE g[c] \in 1 .. m - 1 /\ Lab(<<"case", g[c]>>) \notin K
  <2>1. g[c] \in n .. m - 1
    OBVIOUS
  <2>2. ASSUME Lab(<<"case", g[c]>>) \in K PROVE FALSE
    <3>1. <<"case", g[c]>>[2] \in 0 .. n - 1
      BY <1>1, <2>2
    <3> QED
      BY <2>1, <3>1
  <2> QED
    BY <2>1, <2>2
<1>4. ASSUME NEW d \in DOMAIN g, NEW e \in DOMAIN g, g[d] = g[e] PROVE d = e
  <2>1. CASE d \in DOMAIN f /\ e \in DOMAIN f
    BY <1>4, <2>1 DEF Numbered
  <2>2. CASE d \in I /\ e \in I
    BY <1>4, <2>2
  <2>3. ASSUME NEW a \in DOMAIN f, NEW b \in I, g[a] = g[b] PROVE FALSE
    <3>1. g[a] \in 1 .. n - 1 /\ g[b] \in n .. m - 1
      BY <1>2
    <3> QED
      BY <2>3, <3>1
  <2> QED
    BY <1>4, <2>1, <2>2, <2>3
<1>5. ASSUME NEW d \in DOMAIN g
      PROVE  g[d] \in 1 .. m - 1 /\ (Cas(d) \in K => Lab(<<"case", g[d]>>) \notin K)
  <2>1. CASE d \in DOMAIN f
    <3>1. g[d] \in 1 .. n - 1
      BY <1>2, <2>1
    <3>2. g[d] \in 1 .. m - 1
      BY <3>1
    <3> QED
      BY <1>2, <2>1, <3>2
  <2>2. CASE d \in I
    BY <1>3, <2>2
  <2> QED
    BY <2>1, <2>2
<1> QED
  BY <1>1, <1>4, <1>5 DEF Numbered

\* g is f with numbers from n up to m for the cases I.
Renumbers(g, f, I, n, m) ==
  /\ m \in Nat /\ m >= n
  /\ DOMAIN g = DOMAIN f \cup I
  /\ \A d \in DOMAIN f : d \notin I => g[d] = f[d]
  /\ \A c \in I : g[c] \in n .. m - 1
  /\ \A c, d \in I : g[c] = g[d] => c = d

NumberLabels(g, I) == {<<"case", g[c]>> : c \in I}

LEMMA GoodCases ==
  ASSUME NEW s, NEW M, NEW T, NEW C, NEW J, NEW f, NEW n, Good(s, M, T, C, J, f, n),
         s # <<>>, Head(s).do = "cases", NEW I, I = OwnCases[Head(s).n.then],
         NEW m, NEW g, Renumbers(g, f, I, n, m),
         NEW items, NEW U, U = T \cup NumberLabels(g, I),
         Laid(items, {}, DOMAIN g, U)
  PROVE  Good(items \o Tail(s), M, U, C, J, g, m)
<1> DEFINE D == DOMAIN f
           K == M \cup C
<1>1. n \in Nat \ {0} /\ Laid(s, M, D, T) /\ M \cap C = {} /\ Numbered(K, f, n)
      /\ (\A l \in T : Has(K, f, l)) /\ J \subseteq T
  BY DEF Good
<1>0. /\ m \in Nat /\ m >= n
      /\ DOMAIN g = DOMAIN f \cup I
      /\ \A d \in DOMAIN f : d \notin I => g[d] = f[d]
      /\ \A c \in I : g[c] \in n .. m - 1
      /\ \A c, d \in I : g[c] = g[d] => c = d
  BY DEF Renumbers
<1>2. T \subseteq U
  OBVIOUS
<1>3. Laid(s, M, D, T)
  BY <1>1
<1> HIDE DEF D
<1>4. I \cap D = {} /\ \A c \in I : Cas(c) \in M
  BY <1>3, CasesOwned
<1>5. Laid(Tail(s), M, D \cup I, U)
  BY <1>2, <1>3, CasesTail
<1> USE DEF D
<1>6. Laid(items \o Tail(s), M, DOMAIN g, U)
  <2>1. Laid(Tail(s), M, DOMAIN g, U)
    BY <1>0, <1>5
  <2> QED
    BY <2>1, LaidBefore
<1>7. \A d \in D : g[d] = f[d]
  BY <1>0, <1>4
<1>8. Numbered(K, g, m)
  <2> HIDE DEF K
  <2> QED
    <3>1. n \in Nat \ {0} /\ Numbered(K, f, n)
      BY <1>1
    <3>2. I \cap DOMAIN f = {} /\ \A d \in DOMAIN f : g[d] = f[d]
      BY <1>4, <1>7
    <3>3. m \in Nat /\ m >= n /\ DOMAIN g = DOMAIN f \cup I
      BY <1>0
    <3>4. (\A c \in I : g[c] \in n .. m - 1) /\ \A c, d \in I : g[c] = g[d] => c = d
      BY <1>0
    <3> QED
      BY <3>1, <3>2, <3>3, <3>4, CasesNumbered, ZenonT(60)
<1>9. ASSUME NEW l \in U PROVE Has(K, g, l)
  <2>1. CASE l \in T
    BY <1>0, <1>1, <1>7, <2>1 DEF Has
  <2>2. ASSUME NEW c \in I, l = <<"case", g[c]>> PROVE Has(K, g, l)
    BY <1>0, <1>4, <2>2 DEF Has
  <2> QED
    BY <2>1, <2>2 DEF NumberLabels
<1>10. m \in Nat \ {0} /\ J \subseteq U
  BY <1>0, <1>1, <1>2
<1> QED
  BY <1>1, <1>6, <1>8, <1>9, <1>10 DEF Good
-----------------------------------------------------------------------------
(* What is done leaves the rest to do.                                     *)

LEMMA GoodPassed ==
  ASSUME NEW s, NEW M, NEW T, NEW C, NEW J, NEW f, NEW n, Good(s, M, T, C, J, f, n),
         s # <<>>, NEW x, x = Head(s), x.do \in {"ins", "restore", "assert"}
  PROVE  /\ Marked(x) \subseteq M /\ Wanted(x) \subseteq T
         /\ Good(Tail(s), M \ Marked(x), T, C \cup Marked(x), J \cup (IF x.do = "ins" THEN Wanted(x) ELSE {}), f, n)
<1> DEFINE D == DOMAIN f
           H == Marked(x)
           K == IF x.do = "ins" THEN Wanted(x) ELSE {}
<1>1. n \in Nat \ {0} /\ Laid(s, M, D, T) /\ M \cap C = {} /\ Numbered(M \cup C, f, n)
      /\ (\A l \in T : Has(M \cup C, f, l)) /\ J \subseteq T
  BY DEF Good
<1>2. M = H \cup (M \ H) /\ Laid(Tail(s), M \ H, D, T) /\ Ready(x, FALSE, D, T)
  BY <1>1, LaidFirst
<1>3. Wanted(x) \subseteq T
  BY <1>2 DEF Ready
<1> HIDE DEF H
<1>4. (M \ H) \cap (C \cup H) = {} /\ (M \ H) \cup (C \cup H) = M \cup C
  BY <1>1, <1>2
<1>5. J \cup K \subseteq T
  BY <1>1, <1>3
<1> HIDE DEF K
<1>6. Good(Tail(s), M \ H, T, C \cup H, J \cup K, f, n)
  <2> DEFINE A == M \ H
             B == C \cup H
  <2>1. A \cap B = {} /\ A \cup B = M \cup C /\ Laid(Tail(s), A, D, T)
    BY <1>2, <1>4
  <2> HIDE DEF A, B
  <2>2. Good(Tail(s), A, T, B, J \cup K, f, n)
    BY <1>1, <1>5, <2>1 DEF Good
  <2> QED
    BY <2>2 DEF A, B
<1>7. H \subseteq M
  BY <1>2
<1> QED
  BY <1>3, <1>6, <1>7 DEF H, K

\* The code, and an instruction more.
LEMMA CodeAppend ==
  ASSUME NEW S, NEW c \in Seq(S), NEW i
  PROVE  /\ \E U : Append(c, i) \in Seq(U)
         /\ MarksOf(Append(c, i)) = MarksOf(c) \cup (IF i.op = "label" THEN {Lab(i.arg)} ELSE {})
         /\ TargetsOf(Append(c, i)) = TargetsOf(c) \cup (IF IsJump(i.op) THEN {i.arg} ELSE {})
         /\ Once(c) /\ (i.op = "label" => Lab(i.arg) \notin MarksOf(c)) => Once(Append(c, i))
<1> DEFINE d == Append(c, i)
           n == Len(c)
<1>1. n \in Nat /\ c \in Seq(S \cup {i}) /\ DOMAIN c = 1 .. n
  OBVIOUS
<1>2. d \in Seq(S \cup {i}) /\ DOMAIN d = 1 .. n + 1 /\ d[n + 1] = i /\ \A k \in 1 .. n : d[k] = c[k]
  BY <1>1
<1> HIDE DEF d, n
<1>3. \A k : k \in DOMAIN d <=> k \in DOMAIN c \/ k = n + 1
  BY <1>1, <1>2
<1>4. n + 1 \notin DOMAIN c /\ \A k \in DOMAIN c : d[k] = c[k]
  BY <1>1, <1>2
<1>5. MarksOf(d) = MarksOf(c) \cup (IF i.op = "label" THEN {Lab(i.arg)} ELSE {})
  <2>1. \A x : x \in MarksOf(d) <=> \E k \in DOMAIN d : d[k].op = "label" /\ x = Lab(d[k].arg)
    BY DEF MarksOf
  <2>2. \A x : x \in MarksOf(c) <=> \E k \in DOMAIN c : c[k].op = "label" /\ x = Lab(c[k].arg)
    BY DEF MarksOf
  <2>3. \A x : x \in MarksOf(d) <=> x \in MarksOf(c) \/ (i.op = "label" /\ x = Lab(i.arg))
    BY <1>2, <1>3, <1>4, <2>1, <2>2
  <2> QED
    BY <2>3
<1>6. TargetsOf(d) = TargetsOf(c) \cup (IF IsJump(i.op) THEN {i.arg} ELSE {})
  <2>1. \A x : x \in TargetsOf(d) <=> \E k \in DOMAIN d : IsJump(d[k].op) /\ x = d[k].arg
    BY DEF TargetsOf
  <2>2. \A x : x \in TargetsOf(c) <=> \E k \in DOMAIN c : IsJump(c[k].op) /\ x = c[k].arg
    BY DEF TargetsOf
  <2>3. \A x : x \in TargetsOf(d) <=> x \in TargetsOf(c) \/ (IsJump(i.op) /\ x = i.arg)
    BY <1>2, <1>3, <1>4, <2>1, <2>2
  <2> QED
    BY <2>3
<1>7. ASSUME Once(c), i.op = "label" => Lab(i.arg) \notin MarksOf(c) PROVE Once(d)
  <2>1. ASSUME NEW k \in DOMAIN c, c[k].op = "label", i.op = "label", c[k].arg = i.arg PROVE FALSE
    BY <1>7, <2>1 DEF MarksOf
  <2> SUFFICES ASSUME NEW j \in DOMAIN d, NEW k \in DOMAIN d, d[j].op = "label", d[k].op = "label",
                      d[j].arg = d[k].arg
               PROVE  j = k
    BY DEF Once
  <2>2. CASE j \in DOMAIN c /\ k \in DOMAIN c
    BY <1>4, <1>7, <2>2 DEF Once
  <2>3. CASE j \in DOMAIN c /\ k = n + 1
    BY <1>2, <1>4, <2>1, <2>3
  <2>4. CASE k \in DOMAIN c /\ j = n + 1
    BY <1>2, <1>4, <2>1, <2>4
  <2> QED
    BY <1>3, <2>2, <2>3, <2>4
<1> QED
  BY <1>2, <1>5, <1>6, <1>7 DEF d
-----------------------------------------------------------------------------
(* Steps of the generator.                                                 *)

\* What a step finds.
Found(M, T) ==
  /\ \E S : code \in Seq(S)
  /\ Once(code) /\ status = "gen"
  /\ Good(todo, M, T, MarksOf(code), TargetsOf(code), case_label, labelseq)
  /\ LoopLabels(brkseq, contseq) \subseteq T

LEMMA Finds == ASSUME Resolved, status = "gen" PROVE \E M, T : Found(M, T)
BY DEF Resolved, Found

LEMMA FailResolved == ASSUME Resolved, Fail PROVE Resolved'
BY DEF Resolved, Fail

\* A node becomes items that define what it does, and the names A.
LEMMA NodeResolved ==
  ASSUME NEW M, NEW T, Found(M, T), todo # <<>>, IsNode(Head(todo)),
         NEW items, Become(items), NEW A,
         labelseq' \in {labelseq, labelseq + 1}, A # {} => labelseq' = labelseq + 1,
         Laid(items, Owned(N) \cup Fresh(A, labelseq), DOMAIN case_label, T \cup Goals(A, labelseq)),
         LoopLabels(brkseq', contseq') \subseteq T \cup Goals(A, labelseq)
  PROVE  Resolved'
<1>1. PICK s : s = todo
  OBVIOUS
<1>2. PICK n : n = labelseq
  OBVIOUS
<1>3. PICK m : m = labelseq'
  OBVIOUS
<1>4. PICK f : f = case_label
  OBVIOUS
<1>5. PICK c : c = code
  OBVIOUS
<1> DEFINE M2 == M \cup Fresh(A, n)
           T2 == T \cup Goals(A, n)
<1>6. Good(s, M, T, MarksOf(c), TargetsOf(c), f, n)
  BY <1>1, <1>2, <1>4, <1>5 DEF Found
<1>7. n \in Nat \ {0}
  BY <1>6 DEF Good
<1>8. m \in Nat /\ m >= n /\ (A # {} => m > n)
  BY <1>2, <1>3, <1>7
<1>9. s # <<>> /\ Head(s).do # "cases"
  BY <1>1 DEF IsNode
<1>10. Laid(items, Marked(Head(s)) \cup Fresh(A, n), DOMAIN f, T \cup Goals(A, n))
  BY <1>1, <1>2, <1>4 DEF N, Marked
<1>11. Good(items \o Tail(s), M2, T2, MarksOf(c), TargetsOf(c), f, m)
  BY <1>6, <1>8, <1>9, <1>10, GoodReplaced
<1>12. /\ todo' = items \o Tail(s) /\ labelseq' = m /\ case_label' = f /\ code' = c /\ status' = "gen"
       /\ LoopLabels(brkseq', contseq') \subseteq T2
  BY <1>1, <1>2, <1>3, <1>4, <1>5 DEF Become, Found
<1>13. (\E S : c \in Seq(S)) /\ Once(c)
  BY <1>5 DEF Found
<1> HIDE DEF M2, T2
<1>14. Good(todo', M2, T2, MarksOf(code'), TargetsOf(code'), case_label', labelseq')
  BY <1>11, <1>12
<1> QED
  BY <1>12, <1>13, <1>14 DEF Resolved

\* The first item is done.
LEMMA EmitResolved == ASSUME Resolved, Emit PROVE Resolved'
<1>1. CASE Fail
  BY <1>1, FailResolved
<1>2. CASE ~Fail
  <2> DEFINE abs == [k \in DOMAIN Head(todo).regs |-> <<Head(todo).regs[k][1], top + Head(todo).regs[k][2]>>]
             ins == [op |-> Head(todo).op, regs |-> abs, arg |-> Head(todo).arg]
  <2>1. /\ status = "gen" /\ todo # <<>> /\ Head(todo).do = "ins"
        /\ code' = (IF Head(todo).op = "none" THEN code ELSE Append(code, ins))
        /\ todo' = Tail(todo)
        /\ UNCHANGED <<labelseq, brkseq, contseq, case_label, status>>
    BY <1>2 DEF Emit, At
  <2>2. PICK M, T : Found(M, T)
    BY <2>1, Finds
  <2>3. PICK s : s = todo
    OBVIOUS
  <2>4. PICK c : c = code
    OBVIOUS
  <2>5. PICK i : i = ins
    OBVIOUS
  <2>6. PICK n : n = labelseq
    OBVIOUS
  <2>7. PICK f : f = case_label
    OBVIOUS
  <2> DEFINE x == Head(s)
             M2 == M \ Marked(x)
  <2>8. i.op = x.op /\ i.arg = x.arg
    BY <2>3, <2>5
  <2> HIDE DEF ins
  <2>9. /\ Good(s, M, T, MarksOf(c), TargetsOf(c), f, n) /\ s # <<>> /\ x.do = "ins"
        /\ Once(c) /\ \E S : c \in Seq(S)
    BY <2>1, <2>2, <2>3, <2>4, <2>6, <2>7 DEF Found
  <2>10. /\ Marked(x) \subseteq M
         /\ Good(Tail(s), M2, T, MarksOf(c) \cup Marked(x), TargetsOf(c) \cup Wanted(x), f, n)
    BY <2>9, GoodPassed
  <2>11. /\ Marked(x) = (IF x.op = "label" THEN {Lab(x.arg)} ELSE {})
         /\ Wanted(x) = (IF IsJump(x.op) THEN {x.arg} ELSE {})
    BY <2>9 DEF Marked, Wanted, IsNode
  <2>12. M \cap MarksOf(c) = {}
    BY <2>9 DEF Good
  <2>13. /\ MarksOf(code') = MarksOf(c) \cup Marked(x) /\ TargetsOf(code') = TargetsOf(c) \cup Wanted(x)
         /\ Once(code') /\ \E U : code' \in Seq(U)
    <3>1. CASE x.op = "none"
      <4>1. code' = c
        BY <2>1, <2>3, <2>4, <3>1
      <4>2. Marked(x) = {} /\ Wanted(x) = {}
        BY <2>11, <3>1 DEF IsJump
      <4> QED
        BY <2>9, <4>1, <4>2
    <3>2. CASE x.op # "none"
      <4>1. code' = Append(c, i)
        BY <2>1, <2>3, <2>4, <2>5, <3>2
      <4>2. x.op = "label" => Lab(x.arg) \notin MarksOf(c)
        BY <2>10, <2>11, <2>12
      <4> HIDE DEF x
      <4>3. PICK S : c \in Seq(S)
        BY <2>9
      <4>4. /\ \E U : Append(c, i) \in Seq(U)
            /\ MarksOf(Append(c, i)) = MarksOf(c) \cup (IF i.op = "label" THEN {Lab(i.arg)} ELSE {})
            /\ TargetsOf(Append(c, i)) = TargetsOf(c) \cup (IF IsJump(i.op) THEN {i.arg} ELSE {})
            /\ Once(Append(c, i))
        BY <2>8, <2>9, <4>2, <4>3, CodeAppend
      <4> QED
        BY <2>8, <2>11, <4>1, <4>4
    <3> QED
      BY <3>1, <3>2
  <2>14. Good(todo', M2, T, MarksOf(code'), TargetsOf(code'), case_label', labelseq')
    BY <2>1, <2>3, <2>6, <2>7, <2>10, <2>13
  <2>15. LoopLabels(brkseq', contseq') \subseteq T /\ status' = "gen"
    BY <2>1, <2>2 DEF Found
  <2> HIDE DEF M2
  <2> QED
    BY <2>13, <2>14, <2>15 DEF Resolved
<1> QED
  BY <1>1, <1>2

LEMMA MarkResolved == ASSUME Resolved, RestoreLabels \/ CheckTop PROVE Resolved'
<1>1. /\ status = "gen" /\ todo # <<>> /\ Head(todo).do \in {"restore", "assert"}
  BY DEF RestoreLabels, CheckTop, At
<1>2. PICK M, T : Found(M, T)
  BY <1>1, Finds
<1>3. PICK s : s = todo
  OBVIOUS
<1> DEFINE x == Head(s)
<1>4. /\ Good(s, M, T, MarksOf(code), TargetsOf(code), case_label, labelseq) /\ s # <<>>
      /\ x.do \in {"restore", "assert"}
  BY <1>1, <1>2, <1>3 DEF Found
<1>5. Marked(x) = {} /\ (IF x.do = "ins" THEN Wanted(x) ELSE {}) = {}
  BY <1>4 DEF Marked, IsNode
<1>6. /\ Wanted(x) \subseteq T
      /\ Good(Tail(s), M, T, MarksOf(code), TargetsOf(code), case_label, labelseq)
  <2>1. x.do \in {"ins", "restore", "assert"}
    BY <1>4
  <2> HIDE DEF x
  <2>2. /\ Wanted(x) \subseteq T
        /\ Good(Tail(s), M \ Marked(x), T, MarksOf(code) \cup Marked(x),
                TargetsOf(code) \cup (IF x.do = "ins" THEN Wanted(x) ELSE {}), case_label, labelseq)
    <3>1. x = Head(s)
      BY DEF x
    <3> QED
      BY <1>4, <2>1, <3>1, GoodPassed
  <2>3. /\ M \ Marked(x) = M /\ MarksOf(code) \cup Marked(x) = MarksOf(code)
        /\ TargetsOf(code) \cup (IF x.do = "ins" THEN Wanted(x) ELSE {}) = TargetsOf(code)
    BY <1>5
  <2> QED
    BY <2>2, <2>3
<1>7. CASE RestoreLabels
  <2>1. /\ brkseq' = x.brk /\ contseq' = x.cont /\ x.do = "restore"
        /\ todo' = Tail(s) /\ UNCHANGED <<labelseq, case_label, code, status>>
    BY <1>3, <1>7 DEF RestoreLabels, At
  <2>2. LoopLabels(x.brk, x.cont) \subseteq T
    BY <1>6, <2>1 DEF Wanted, IsNode
  <2> QED
    BY <1>2, <1>6, <2>1, <2>2 DEF Resolved, Found
<1>8. CASE CheckTop
  <2>1. CASE top = 0
    <3>1. todo' = <<>> \o Tail(s) /\ UNCHANGED <<labelseq, brkseq, contseq, case_label, code, status>>
      BY <1>3, <1>8, <2>1 DEF CheckTop, Plain, Become
    <3>2. \E S : s \in Seq(S)
      BY <1>4 DEF Good, Laid
    <3>3. todo' = Tail(s)
      BY <1>4, <3>1, <3>2
    <3> QED
      BY <1>2, <1>6, <3>1, <3>3 DEF Resolved, Found
  <2>2. CASE top # 0
    BY <1>8, <2>2 DEF CheckTop, Resolved
  <2> QED
    BY <2>1, <2>2
<1> QED
  BY <1>7, <1>8

LEMMA FinishResolved == ASSUME Resolved, Finish PROVE Resolved'
<1> DEFINE ins == [op |-> "label", regs |-> <<>>, arg |-> <<"return", 0>>]
<1>1. status = "gen" /\ todo = <<>> /\ code' = Append(code, ins) /\ status' = "done"
  BY DEF Finish
<1>2. PICK M, T : Found(M, T)
  BY <1>1, Finds
<1>3. PICK c : c = code
  OBVIOUS
<1>4. PICK f : f = case_label
  OBVIOUS
<1>5. PICK n : n = labelseq
  OBVIOUS
<1>6. PICK i : i = ins
  OBVIOUS
<1>7. i.op = "label" /\ i.arg = <<"return", 0>> /\ ~IsJump(i.op)
  BY <1>6 DEF IsJump
<1> HIDE DEF ins
<1>8. /\ Laid(<<>>, M, DOMAIN f, T) /\ Numbered(M \cup MarksOf(c), f, n)
      /\ (\A l \in T : Has(M \cup MarksOf(c), f, l)) /\ TargetsOf(c) \subseteq T
      /\ Once(c) /\ \E S : c \in Seq(S)
  BY <1>1, <1>2, <1>3, <1>4, <1>5 DEF Found, Good
<1>9. M = {}
  <2> DEFINE s == <<>>
  <2>1. 1 .. Len(s) = {}
    OBVIOUS
  <2>2. Laid(s, M, DOMAIN f, T)
    BY <1>8
  <2> HIDE DEF s
  <2> QED
    BY <2>1, <2>2 DEF Laid
<1>10. M \cup MarksOf(c) = MarksOf(c)
  BY <1>9
<1>11. Lab(i.arg) \notin MarksOf(c)
  BY <1>7, <1>8, <1>10 DEF Numbered
<1>12. PICK S : c \in Seq(S)
  BY <1>8
<1>13. /\ \E U : Append(c, i) \in Seq(U)
       /\ MarksOf(Append(c, i)) = MarksOf(c) \cup {Lab(i.arg)}
       /\ TargetsOf(Append(c, i)) = TargetsOf(c)
       /\ Once(Append(c, i))
  <2>1. /\ \E U : Append(c, i) \in Seq(U)
        /\ MarksOf(Append(c, i)) = MarksOf(c) \cup (IF i.op = "label" THEN {Lab(i.arg)} ELSE {})
        /\ TargetsOf(Append(c, i)) = TargetsOf(c) \cup (IF IsJump(i.op) THEN {i.arg} ELSE {})
        /\ Once(Append(c, i))
    BY <1>8, <1>11, <1>12, CodeAppend
  <2> QED
    BY <1>7, <2>1
<1>14. ASSUME NEW l \in TargetsOf(c) PROVE Lab(l) \in MarksOf(c) \cup {Lab(i.arg)}
  <2>1. Has(MarksOf(c), f, l)
    BY <1>8, <1>10
  <2>2. \A d : Cas(d) \notin MarksOf(c)
    BY Distinct DEF MarksOf
  <2> QED
    BY <1>7, <2>1, <2>2 DEF Has
<1>15. code' = Append(c, i)
  BY <1>1, <1>3, <1>6
<1> QED
  BY <1>1, <1>13, <1>14, <1>15 DEF Resolved
-----------------------------------------------------------------------------
(* gen_addr.                                                               *)

LEMMA FitMore ==
  ASSUME NEW n, NEW D, NEW T, Fit(n, D, T), NEW U, T \subseteq U
  PROVE  Fit(n, D, U)
BY DEF Fit

LEMMA AtFit ==
  ASSUME NEW M, NEW T, Found(M, T), NEW do \in {"expr", "addr", "stmt"}, At(do)
  PROVE  /\ todo # <<>> /\ IsNode(Head(todo)) /\ status = "gen"
         /\ Fit(N, DOMAIN case_label, T)
<1>1. PICK s : s = todo
  OBVIOUS
<1>2. s # <<>> /\ Head(s).do = do /\ status = "gen"
  BY <1>1 DEF At
<1>3. IsNode(Head(s)) /\ Head(s).do # "cases"
  BY <1>2 DEF IsNode
<1>4. Laid(s, M, DOMAIN case_label, T)
  BY <1>1 DEF Found, Good
<1>5. Ready(Head(s), FALSE, DOMAIN case_label, T)
  BY <1>2, <1>4, LaidFirst
<1>6. Fit(Head(s).n, DOMAIN case_label, T)
  BY <1>3, <1>5, ReadyFit
<1> QED
  BY <1>1, <1>2, <1>3, <1>6 DEF N

\* A node that takes no label.
LEMMA PlainResolved ==
  ASSUME NEW M, NEW T, Found(M, T), NEW do \in {"expr", "addr", "stmt"}, At(do),
         NEW items, Plain(items), Laid(items, Owned(N), DOMAIN case_label, T)
  PROVE  Resolved'
<1>1. todo # <<>> /\ IsNode(Head(todo))
  BY AtFit
<1>2. Become(items) /\ labelseq' = labelseq /\ brkseq' = brkseq /\ contseq' = contseq
  BY DEF Plain
<1> DEFINE A == {}
<1>3. Fresh(A, labelseq) = {} /\ Goals(A, labelseq) = {}
  BY DEF Fresh, Goals
<1>4. Owned(N) \cup Fresh(A, labelseq) = Owned(N) /\ T \cup Goals(A, labelseq) = T
  BY <1>3
<1>5. Laid(items, Owned(N) \cup Fresh(A, labelseq), DOMAIN case_label, T \cup Goals(A, labelseq))
  BY <1>4
<1>6. LoopLabels(brkseq', contseq') \subseteq T \cup Goals(A, labelseq)
  BY <1>2, <1>4 DEF Found
<1>7. A = {} /\ labelseq' \in {labelseq, labelseq + 1}
  BY <1>2
<1> HIDE DEF A
<1> QED
  BY <1>1, <1>2, <1>5, <1>6, <1>7, NodeResolved, SMTT(60)

LEMMA AddrResolved == ASSUME Resolved, GenAddr PROVE Resolved'
<1>1. At("addr")
  BY DEF GenAddr, AddrVar, AddrDeref, AddrComma, AddrOther, AtNode
<1>2. PICK M, T : Found(M, T)
  BY <1>1, Finds DEF At
<1>3. PICK D : D = DOMAIN case_label
  OBVIOUS
<1>4. PICK n : n = N
  OBVIOUS
<1>5. Fit(n, D, T) /\ n \in Nodes
  <2>1. Fit(N, DOMAIN case_label, T)
    BY <1>1, <1>2, AtFit
  <2> QED
    BY <1>3, <1>4, <2>1 DEF Fit
<1>6. ASSUME NEW items, Plain(items), Laid(items, Owned(n), D, T) PROVE Resolved'
  BY <1>1, <1>2, <1>3, <1>4, <1>6, PlainResolved
<1>7. CASE AddrVar
  <2>1. n.kind = "ND_VAR" /\ Plain(<<Ins("addr", <<R(0)>>, <<n.var>>, 1)>>)
    BY <1>4, <1>7 DEF AddrVar, AtNode
  <2>2. Owned(n) = {}
    BY <1>5, <2>1, NoneFit, PartsOfOthers
  <2>3. Laid(<<Ins("addr", <<R(0)>>, <<n.var>>, 1)>>, {}, D, T)
    BY InsLaid DEF IsJump
  <2> QED
    BY <1>6, <2>1, <2>2, <2>3
<1>8. CASE AddrDeref
  <2>1. n.kind = "ND_DEREF" /\ Plain(<<Expr(n.lhs)>>)
    BY <1>4, <1>8 DEF AddrDeref, AtNode
  <2>2. Fit(n.lhs, D, T) /\ Owned(n) = Owned(n.lhs)
    <3>1. n.kind \in OnePart /\ OwnMark(n) = {}
      BY <2>1 DEF OnePart, OwnMark
    <3> QED
      BY <1>5, <3>1, OneFit
  <2>3. Laid(<<Expr(n.lhs)>>, Owned(n), D, T)
    BY <2>2, NodeLaid
  <2> QED
    BY <1>6, <2>1, <2>3
<1>9. CASE AddrComma
  <2> DEFINE x == Expr(n.lhs)
             y == Top(-1)
             z == Addr(n.rhs)
  <2>1. n.kind = "ND_COMMA" /\ Plain(<<x, y, z>>)
    BY <1>4, <1>9 DEF AddrComma, AtNode
  <2>2. /\ Fit(n.lhs, D, T) /\ Fit(n.rhs, D, T)
        /\ Owned(n) = Owned(n.lhs) \cup Owned(n.rhs) /\ Owned(n.lhs) \cap Owned(n.rhs) = {}
    <3>1. n.kind \in TwoParts
      BY <2>1 DEF TwoParts
    <3> QED
      BY <1>5, <3>1, TwoFit
  <2>3. /\ Laid(<<x>>, Owned(n.lhs), D, T) /\ Laid(<<y>>, {}, D, T)
        /\ Laid(<<z>>, Owned(n.rhs), D, T)
    BY <2>2, NodeLaid, TopLaid
  <2> HIDE DEF x, y, z
  <2>4. Laid(<<x, y, z>>, Owned(n.lhs) \cup {} \cup Owned(n.rhs), D, T)
    BY <2>2, <2>3, LaidTriple
  <2>5. Owned(n.lhs) \cup {} \cup Owned(n.rhs) = Owned(n)
    BY <2>2
  <2>6. Laid(<<x, y, z>>, Owned(n), D, T)
    BY <2>4, <2>5
  <2> QED
    BY <1>6, <2>1, <2>6
<1>10. CASE AddrOther
  BY <1>10, FailResolved DEF AddrOther
<1> QED
  BY <1>7, <1>8, <1>9, <1>10 DEF GenAddr
-----------------------------------------------------------------------------
(* gen_expr.                                                               *)

LEMMA PairFirst ==
  ASSUME NEW x, NEW y, NEW M, NEW D, NEW T, Laid(<<x>>, M, D, T), Laid(<<y>>, {}, D, T)
  PROVE  Laid(<<x, y>>, M, D, T)
<1>1. M \cap {} = {} /\ M \cup {} = M
  OBVIOUS
<1>2. Laid(<<x, y>>, M \cup {}, D, T)
  BY <1>1, LaidPair
<1> QED
  BY <1>1, <1>2

LEMMA PairSecond ==
  ASSUME NEW x, NEW y, NEW M, NEW D, NEW T, Laid(<<x>>, {}, D, T), Laid(<<y>>, M, D, T)
  PROVE  Laid(<<x, y>>, M, D, T)
<1>1. {} \cap M = {} /\ {} \cup M = M
  OBVIOUS
<1>2. Laid(<<x, y>>, {} \cup M, D, T)
  BY <1>1, LaidPair
<1> QED
  BY <1>1, <1>2

LEMMA PairNone ==
  ASSUME NEW x, NEW y, NEW D, NEW T, Laid(<<x>>, {}, D, T), Laid(<<y>>, {}, D, T)
  PROVE  Laid(<<x, y>>, {}, D, T)
BY PairFirst

LEMMA Chain3 ==
  ASSUME NEW x, NEW y, NEW z
  PROVE  <<x, y, z>> = <<x>> \o (<<y>> \o <<z>>)
<1> DEFINE s == <<y, z>>
<1>1. s = <<y>> \o <<z>>
  BY Tuple2
<1>2. <<x, y, z>> = <<x>> \o s
  BY Tuple3
<1> QED
  BY <1>1, <1>2

LEMMA Chain4 ==
  ASSUME NEW x, NEW y, NEW z, NEW u
  PROVE  <<x, y, z, u>> = <<x>> \o (<<y>> \o (<<z>> \o <<u>>))
<1> DEFINE s == <<y, z, u>>
<1>1. s = <<y>> \o (<<z>> \o <<u>>)
  BY Chain3
<1>2. <<x, y, z, u>> = <<x>> \o s
  BY Tuple4
<1> QED
  BY <1>1, <1>2

LEMMA Chain5 ==
  ASSUME NEW x, NEW y, NEW z, NEW u, NEW v
  PROVE  <<x, y, z, u, v>> = <<x>> \o (<<y>> \o (<<z>> \o (<<u>> \o <<v>>)))
<1> DEFINE s == <<y, z, u, v>>
<1>1. s = <<y>> \o (<<z>> \o (<<u>> \o <<v>>))
  BY Chain4
<1>2. <<x, y, z, u, v>> = <<x>> \o s
  BY Tuple5
<1> QED
  BY <1>1, <1>2

LEMMA Chain6 ==
  ASSUME NEW x, NEW y, NEW z, NEW u, NEW v, NEW w
  PROVE  <<x, y, z, u, v, w>> = <<x>> \o (<<y>> \o (<<z>> \o (<<u>> \o (<<v>> \o <<w>>))))
<1> DEFINE s == <<y, z, u, v, w>>
<1>1. s = <<y>> \o (<<z>> \o (<<u>> \o (<<v>> \o <<w>>)))
  BY Chain5, ZenonT(60)
<1>2. <<x, y, z, u, v, w>> = <<x>> \o s
  BY Tuple6
<1> QED
  BY <1>1, <1>2

LEMMA Chain7 ==
  ASSUME NEW x, NEW y, NEW z, NEW u, NEW v, NEW w, NEW r
  PROVE  <<x, y, z, u, v, w, r>> = <<x>> \o (<<y>> \o (<<z>> \o (<<u>> \o (<<v>> \o (<<w>> \o <<r>>)))))
<1> DEFINE s == <<y, z, u, v, w, r>>
<1>1. s = <<y>> \o (<<z>> \o (<<u>> \o (<<v>> \o (<<w>> \o <<r>>))))
  <2> DEFINE t == <<z, u, v, w, r>>
  <2>1. t = <<z>> \o (<<u>> \o (<<v>> \o (<<w>> \o <<r>>)))
    BY Chain5, ZenonT(60)
  <2>2. s = <<y>> \o t
    BY Tuple6
  <2> QED
    BY <2>1, <2>2
<1>2. <<x, y, z, u, v, w, r>> = <<x>> \o s
  BY Tuple7
<1> QED
  BY <1>1, <1>2

\* A condition and the test of its value.
LEMMA ConditionLaid ==
  ASSUME NEW n, NEW ty, NEW D, NEW T, Fit(n, D, T)
  PROVE  Laid(<<Expr(n)>> \o cmp_zero(ty), Owned(n), D, T)
BY NodeLaid, CmpZeroLaid, LaidBehind

\* Names that are fresh are none of N's.
LEMMA FreshOwned ==
  ASSUME NEW M, NEW T, Found(M, T), NEW do \in {"expr", "addr", "stmt"}, At(do), NEW A
  PROVE  Fresh(A, labelseq) \cap Owned(N) = {}
<1>1. PICK s : s = todo
  OBVIOUS
<1>2. s # <<>> /\ IsNode(Head(s)) /\ Head(s).n = N
  BY <1>1, AtFit DEF N
<1>3. Good(s, M, T, MarksOf(code), TargetsOf(code), case_label, labelseq)
  BY <1>1 DEF Found
<1>4. Fresh(A, labelseq) \cap (M \cup MarksOf(code)) = {}
  BY <1>3, FreshMarks
<1>5. M = Marked(Head(s)) \cup (M \ Marked(Head(s)))
  BY <1>2, <1>3, LaidFirst DEF Good
<1>6. Marked(Head(s)) = Owned(N)
  BY <1>2 DEF Marked
<1> QED
  BY <1>4, <1>5, <1>6

\* A node that takes a label number for the names A.
LEMMA LabelledResolved ==
  ASSUME NEW M, NEW T, Found(M, T), NEW do \in {"expr", "addr", "stmt"}, At(do),
         NEW items, Labelled(items), NEW A,
         Laid(items, Owned(N) \cup Fresh(A, labelseq), DOMAIN case_label, T \cup Goals(A, labelseq))
  PROVE  Resolved'
<1>1. todo # <<>> /\ IsNode(Head(todo))
  BY AtFit
<1>2. Become(items) /\ labelseq' = labelseq + 1 /\ brkseq' = brkseq /\ contseq' = contseq
  BY DEF Labelled
<1>3. LoopLabels(brkseq', contseq') \subseteq T \cup Goals(A, labelseq)
  BY <1>2 DEF Found
<1>4. labelseq' \in {labelseq, labelseq + 1}
  BY <1>2
<1> QED
  BY <1>1, <1>2, <1>3, <1>4, NodeResolved

\* The names with their numbers.
LEMMA FreshPair ==
  ASSUME NEW a, NEW b, a # b, NEW q
  PROVE  /\ Fresh({a, b}, q) = {Lab(<<a, q>>)} \cup {Lab(<<b, q>>)}
         /\ Lab(<<a, q>>) # Lab(<<b, q>>) /\ {Lab(<<a, q>>)} \cap {Lab(<<b, q>>)} = {}
         /\ <<a, q>> \in Goals({a, b}, q) /\ <<b, q>> \in Goals({a, b}, q)
<1>1. <<a, q>> # <<b, q>>
  OBVIOUS
<1>2. Lab(<<a, q>>) # Lab(<<b, q>>)
  BY <1>1, Distinct
<1> QED
  BY <1>2 DEF Fresh, Goals

LEMMA OneOwned ==
  ASSUME NEW n, NEW D, NEW T, Fit(n, D, T), n.kind \in OnePart, n.kind \notin {"ND_LABEL", "ND_CASE"}
  PROVE  Fit(n.lhs, D, T) /\ Owned(n) = Owned(n.lhs)
<1>1. OwnMark(n) = {}
  BY DEF OwnMark
<1> QED
  BY <1>1, OneFit

\* The operands of && and ||, and the jump past the second.
LEMMA LogicalLaid ==
  ASSUME NEW l, NEW r, NEW t, NEW u, NEW x, NEW rest, NEW K, NEW D, NEW T,
         Fit(l, D, T), Fit(r, D, T), Owned(l) \cap Owned(r) = {},
         Laid(<<x>>, {}, D, T), Laid(rest, K, D, T), (Owned(l) \cup Owned(r)) \cap K = {}
  PROVE  Laid(<<Expr(l)>> \o cmp_zero(t) \o <<x>> \o <<Expr(r)>> \o cmp_zero(u) \o <<x>> \o rest,
              (Owned(l) \cup Owned(r)) \cup K, D, T)
<1> DEFINE A == <<Expr(l)>> \o cmp_zero(t)
           j == <<x>>
           e == <<Expr(r)>>
           B == A \o j
           C == B \o e
           E == C \o cmp_zero(u)
           G == E \o j
           O == Owned(l) \cup Owned(r)
<1>1. Laid(A, Owned(l), D, T)
  BY ConditionLaid
<1>2. Laid(e, Owned(r), D, T)
  BY NodeLaid
<1>3. Laid(j, {}, D, T)
  OBVIOUS
<1> HIDE DEF A, j, e
<1>4. Laid(B, Owned(l), D, T)
  BY <1>1, <1>3, LaidBehind
<1> HIDE DEF B
<1>5. Laid(C, O, D, T)
  BY <1>2, <1>4, LaidWith
<1> HIDE DEF C, O
<1>6. Laid(E, O, D, T)
  BY <1>5, CmpZeroLaid, LaidBehind
<1> HIDE DEF E
<1>7. Laid(G, O, D, T)
  BY <1>3, <1>6, LaidBehind
<1> HIDE DEF G
<1>8. O \cap K = {}
  BY DEF O
<1>9. Laid(G \o rest, O \cup K, D, T)
  BY <1>7, <1>8, LaidWith
<1> QED
  BY <1>9 DEF A, B, C, E, G, O, j, e

\* The end of && and ||.
LEMMA OutcomeLaid ==
  ASSUME NEW v, NEW w, NEW a, a # "end", NEW q, NEW D, NEW T, <<"end", q>> \in T
  PROVE  Laid(<<Ins("li", <<R(0)>>, <<v>>, 0), Jump("end", q), Label(a, q),
                Ins("li", <<R(0)>>, <<w>>, 1), Label("end", q)>>, Fresh({a, "end"}, q), D, T)
<1> DEFINE x1 == <<Ins("li", <<R(0)>>, <<v>>, 0)>>
           x2 == <<Jump("end", q)>>
           x3 == <<Label(a, q)>>
           x4 == <<Ins("li", <<R(0)>>, <<w>>, 1)>>
           x5 == <<Label("end", q)>>
           A == {Lab(<<a, q>>)}
           B == {Lab(<<"end", q>>)}
<1>1. ~IsJump("li")
  BY DEF IsJump
<1>2. Laid(x1, {}, D, T) /\ Laid(x4, {}, D, T)
  BY <1>1, InsLaid
<1>3. Laid(x2, {}, D, T)
  BY GoLaid
<1>4. Laid(x3, A, D, T) /\ Laid(x5, B, D, T)
  BY LabelLaid
<1>5. A \cap B = {} /\ Fresh({a, "end"}, q) = A \cup B
  BY FreshPair
<1>6. <<Ins("li", <<R(0)>>, <<v>>, 0), Jump("end", q), Label(a, q),
        Ins("li", <<R(0)>>, <<w>>, 1), Label("end", q)>> = x1 \o (x2 \o (x3 \o (x4 \o x5)))
  BY Chain5
<1> HIDE DEF x1, x2, x3, x4, x5, A, B
<1>7. Laid(x4 \o x5, B, D, T)
  BY <1>2, <1>4, LaidBefore
<1>8. Laid(x3 \o (x4 \o x5), A \cup B, D, T)
  BY <1>4, <1>5, <1>7, LaidWith
<1>9. Laid(x2 \o (x3 \o (x4 \o x5)), A \cup B, D, T)
  BY <1>3, <1>8, LaidBefore
<1>10. Laid(x1 \o (x2 \o (x3 \o (x4 \o x5))), A \cup B, D, T)
  BY <1>2, <1>9, LaidBefore
<1> QED
  BY <1>5, <1>6, <1>10

LEMMA CondLaid ==
  ASSUME NEW n, n.kind = "ND_COND", NEW D, NEW T, Fit(n, D, T), NEW q,
         Fresh({"else", "end"}, q) \cap Owned(n) = {},
         <<"else", q>> \in T, <<"end", q>> \in T
  PROVE  Laid(<<Expr(n.cond)>> \o cmp_zero(n.cond.ty)
                \o <<Branch("bnez", R(0), "else", q), Expr(n.then), Top(-1), Jump("end", q),
                     Label("else", q), Expr(n.els), Label("end", q)>>,
              Owned(n) \cup Fresh({"else", "end"}, q), D, T)
<1> DEFINE test == <<Expr(n.cond)>> \o cmp_zero(n.cond.ty)
           x1 == <<Branch("bnez", R(0), "else", q)>>
           x2 == <<Expr(n.then)>>
           x3 == <<Top(-1)>>
           x4 == <<Jump("end", q)>>
           x5 == <<Label("else", q)>>
           x6 == <<Expr(n.els)>>
           x7 == <<Label("end", q)>>
           A == {Lab(<<"else", q>>)}
           B == {Lab(<<"end", q>>)}
           O1 == Owned(n.cond)
           O2 == Owned(n.then)
           O3 == Owned(n.els)
<1>1. /\ Fit(n.cond, D, T) /\ Fit(n.then, D, T) /\ Fit(n.els, D, T)
      /\ Owned(n) = O1 \cup O2 \cup O3 /\ O1 \cap O2 = {} /\ O1 \cap O3 = {} /\ O2 \cap O3 = {}
  BY ThreeFit
<1>2. Laid(test, O1, D, T) /\ Laid(x2, O2, D, T) /\ Laid(x6, O3, D, T)
  BY <1>1, ConditionLaid, NodeLaid
<1>3. Laid(x1, {}, D, T) /\ Laid(x4, {}, D, T)
  BY GoLaid
<1>4. Laid(x3, {}, D, T)
  BY TopLaid
<1>5. Laid(x5, A, D, T) /\ Laid(x7, B, D, T)
  BY LabelLaid
<1>6. A \cap B = {} /\ Fresh({"else", "end"}, q) = A \cup B
  BY FreshPair
<1>7. <<Branch("bnez", R(0), "else", q), Expr(n.then), Top(-1), Jump("end", q),
        Label("else", q), Expr(n.els), Label("end", q)>> = x1 \o (x2 \o (x3 \o (x4 \o (x5 \o (x6 \o x7)))))
  BY Chain7
<1> HIDE DEF test, x1, x2, x3, x4, x5, x6, x7, A, B, O1, O2, O3
<1> DEFINE s6 == x6 \o x7
           s5 == x5 \o s6
           s4 == x4 \o s5
           s3 == x3 \o s4
           s2 == x2 \o s3
           s1 == x1 \o s2
           M6 == O3 \cup B
           M5 == A \cup M6
           M2 == O2 \cup M5
<1>8. O3 \cap B = {} /\ A \cap M6 = {} /\ O2 \cap M5 = {} /\ O1 \cap M2 = {}
  BY <1>1, <1>6
<1>9. Laid(s6, M6, D, T)
  BY <1>2, <1>5, <1>8, LaidWith
<1> HIDE DEF s6, M6
<1>10. Laid(s5, M5, D, T)
  BY <1>5, <1>8, <1>9, LaidWith
<1> HIDE DEF s5, M5
<1>11. Laid(s4, M5, D, T)
  BY <1>3, <1>10, LaidBefore
<1> HIDE DEF s4
<1>12. Laid(s3, M5, D, T)
  BY <1>4, <1>11, LaidBefore
<1> HIDE DEF s3
<1>13. Laid(s2, M2, D, T)
  BY <1>2, <1>8, <1>12, LaidWith
<1> HIDE DEF s2, M2
<1>14. Laid(s1, M2, D, T)
  BY <1>3, <1>13, LaidBefore
<1> HIDE DEF s1
<1>15. Laid(test \o s1, O1 \cup M2, D, T)
  BY <1>2, <1>8, <1>14, LaidBoth
<1>16. O1 \cup M2 = Owned(n) \cup Fresh({"else", "end"}, q)
  BY <1>1, <1>6 DEF M2, M5, M6
<1>17. Laid(test \o s1, Owned(n) \cup Fresh({"else", "end"}, q), D, T)
  BY <1>15, <1>16
<1> QED
  BY <1>7, <1>17 DEF test, s1, s2, s3, s4, s5, s6

\* A call: the arguments define nothing.
LEMMA CallLaid ==
  ASSUME NEW n, n.kind = "ND_FUNCALL", NEW D, NEW T, Fit(n, D, T)
  PROVE  Laid(<<Ins("push ra", <<>>, <<>>, 0), Expr(n.lhs)>>
       \o [i \in DOMAIN n.args |->
             LET t == n.args[i].ty IN Ins("arg", <<>>, <<i, n.args[i].var, size[t], is_unsigned(t)>>, 0)]
       \o <<Ins("jalr", <<R(-1)>>, <<Len(n.args)>>, -1)>>
       \o (IF n.ty = "bool" THEN <<Ins("andi a0", <<>>, <<>>, 0)>> ELSE <<>>)
       \o <<Ins("pop ra", <<>>, <<>>, 0), Ins("mv result", <<Of(n.ty, 0)>>, <<>>, 1)>>,
       Owned(n), D, T)
<1> DEFINE arg(i) == LET t == n.args[i].ty
                     IN Ins("arg", <<>>, <<i, n.args[i].var, size[t], is_unsigned(t)>>, 0)
           push == Ins("push ra", <<>>, <<>>, 0)
           called == <<push, Expr(n.lhs)>>
           passed == [i \in DOMAIN n.args |-> arg(i)]
           jump == <<Ins("jalr", <<R(-1)>>, <<Len(n.args)>>, -1)>>
           mask == IF n.ty = "bool" THEN <<Ins("andi a0", <<>>, <<>>, 0)>> ELSE <<>>
           back == <<Ins("pop ra", <<>>, <<>>, 0), Ins("mv result", <<Of(n.ty, 0)>>, <<>>, 1)>>
           O == Owned(n)
<1>1. ~IsJump("push ra") /\ ~IsJump("arg") /\ ~IsJump("jalr") /\ ~IsJump("andi a0")
      /\ ~IsJump("pop ra") /\ ~IsJump("mv result")
  BY DEF IsJump
<1>2. Fit(n.lhs, D, T) /\ O = Owned(n.lhs)
  <2>1. n.kind \in OnePart
    BY DEF OnePart
  <2> QED
    BY <2>1, OneOwned
<1>3. n.args \in Seq(Nodes)
  BY NodeParts DEF Fit
<1>4. Laid(called, O, D, T)
  <2>1. Laid(<<push>>, {}, D, T) /\ Laid(<<Expr(n.lhs)>>, O, D, T)
    BY <1>1, <1>2, InsLaid, NodeLaid
  <2> HIDE DEF push, O
  <2> QED
    BY <2>1, PairSecond
<1>5. Laid(passed, {}, D, T)
  <2> HIDE DEF arg
  <2>1. passed \in Seq({arg(i) : i \in DOMAIN n.args}) /\ Len(passed) = Len(n.args)
    BY <1>3
  <2>2. \A i \in 1 .. Len(passed) : passed[i] = arg(i)
    BY <1>3, <2>1
  <2>3. \A i : Quiet(arg(i))
    BY <1>1 DEF arg, Ins, Quiet
  <2> HIDE DEF passed
  <2> QED
    BY <2>1, <2>2, <2>3, LaidQuiet
<1>6. Laid(jump, {}, D, T) /\ Laid(mask, {}, D, T)
  BY <1>1, InsLaid, LaidNothing
<1>7. Laid(back, {}, D, T)
  BY <1>1, InsLaid, PairNone
<1> HIDE DEF called, passed, jump, mask, back, O
<1>8. Laid(called \o passed, O, D, T)
  BY <1>4, <1>5, LaidBehind
<1>9. Laid(called \o passed \o jump, O, D, T)
  BY <1>6, <1>8, LaidBehind
<1>10. Laid(called \o passed \o jump \o mask, O, D, T)
  BY <1>6, <1>9, LaidBehind
<1>11. Laid(called \o passed \o jump \o mask \o back, O, D, T)
  BY <1>7, <1>10, LaidBehind
<1> QED
  BY <1>11 DEF called, passed, jump, mask, back, O

\* The expressions that take no label.
LEMMA ExprPlainResolved ==
  ASSUME Resolved,
         \/ ExprNum \/ ExprVar \/ ExprAssign \/ ExprAddr \/ ExprDeref \/ ExprStmtExpr \/ ExprNull
         \/ ExprComma \/ ExprCast \/ ExprNot \/ ExprBitNot \/ ExprFuncall \/ ExprBinary
  PROVE  Resolved'
<1>1. At("expr")
  BY DEF ExprNum, ExprVar, ExprAssign, ExprAddr, ExprDeref, ExprStmtExpr, ExprNull, ExprComma,
         ExprCast, ExprNot, ExprBitNot, ExprFuncall, ExprBinary, AtNode
<1>2. PICK M, T : Found(M, T)
  BY <1>1, Finds DEF At
<1>3. PICK D : D = DOMAIN case_label
  OBVIOUS
<1>4. PICK n : n = N
  OBVIOUS
<1>5. Fit(n, D, T) /\ n \in Nodes
  <2>1. Fit(N, DOMAIN case_label, T)
    BY <1>1, <1>2, AtFit
  <2> QED
    BY <1>3, <1>4, <2>1 DEF Fit
<1>6. ASSUME NEW items, Plain(items), Laid(items, Owned(n), D, T) PROVE Resolved'
  BY <1>1, <1>2, <1>3, <1>4, <1>6, PlainResolved
<1>7. ASSUME n.kind \in {"ND_NUM", "ND_VAR", "ND_NULL_EXPR"} PROVE Owned(n) = {}
  BY <1>5, <1>7, NoneFit, PartsOfOthers
<1>8. ASSUME n.kind \in OnePart, n.kind \notin {"ND_LABEL", "ND_CASE"}
      PROVE  /\ Laid(<<Expr(n.lhs)>>, Owned(n), D, T) /\ Laid(<<Addr(n.lhs)>>, Owned(n), D, T)
  <2>1. Fit(n.lhs, D, T) /\ Owned(n) = Owned(n.lhs)
    BY <1>5, <1>8, OneOwned
  <2> QED
    BY <2>1, NodeLaid
<1>9. ASSUME n.kind \in TwoParts
      PROVE  /\ Fit(n.lhs, D, T) /\ Fit(n.rhs, D, T)
             /\ Owned(n) = Owned(n.lhs) \cup Owned(n.rhs) /\ Owned(n.lhs) \cap Owned(n.rhs) = {}
  BY <1>5, <1>9, TwoFit
<1>10. CASE ExprNum
  <2> DEFINE items == <<Ins("li", <<Of(n.ty, 0)>>, <<n.val>>, 1)>>
  <2>1. n.kind = "ND_NUM" /\ Plain(items)
    BY <1>4, <1>10 DEF ExprNum, AtNode
  <2>2. Laid(items, {}, D, T)
    BY InsLaid DEF IsJump
  <2> HIDE DEF items
  <2> QED
    BY <1>6, <1>7, <2>1, <2>2
<1>11. CASE ExprVar
  <2> DEFINE a == <<Addr(n)>>
  <2>1. n.kind = "ND_VAR" /\ Plain(a \o load(n.ty))
    BY <1>4, <1>11 DEF ExprVar, AtNode
  <2>2. Laid(a, Owned(n), D, T)
    BY <1>5, NodeLaid
  <2> HIDE DEF a
  <2>3. Laid(a \o load(n.ty), Owned(n), D, T)
    BY <2>2, LoadLaid, LaidBehind
  <2> QED
    BY <1>6, <2>1, <2>3
<1>12. CASE ExprAssign
  <2> DEFINE x == Expr(n.rhs)
             y == Addr(n.lhs)
             a == <<x, y>>
  <2>1. n.kind = "ND_ASSIGN" /\ Plain(a \o store(n.ty))
    BY <1>4, <1>12 DEF ExprAssign, AtNode
  <2>2. n.kind \in TwoParts
    BY <2>1 DEF TwoParts
  <2>3. Laid(<<x>>, Owned(n.rhs), D, T) /\ Laid(<<y>>, Owned(n.lhs), D, T)
    BY <1>9, <2>2, NodeLaid
  <2>4. Owned(n.rhs) \cap Owned(n.lhs) = {} /\ Owned(n.rhs) \cup Owned(n.lhs) = Owned(n)
    BY <1>9, <2>2
  <2> HIDE DEF x, y
  <2>5. Laid(a, Owned(n.rhs) \cup Owned(n.lhs), D, T)
    BY <2>3, <2>4, LaidPair
  <2> HIDE DEF a
  <2>6. Laid(a \o store(n.ty), Owned(n), D, T)
    BY <2>4, <2>5, StoreLaid, LaidBehind
  <2> QED
    BY <1>6, <2>1, <2>6
<1>13. CASE ExprAddr
  <2>1. n.kind = "ND_ADDR" /\ Plain(<<Addr(n.lhs)>>)
    BY <1>4, <1>13 DEF ExprAddr, AtNode
  <2>2. n.kind \in OnePart
    BY <2>1 DEF OnePart
  <2> QED
    BY <1>6, <1>8, <2>1, <2>2
<1>14. CASE ExprDeref
  <2> DEFINE a == <<Expr(n.lhs)>>
  <2>1. n.kind = "ND_DEREF" /\ Plain(a \o load(n.ty))
    BY <1>4, <1>14 DEF ExprDeref, AtNode
  <2>2. Laid(a, Owned(n), D, T)
    BY <1>8, <2>1 DEF OnePart
  <2> HIDE DEF a
  <2>3. Laid(a \o load(n.ty), Owned(n), D, T)
    BY <2>2, LoadLaid, LaidBehind
  <2> QED
    BY <1>6, <2>1, <2>3
<1>15. CASE ExprStmtExpr
  <2> DEFINE a == [i \in DOMAIN n.body |-> Stmt(n.body[i])]
             b == <<Top(1)>>
  <2>1. n.kind = "ND_STMT_EXPR" /\ Plain(a \o b)
    BY <1>4, <1>15 DEF ExprStmtExpr, AtNode
  <2>2. Laid(a, Owned(n), D, T)
    BY <1>5, <2>1, BodyFit
  <2>3. Laid(b, {}, D, T)
    BY TopLaid
  <2> HIDE DEF a, b
  <2>4. Laid(a \o b, Owned(n), D, T)
    BY <2>2, <2>3, LaidBehind
  <2> QED
    BY <1>6, <2>1, <2>4
<1>16. CASE ExprNull
  <2> DEFINE items == <<Top(1)>>
  <2>1. n.kind = "ND_NULL_EXPR" /\ Plain(items)
    BY <1>4, <1>16 DEF ExprNull, AtNode
  <2>2. Laid(items, {}, D, T)
    BY TopLaid
  <2> HIDE DEF items
  <2> QED
    BY <1>6, <1>7, <2>1, <2>2
<1>17. CASE ExprComma
  <2> DEFINE x == Expr(n.lhs)
             y == Top(-1)
             z == Expr(n.rhs)
  <2>1. n.kind = "ND_COMMA" /\ Plain(<<x, y, z>>)
    BY <1>4, <1>17 DEF ExprComma, AtNode
  <2>2. n.kind \in TwoParts
    BY <2>1 DEF TwoParts
  <2>3. /\ Laid(<<x>>, Owned(n.lhs), D, T) /\ Laid(<<y>>, {}, D, T)
        /\ Laid(<<z>>, Owned(n.rhs), D, T)
    BY <1>9, <2>2, NodeLaid, TopLaid
  <2>4. Owned(n.lhs) \cap Owned(n.rhs) = {} /\ Owned(n.lhs) \cup {} \cup Owned(n.rhs) = Owned(n)
    BY <1>9, <2>2
  <2> HIDE DEF x, y, z
  <2>5. Laid(<<x, y, z>>, Owned(n.lhs) \cup {} \cup Owned(n.rhs), D, T)
    BY <2>3, <2>4, LaidTriple
  <2>6. Laid(<<x, y, z>>, Owned(n), D, T)
    BY <2>4, <2>5
  <2> QED
    BY <1>6, <2>1, <2>6
<1>18. CASE ExprCast
  <2> DEFINE a == <<Expr(n.lhs)>>
  <2>1. n.kind = "ND_CAST" /\ Plain(a \o cast(n.lhs.ty, n.ty))
    BY <1>4, <1>18 DEF ExprCast, AtNode
  <2>2. Laid(a, Owned(n), D, T)
    BY <1>8, <2>1 DEF OnePart
  <2> HIDE DEF a
  <2>3. Laid(a \o cast(n.lhs.ty, n.ty), Owned(n), D, T)
    BY <2>2, CastLaid, LaidBehind
  <2> QED
    BY <1>6, <2>1, <2>3
<1>19. CASE ExprNot
  <2> DEFINE a == <<Expr(n.lhs)>>
             b == <<Ins("snez", <<R(0), R(0)>>, <<>>, 1)>>
  <2>1. n.kind = "ND_NOT" /\ Plain(a \o cmp_zero(n.lhs.ty) \o b)
    BY <1>4, <1>19 DEF ExprNot, AtNode
  <2>2. Laid(a, Owned(n), D, T)
    BY <1>8, <2>1 DEF OnePart
  <2>3. Laid(b, {}, D, T)
    BY InsLaid DEF IsJump
  <2> HIDE DEF a, b
  <2>4. Laid(a \o cmp_zero(n.lhs.ty), Owned(n), D, T)
    BY <2>2, CmpZeroLaid, LaidBehind
  <2>5. Laid(a \o cmp_zero(n.lhs.ty) \o b, Owned(n), D, T)
    BY <2>3, <2>4, LaidBehind
  <2> QED
    BY <1>6, <2>1, <2>5
<1>20. CASE ExprBitNot
  <2> DEFINE x == Expr(n.lhs)
             y == Ins("not", <<R(-1), R(-1)>>, <<>>, 0)
  <2>1. n.kind = "ND_BITNOT" /\ Plain(<<x, y>>)
    BY <1>4, <1>20 DEF ExprBitNot, AtNode
  <2>2. Laid(<<x>>, Owned(n), D, T)
    BY <1>8, <2>1 DEF OnePart
  <2>3. Laid(<<y>>, {}, D, T)
    BY InsLaid DEF IsJump
  <2> HIDE DEF x, y
  <2>4. Laid(<<x, y>>, Owned(n), D, T)
    BY <2>2, <2>3, PairFirst
  <2> QED
    BY <1>6, <2>1, <2>4
<1>21. CASE ExprFuncall
  <2> DEFINE arg(i) == LET t == n.args[i].ty
                       IN  Ins("arg", <<>>, <<i, n.args[i].var, size[t], is_unsigned(t)>>, 0)
             items == <<Ins("push ra", <<>>, <<>>, 0), Expr(n.lhs)>>
               \o [i \in DOMAIN n.args |-> arg(i)]
               \o <<Ins("jalr", <<R(-1)>>, <<Len(n.args)>>, -1)>>
               \o (IF n.ty = "bool" THEN <<Ins("andi a0", <<>>, <<>>, 0)>> ELSE <<>>)
               \o <<Ins("pop ra", <<>>, <<>>, 0), Ins("mv result", <<Of(n.ty, 0)>>, <<>>, 1)>>
  <2>1. n.kind = "ND_FUNCALL" /\ Plain(items)
    BY <1>4, <1>21 DEF ExprFuncall, AtNode
  <2>2. Laid(items, Owned(n), D, T)
    BY <1>5, <2>1, CallLaid
  <2> HIDE DEF items
  <2> QED
    BY <1>6, <2>1, <2>2
<1>22. CASE ExprBinary
  <2> DEFINE x == Expr(n.lhs)
             y == Expr(n.rhs)
             z == Ins("none", <<R(-2), R(-1)>>, <<>>, 0)
             a == <<x, y, z>>
             b == <<Top(-1)>>
  <2>1. n.kind \in Binary /\ Plain(a \o binary(n) \o b)
    BY <1>4, <1>22 DEF ExprBinary
  <2>2. n.kind \in TwoParts
    BY <2>1 DEF TwoParts
  <2>3. /\ Laid(<<x>>, Owned(n.lhs), D, T) /\ Laid(<<y>>, Owned(n.rhs), D, T)
    BY <1>9, <2>2, NodeLaid
  <2>4. Laid(<<z>>, {}, D, T)
    BY InsLaid DEF IsJump
  <2>5. /\ Owned(n.lhs) \cap Owned(n.rhs) = {} /\ Owned(n.lhs) \cap {} = {} /\ Owned(n.rhs) \cap {} = {}
        /\ Owned(n.lhs) \cup Owned(n.rhs) \cup {} = Owned(n)
    BY <1>9, <2>2
  <2>6. Laid(b, {}, D, T)
    BY TopLaid
  <2> HIDE DEF x, y, z, b
  <2>7. Laid(a, Owned(n.lhs) \cup Owned(n.rhs) \cup {}, D, T)
    BY <2>3, <2>4, <2>5, LaidTriple
  <2> HIDE DEF a
  <2>8. Laid(a, Owned(n), D, T)
    BY <2>5, <2>7
  <2>9. Laid(a \o binary(n), Owned(n), D, T)
    BY <2>1, <2>8, BinaryLaid, LaidBehind
  <2>10. Laid(a \o binary(n) \o b, Owned(n), D, T)
    BY <2>6, <2>9, LaidBehind
  <2> QED
    BY <1>6, <2>1, <2>10
<1> QED
  BY <1>10, <1>11, <1>12, <1>13, <1>14, <1>15, <1>16, <1>17, <1>18, <1>19, <1>20, <1>21, <1>22

\* ?:, && and ||.
LEMMA ExprLabelledResolved ==
  ASSUME Resolved, ExprCond \/ ExprLogAnd \/ ExprLogOr
  PROVE  Resolved'
<1>1. At("expr")
  BY DEF ExprCond, ExprLogAnd, ExprLogOr, AtNode
<1>2. PICK M, T : Found(M, T)
  BY <1>1, Finds DEF At
<1>3. PICK D : D = DOMAIN case_label
  OBVIOUS
<1>4. PICK n : n = N
  OBVIOUS
<1>5. PICK q : q = labelseq
  OBVIOUS
<1>6. Fit(n, D, T)
  <2>1. Fit(N, DOMAIN case_label, T)
    BY <1>1, <1>2, AtFit
  <2> QED
    BY <1>3, <1>4, <2>1
<1>7. \A A : Fit(n, D, T \cup Goals(A, q))
  BY <1>6, FitMore
<1>8. ASSUME NEW A PROVE Fresh(A, q) \cap Owned(n) = {}
  BY <1>1, <1>2, <1>4, <1>5, FreshOwned
<1>9. ASSUME NEW items, Labelled(items), NEW A,
             Laid(items, Owned(n) \cup Fresh(A, q), D, T \cup Goals(A, q))
      PROVE  Resolved'
  BY <1>1, <1>2, <1>3, <1>4, <1>5, <1>9, LabelledResolved
<1>10. CASE ExprCond
  <2> DEFINE A == {"else", "end"}
             U == T \cup Goals(A, q)
             items == <<Expr(n.cond)>> \o cmp_zero(n.cond.ty)
                        \o <<Branch("bnez", R(0), "else", q), Expr(n.then), Top(-1), Jump("end", q),
                             Label("else", q), Expr(n.els), Label("end", q)>>
  <2>1. n.kind = "ND_COND" /\ Labelled(items)
    BY <1>4, <1>5, <1>10 DEF ExprCond, AtNode, seq
  <2>2. <<"else", q>> \in U /\ <<"end", q>> \in U
    BY FreshPair
  <2>3. Fit(n, D, U) /\ Fresh(A, q) \cap Owned(n) = {}
    BY <1>7, <1>8
  <2>4. Laid(items, Owned(n) \cup Fresh(A, q), D, U)
    BY <2>1, <2>2, <2>3, CondLaid
  <2> HIDE DEF A, items
  <2> QED
    BY <1>9, <2>1, <2>4
<1>11. ASSUME NEW name, NEW x, NEW v, NEW w, name # "end", n.kind \in TwoParts,
              \A U : <<name, q>> \in U => Laid(<<x>>, {}, D, U),
              Labelled(<<Expr(n.lhs)>> \o cmp_zero(n.lhs.ty) \o <<x>>
                \o <<Expr(n.rhs)>> \o cmp_zero(n.rhs.ty) \o <<x>>
                \o <<Ins("li", <<R(0)>>, <<v>>, 0), Jump("end", q), Label(name, q),
                     Ins("li", <<R(0)>>, <<w>>, 1), Label("end", q)>>)
       PROVE  Resolved'
  <2> DEFINE A == {name, "end"}
             U == T \cup Goals(A, q)
             rest == <<Ins("li", <<R(0)>>, <<v>>, 0), Jump("end", q), Label(name, q),
                       Ins("li", <<R(0)>>, <<w>>, 1), Label("end", q)>>
             items == <<Expr(n.lhs)>> \o cmp_zero(n.lhs.ty) \o <<x>>
                        \o <<Expr(n.rhs)>> \o cmp_zero(n.rhs.ty) \o <<x>> \o rest
  <2>1. Labelled(items)
    BY <1>11
  <2>2. <<name, q>> \in U /\ <<"end", q>> \in U
    BY <1>11, FreshPair
  <2>3. Fit(n, D, U) /\ Fresh(A, q) \cap Owned(n) = {}
    BY <1>7, <1>8
  <2>4. Laid(rest, Fresh(A, q), D, U)
    BY <1>11, <2>2, OutcomeLaid
  <2>5. Laid(<<x>>, {}, D, U)
    BY <1>11, <2>2
  <2> HIDE DEF A, U, rest
  <2>6. /\ Fit(n.lhs, D, U) /\ Fit(n.rhs, D, U)
        /\ Owned(n) = Owned(n.lhs) \cup Owned(n.rhs) /\ Owned(n.lhs) \cap Owned(n.rhs) = {}
    BY <1>11, <2>3, TwoFit
  <2>7. (Owned(n.lhs) \cup Owned(n.rhs)) \cap Fresh(A, q) = {}
    BY <2>3, <2>6
  <2>8. Laid(items, (Owned(n.lhs) \cup Owned(n.rhs)) \cup Fresh(A, q), D, U)
    BY <2>4, <2>5, <2>6, <2>7, LogicalLaid
  <2> HIDE DEF items
  <2>9. Laid(items, Owned(n) \cup Fresh(A, q), D, U)
    BY <2>6, <2>8
  <2> USE DEF U
  <2> QED
    BY <1>9, <2>1, <2>9
<1>12. CASE ExprLogAnd
  <2> DEFINE x == Branch("bnez", R(0), "false", q)
  <2>1. /\ n.kind = "ND_LOGAND"
        /\ Labelled(<<Expr(n.lhs)>> \o cmp_zero(n.lhs.ty) \o <<x>>
                \o <<Expr(n.rhs)>> \o cmp_zero(n.rhs.ty) \o <<x>>
                \o <<Ins("li", <<R(0)>>, <<1>>, 0), Jump("end", q), Label("false", q),
                     Ins("li", <<R(0)>>, <<0>>, 1), Label("end", q)>>)
    BY <1>4, <1>5, <1>12 DEF ExprLogAnd, AtNode, seq
  <2>2. n.kind \in TwoParts
    BY <2>1 DEF TwoParts
  <2>3. \A U : <<"false", q>> \in U => Laid(<<x>>, {}, D, U)
    BY GoLaid
  <2> HIDE DEF x
  <2> QED
    BY <1>11, <2>1, <2>2, <2>3
<1>13. CASE ExprLogOr
  <2> DEFINE x == Branch("beqz", R(0), "true", q)
  <2>1. /\ n.kind = "ND_LOGOR"
        /\ Labelled(<<Expr(n.lhs)>> \o cmp_zero(n.lhs.ty) \o <<x>>
                \o <<Expr(n.rhs)>> \o cmp_zero(n.rhs.ty) \o <<x>>
                \o <<Ins("li", <<R(0)>>, <<0>>, 0), Jump("end", q), Label("true", q),
                     Ins("li", <<R(0)>>, <<1>>, 1), Label("end", q)>>)
    BY <1>4, <1>5, <1>13 DEF ExprLogOr, AtNode, seq
  <2>2. n.kind \in TwoParts
    BY <2>1 DEF TwoParts
  <2>3. \A U : <<"true", q>> \in U => Laid(<<x>>, {}, D, U)
    BY GoLaid
  <2> HIDE DEF x
  <2> QED
    BY <1>11, <2>1, <2>2, <2>3
<1> QED
  BY <1>10, <1>12, <1>13

-----------------------------------------------------------------------------
(* gen_stmt.                                                               *)

\* One name with its number.
LEMMA FreshOne ==
  ASSUME NEW a, NEW q
  PROVE  Fresh({a}, q) = {Lab(<<a, q>>)} /\ <<a, q>> \in Goals({a}, q)
BY DEF Fresh, Goals

LEMMA IfLaid ==
  ASSUME NEW n, n.kind = "ND_IF", n.els = Null, NEW D, NEW T, Fit(n, D, T), NEW q,
         Fresh({"end"}, q) \cap Owned(n) = {}, <<"end", q>> \in T
  PROVE  Laid(<<Expr(n.cond)>> \o cmp_zero(n.cond.ty)
                \o <<Branch("bnez", R(0), "end", q), Stmt(n.then), Label("end", q)>>,
              Owned(n) \cup Fresh({"end"}, q), D, T)
<1> DEFINE test == <<Expr(n.cond)>> \o cmp_zero(n.cond.ty)
           x == Branch("bnez", R(0), "end", q)
           y == Stmt(n.then)
           z == Label("end", q)
           B == {Lab(<<"end", q>>)}
           O1 == Owned(n.cond)
           O2 == Owned(n.then)
           s == <<x, y, z>>
<1>1. /\ Fit(n.cond, D, T) /\ Fit(n.then, D, T) /\ Fit(n.els, D, T)
      /\ Owned(n) = O1 \cup O2 \cup Owned(n.els) /\ O1 \cap O2 = {}
  BY ThreeFit
<1>2. Owned(n.els) = {}
  BY <1>1, NullOwns DEF Fit
<1>3. Laid(test, O1, D, T) /\ Laid(<<y>>, O2, D, T)
  BY <1>1, ConditionLaid, NodeLaid
<1>4. Laid(<<x>>, {}, D, T) /\ Laid(<<z>>, B, D, T)
  BY GoLaid, LabelLaid
<1>5. Fresh({"end"}, q) = B
  BY FreshOne
<1> HIDE DEF test, x, y, z, B, O1, O2
<1>6. {} \cap O2 = {} /\ {} \cap B = {} /\ O2 \cap B = {} /\ {} \cup O2 \cup B = O2 \cup B /\ O1 \cap (O2 \cup B) = {}
  BY <1>1, <1>2, <1>5
<1>7. Laid(s, {} \cup O2 \cup B, D, T)
  BY <1>3, <1>4, <1>6, LaidTriple
<1>8. Laid(s, O2 \cup B, D, T)
  BY <1>6, <1>7
<1> HIDE DEF s
<1>9. Laid(test \o s, O1 \cup (O2 \cup B), D, T)
  BY <1>3, <1>6, <1>8, LaidBoth
<1>10. O1 \cup (O2 \cup B) = Owned(n) \cup Fresh({"end"}, q)
  BY <1>1, <1>2, <1>5
<1>11. Laid(test \o s, Owned(n) \cup Fresh({"end"}, q), D, T)
  BY <1>9, <1>10
<1> QED
  BY <1>11 DEF test, s, x, y, z

LEMMA IfElseLaid ==
  ASSUME NEW n, n.kind = "ND_IF", NEW D, NEW T, Fit(n, D, T), NEW q,
         Fresh({"else", "end"}, q) \cap Owned(n) = {},
         <<"else", q>> \in T, <<"end", q>> \in T
  PROVE  Laid(<<Expr(n.cond)>> \o cmp_zero(n.cond.ty)
                \o <<Branch("bnez", R(0), "else", q), Stmt(n.then), Jump("end", q),
                     Label("else", q), Stmt(n.els), Label("end", q)>>,
              Owned(n) \cup Fresh({"else", "end"}, q), D, T)
<1> DEFINE test == <<Expr(n.cond)>> \o cmp_zero(n.cond.ty)
           x1 == <<Branch("bnez", R(0), "else", q)>>
           x2 == <<Stmt(n.then)>>
           x3 == <<Jump("end", q)>>
           x4 == <<Label("else", q)>>
           x5 == <<Stmt(n.els)>>
           x6 == <<Label("end", q)>>
           A == {Lab(<<"else", q>>)}
           B == {Lab(<<"end", q>>)}
           O1 == Owned(n.cond)
           O2 == Owned(n.then)
           O3 == Owned(n.els)
<1>1. /\ Fit(n.cond, D, T) /\ Fit(n.then, D, T) /\ Fit(n.els, D, T)
      /\ Owned(n) = O1 \cup O2 \cup O3 /\ O1 \cap O2 = {} /\ O1 \cap O3 = {} /\ O2 \cap O3 = {}
  BY ThreeFit
<1>2. Laid(test, O1, D, T) /\ Laid(x2, O2, D, T) /\ Laid(x5, O3, D, T)
  BY <1>1, ConditionLaid, NodeLaid
<1>3. Laid(x1, {}, D, T) /\ Laid(x3, {}, D, T)
  BY GoLaid
<1>4. Laid(x4, A, D, T) /\ Laid(x6, B, D, T)
  BY LabelLaid
<1>5. A \cap B = {} /\ Fresh({"else", "end"}, q) = A \cup B
  BY FreshPair
<1>6. <<Branch("bnez", R(0), "else", q), Stmt(n.then), Jump("end", q),
        Label("else", q), Stmt(n.els), Label("end", q)>> = x1 \o (x2 \o (x3 \o (x4 \o (x5 \o x6))))
  BY Chain6
<1> HIDE DEF test, x1, x2, x3, x4, x5, x6, A, B, O1, O2, O3
<1> DEFINE s5 == x5 \o x6
           s4 == x4 \o s5
           s3 == x3 \o s4
           s2 == x2 \o s3
           s1 == x1 \o s2
           M5 == O3 \cup B
           M4 == A \cup M5
           M2 == O2 \cup M4
<1>7. O3 \cap B = {} /\ A \cap M5 = {} /\ O2 \cap M4 = {} /\ O1 \cap M2 = {}
  BY <1>1, <1>5
<1>8. Laid(s5, M5, D, T)
  BY <1>2, <1>4, <1>7, LaidWith
<1> HIDE DEF s5, M5
<1>9. Laid(s4, M4, D, T)
  BY <1>4, <1>7, <1>8, LaidWith
<1> HIDE DEF s4, M4
<1>10. Laid(s3, M4, D, T)
  BY <1>3, <1>9, LaidBefore
<1> HIDE DEF s3
<1>11. Laid(s2, M2, D, T)
  BY <1>2, <1>7, <1>10, LaidWith
<1> HIDE DEF s2, M2
<1>12. Laid(s1, M2, D, T)
  BY <1>3, <1>11, LaidBefore
<1> HIDE DEF s1
<1>13. Laid(test \o s1, O1 \cup M2, D, T)
  BY <1>2, <1>7, <1>12, LaidBoth
<1>14. O1 \cup M2 = Owned(n) \cup Fresh({"else", "end"}, q)
  BY <1>1, <1>5 DEF M2, M4, M5
<1>15. Laid(test \o s1, Owned(n) \cup Fresh({"else", "end"}, q), D, T)
  BY <1>13, <1>14
<1> QED
  BY <1>6, <1>15 DEF test, s1, s2, s3, s4, s5

\* A statement that may be missing.
LEMMA OptLaid ==
  ASSUME NEW n, NEW D, NEW T, Fit(n, D, T)
  PROVE  Laid(OptStmt(n), Owned(n), D, T)
<1>1. CASE n = Null
  BY <1>1, NullOwns, LaidNothing DEF OptStmt, Fit
<1>2. CASE n # Null
  BY <1>2, NodeLaid DEF OptStmt
<1> QED
  BY <1>1, <1>2

LoopNames == {"begin", "continue", "break"}

\* A loop: its end, with the labels of the loop around it.
LEMMA LoopResolved ==
  ASSUME NEW M, NEW T, Found(M, T), At("stmt"), NEW items, Loop(items),
         Laid(items, Owned(N) \cup Fresh({"begin", "continue"}, labelseq), DOMAIN case_label,
              T \cup Goals(LoopNames, labelseq))
  PROVE  Resolved'
<1>1. PICK q : q = labelseq
  OBVIOUS
<1>2. PICK D : D = DOMAIN case_label
  OBVIOUS
<1>3. PICK O : O = Owned(N)
  OBVIOUS
<1>4. PICK U : U = T \cup Goals(LoopNames, q)
  OBVIOUS
<1> DEFINE x == Label("break", q)
           y == Restore(brkseq, contseq)
           tail == <<x, y>>
           B == {Lab(<<"break", q>>)}
           P == Fresh({"begin", "continue"}, q)
           Q == Fresh(LoopNames, q)
<1>5. todo # <<>> /\ IsNode(Head(todo))
  BY AtFit
<1>6. /\ Become(items \o tail) /\ labelseq' = labelseq + 1 /\ brkseq' = q /\ contseq' = q
  BY <1>1 DEF Loop, seq
<1>7. Laid(items, O \cup P, D, U)
  BY <1>1, <1>2, <1>3, <1>4
<1>8. Laid(<<x>>, B, D, U)
  BY LabelLaid
<1>9. LoopLabels(brkseq, contseq) \subseteq U
  BY <1>4 DEF Found
<1>10. Laid(<<y>>, {}, D, U)
  BY <1>9, RestoreLaid
<1> HIDE DEF x, y
<1>11. Laid(tail, B, D, U)
  BY <1>8, <1>10, PairFirst
<1>12. Q = P \cup B /\ P \cap B = {}
  <2>1. /\ \A z : z \in Q <=> z = Lab(<<"begin", q>>) \/ z = Lab(<<"continue", q>>) \/ z = Lab(<<"break", q>>)
        /\ \A z : z \in P <=> z = Lab(<<"begin", q>>) \/ z = Lab(<<"continue", q>>)
    BY DEF Fresh, LoopNames
  <2>2. <<"begin", q>> # <<"break", q>> /\ <<"continue", q>> # <<"break", q>>
    OBVIOUS
  <2>3. Lab(<<"begin", q>>) # Lab(<<"break", q>>) /\ Lab(<<"continue", q>>) # Lab(<<"break", q>>)
    BY <2>2, Distinct
  <2> QED
    BY <2>1, <2>3
<1>13. Q \cap O = {}
  BY <1>1, <1>3, FreshOwned
<1>14. LoopLabels(q, q) \subseteq U
  BY <1>4 DEF LoopLabels, Goals, LoopNames
<1>15. LoopNames # {}
  BY DEF LoopNames
<1> HIDE DEF tail, B, P, Q
<1>16. (O \cup P) \cap B = {} /\ O \cup Q = (O \cup P) \cup B
  BY <1>12, <1>13
<1>17. Laid(items \o tail, O \cup Q, D, U)
  BY <1>7, <1>11, <1>16, LaidWith
<1>18. Laid(items \o tail, Owned(N) \cup Fresh(LoopNames, labelseq), DOMAIN case_label,
            T \cup Goals(LoopNames, labelseq))
  BY <1>1, <1>2, <1>3, <1>4, <1>17 DEF Q
<1>19. LoopLabels(brkseq', contseq') \subseteq T \cup Goals(LoopNames, labelseq)
  BY <1>1, <1>4, <1>6, <1>14
<1>20. labelseq' \in {labelseq, labelseq + 1}
  BY <1>6
<1> QED
  BY <1>5, <1>6, <1>18, <1>19, <1>20, NodeResolved

\* The labels begin and continue, of which no part of n is.
LEMMA LoopMarks ==
  ASSUME NEW q, NEW O, Fresh({"begin", "continue"}, q) \cap O = {}
  PROVE  /\ Fresh({"begin", "continue"}, q) = {Lab(<<"begin", q>>)} \cup {Lab(<<"continue", q>>)}
         /\ {Lab(<<"begin", q>>)} \cap {Lab(<<"continue", q>>)} = {}
         /\ {Lab(<<"begin", q>>)} \cap O = {} /\ {Lab(<<"continue", q>>)} \cap O = {}
BY FreshPair

LEMMA WhileLaid ==
  ASSUME NEW n, n.kind = "ND_WHILE", NEW D, NEW T, Fit(n, D, T), NEW q,
         Fresh({"begin", "continue"}, q) \cap Owned(n) = {},
         <<"begin", q>> \in T, <<"break", q>> \in T
  PROVE  Laid(<<Label("begin", q), Expr(n.cond), Ins("beqz", <<R(-1)>>, <<"break", q>>, -1)>>
                \o OptStmt(n.then) \o <<Label("continue", q), Jump("begin", q)>>,
              Owned(n) \cup Fresh({"begin", "continue"}, q), D, T)
<1> DEFINE x == Label("begin", q)
           y == Expr(n.cond)
           z == Ins("beqz", <<R(-1)>>, <<"break", q>>, -1)
           u == Label("continue", q)
           v == Jump("begin", q)
           s == <<x, y, z>>
           t == <<u, v>>
           A == {Lab(<<"begin", q>>)}
           B == {Lab(<<"continue", q>>)}
           O1 == Owned(n.cond)
           O2 == Owned(n.then)
<1>1. /\ Fit(n.cond, D, T) /\ Fit(n.then, D, T)
      /\ Owned(n) = O1 \cup O2 /\ O1 \cap O2 = {}
  BY LoopFit
<1>2. Laid(<<y>>, O1, D, T) /\ Laid(OptStmt(n.then), O2, D, T)
  BY <1>1, NodeLaid, OptLaid
<1>3. Laid(<<z>>, {}, D, T) /\ Laid(<<v>>, {}, D, T)
  BY InsLaid, GoLaid
<1>4. Laid(<<x>>, A, D, T) /\ Laid(<<u>>, B, D, T)
  BY LabelLaid
<1>5. /\ Fresh({"begin", "continue"}, q) = A \cup B
      /\ A \cap B = {} /\ A \cap Owned(n) = {} /\ B \cap Owned(n) = {}
  BY LoopMarks
<1> HIDE DEF x, y, z, u, v, A, B, O1, O2
<1>6. /\ A \cap O1 = {} /\ A \cap {} = {} /\ O1 \cap {} = {} /\ A \cup O1 \cup {} = A \cup O1
      /\ (A \cup O1) \cap O2 = {} /\ (A \cup O1 \cup O2) \cap B = {}
  BY <1>1, <1>5
<1>7. Laid(s, A \cup O1 \cup {}, D, T)
  BY <1>2, <1>3, <1>4, <1>6, LaidTriple
<1>8. Laid(t, B, D, T)
  BY <1>3, <1>4, PairFirst
<1> HIDE DEF s, t
<1>9. Laid(s, A \cup O1, D, T)
  BY <1>6, <1>7
<1>10. Laid(s \o OptStmt(n.then), A \cup O1 \cup O2, D, T)
  BY <1>2, <1>6, <1>9, LaidWith
<1>11. Laid(s \o OptStmt(n.then) \o t, A \cup O1 \cup O2 \cup B, D, T)
  BY <1>6, <1>8, <1>10, LaidWith
<1>12. A \cup O1 \cup O2 \cup B = Owned(n) \cup Fresh({"begin", "continue"}, q)
  BY <1>1, <1>5
<1>13. Laid(s \o OptStmt(n.then) \o t, Owned(n) \cup Fresh({"begin", "continue"}, q), D, T)
  BY <1>11, <1>12
<1> QED
  BY <1>13 DEF s, t, x, y, z, u, v

LEMMA DoLaid ==
  ASSUME NEW n, n.kind = "ND_DO", NEW D, NEW T, Fit(n, D, T), NEW q,
         Fresh({"begin", "continue"}, q) \cap Owned(n) = {}, <<"begin", q>> \in T
  PROVE  Laid(<<Label("begin", q), Stmt(n.then), Label("continue", q), Expr(n.cond)>>
                \o cmp_zero(n.cond.ty) \o <<Branch("beqz", R(0), "begin", q)>>,
              Owned(n) \cup Fresh({"begin", "continue"}, q), D, T)
<1> DEFINE x == <<Label("begin", q)>>
           y == <<Stmt(n.then)>>
           z == <<Label("continue", q)>>
           u == <<Expr(n.cond)>>
           v == <<Branch("beqz", R(0), "begin", q)>>
           A == {Lab(<<"begin", q>>)}
           B == {Lab(<<"continue", q>>)}
           O1 == Owned(n.cond)
           O2 == Owned(n.then)
<1>1. /\ Fit(n.cond, D, T) /\ Fit(n.then, D, T)
      /\ Owned(n) = O1 \cup O2 /\ O1 \cap O2 = {}
  BY LoopFit
<1>2. Laid(u, O1, D, T) /\ Laid(y, O2, D, T)
  BY <1>1, NodeLaid
<1>3. Laid(v, {}, D, T)
  BY GoLaid
<1>4. Laid(x, A, D, T) /\ Laid(z, B, D, T)
  BY LabelLaid
<1>5. /\ Fresh({"begin", "continue"}, q) = A \cup B
      /\ A \cap B = {} /\ A \cap Owned(n) = {} /\ B \cap Owned(n) = {}
  BY LoopMarks
<1>6. <<Label("begin", q), Stmt(n.then), Label("continue", q), Expr(n.cond)>> = x \o (y \o (z \o u))
  BY Chain4
<1> HIDE DEF x, y, z, u, v, A, B, O1, O2
<1> DEFINE s3 == z \o u
           s2 == y \o s3
           s1 == x \o s2
           M3 == B \cup O1
           M2 == O2 \cup M3
           M1 == A \cup M2
<1>7. B \cap O1 = {} /\ O2 \cap M3 = {} /\ A \cap M2 = {} /\ M1 = Owned(n) \cup Fresh({"begin", "continue"}, q)
  BY <1>1, <1>5
<1>8. Laid(s3, M3, D, T)
  BY <1>2, <1>4, <1>7, LaidWith
<1> HIDE DEF s3, M3
<1>9. Laid(s2, M2, D, T)
  BY <1>2, <1>7, <1>8, LaidWith
<1> HIDE DEF s2, M2
<1>10. Laid(s1, M1, D, T)
  BY <1>4, <1>7, <1>9, LaidWith
<1> HIDE DEF s1, M1
<1>11. Laid(s1 \o cmp_zero(n.cond.ty), M1, D, T)
  BY <1>10, CmpZeroLaid, LaidBehind
<1>12. Laid(s1 \o cmp_zero(n.cond.ty) \o v, M1, D, T)
  BY <1>3, <1>11, LaidBehind
<1> QED
  BY <1>6, <1>7, <1>12 DEF s1, s2, s3, v

LEMMA ForLaid ==
  ASSUME NEW n, n.kind = "ND_FOR", NEW D, NEW T, Fit(n, D, T), NEW q,
         Fresh({"begin", "continue"}, q) \cap Owned(n) = {},
         <<"begin", q>> \in T, <<"break", q>> \in T
  PROVE  Laid(OptStmt(n.init)
                \o <<Label("begin", q), Expr(n.cond), Ins("beqz", <<R(-1)>>, <<"break", q>>, -1)>>
                \o OptStmt(n.then) \o <<Label("continue", q)>> \o OptStmt(n.inc)
                \o <<Jump("begin", q)>>,
              Owned(n) \cup Fresh({"begin", "continue"}, q), D, T)
<1> DEFINE x == Label("begin", q)
           y == Expr(n.cond)
           z == Ins("beqz", <<R(-1)>>, <<"break", q>>, -1)
           s == <<x, y, z>>
           t == <<Label("continue", q)>>
           r == <<Jump("begin", q)>>
           i == OptStmt(n.init)
           b == OptStmt(n.then)
           c == OptStmt(n.inc)
           A == {Lab(<<"begin", q>>)}
           B == {Lab(<<"continue", q>>)}
           O1 == Owned(n.init)
           O2 == Owned(n.cond)
           O3 == Owned(n.then)
           O4 == Owned(n.inc)
<1>1. /\ Fit(n.init, D, T) /\ Fit(n.cond, D, T) /\ Fit(n.then, D, T) /\ Fit(n.inc, D, T)
      /\ Owned(n) = O1 \cup O2 \cup O3 \cup O4
      /\ O1 \cap O2 = {} /\ O1 \cap O3 = {} /\ O1 \cap O4 = {}
      /\ O2 \cap O3 = {} /\ O2 \cap O4 = {} /\ O3 \cap O4 = {}
  BY ForFit
<1>2. Laid(<<y>>, O2, D, T) /\ Laid(i, O1, D, T) /\ Laid(b, O3, D, T) /\ Laid(c, O4, D, T)
  BY <1>1, NodeLaid, OptLaid
<1>3. Laid(<<z>>, {}, D, T) /\ Laid(r, {}, D, T)
  BY InsLaid, GoLaid
<1>4. Laid(<<x>>, A, D, T) /\ Laid(t, B, D, T)
  BY LabelLaid
<1>5. /\ Fresh({"begin", "continue"}, q) = A \cup B
      /\ A \cap B = {} /\ A \cap Owned(n) = {} /\ B \cap Owned(n) = {}
  BY LoopMarks
<1> HIDE DEF x, y, z, t, r, i, b, c, A, B, O1, O2, O3, O4
<1> DEFINE K1 == A \cup O2
           K2 == O1 \cup K1
           K3 == K2 \cup O3
           K4 == K3 \cup B
           K5 == K4 \cup O4
           s2 == i \o s
           s3 == s2 \o b
           s4 == s3 \o t
           s5 == s4 \o c
<1>6. /\ A \cap O2 = {} /\ A \cap {} = {} /\ O2 \cap {} = {} /\ A \cup O2 \cup {} = K1
      /\ O1 \cap K1 = {} /\ K2 \cap O3 = {} /\ K3 \cap B = {} /\ K4 \cap O4 = {}
      /\ K5 = Owned(n) \cup Fresh({"begin", "continue"}, q)
  BY <1>1, <1>5
<1>7. Laid(s, A \cup O2 \cup {}, D, T)
  BY <1>2, <1>3, <1>4, <1>6, LaidTriple
<1>8. Laid(s, K1, D, T)
  BY <1>6, <1>7
<1> HIDE DEF s, K1
<1>9. Laid(s2, K2, D, T)
  BY <1>2, <1>6, <1>8, LaidWith
<1> HIDE DEF s2, K2
<1>10. Laid(s3, K3, D, T)
  BY <1>2, <1>6, <1>9, LaidWith
<1> HIDE DEF s3, K3
<1>11. Laid(s4, K4, D, T)
  BY <1>4, <1>6, <1>10, LaidWith
<1> HIDE DEF s4, K4
<1>12. Laid(s5, K5, D, T)
  BY <1>2, <1>6, <1>11, LaidWith
<1> HIDE DEF s5, K5
<1>13. Laid(s5 \o r, Owned(n) \cup Fresh({"begin", "continue"}, q), D, T)
  BY <1>3, <1>6, <1>12, LaidBehind
<1> QED
  BY <1>13 DEF s, s2, s3, s4, s5, t, r, i, b, c, x, y, z

LEMMA SwitchFit ==
  ASSUME NEW n, NEW D, NEW T, Fit(n, D, T), n.kind = "ND_SWITCH"
  PROVE  /\ n \in Nodes /\ n.then \in Nodes /\ Fit(n.cond, D, T)
         /\ OwnCases[n.then] \cap D = {} /\ InnerCases[n.then] \cap D = {}
         /\ InnerCases[n.then] \cap OwnCases[n.then] = {}
         /\ \A l \in Gotos[n.then] : <<l, 0>> \in T
         /\ Owned(n) = Owned(n.cond) \cup Owned(n.then) /\ Owned(n.cond) \cap Owned(n.then) = {}
<1> DEFINE s == <<n.cond, n.then>>
<1>1. Range(s) = {n.cond, n.then} /\ DOMAIN s = 1 .. 2 /\ s[1] = n.cond /\ s[2] = n.then
  BY DEF Range
<1>2. Parts(n) = s /\ n \in Nodes
  BY PartsOfKind DEF Fit
<1> HIDE DEF s
<1>3. n.cond \in Nodes /\ n.then \in Nodes
  BY <1>2, NodeParts
<1>4. Around(n) = {n.cond} /\ Range(Parts(n)) = {n.cond, n.then}
  BY <1>1, <1>2 DEF Around
<1>5. OwnCases[n.cond] \subseteq OwnCases[n]
  BY <1>2, <1>4, OwnCasesOf
<1>6. /\ OwnCases[n.then] \subseteq InnerCases[n] /\ InnerCases[n.then] \subseteq InnerCases[n]
      /\ InnerCases[n.cond] \subseteq InnerCases[n]
  BY <1>2, <1>4, InnerCasesOf
<1>7. Gotos[n.cond] \subseteq Gotos[n] /\ Gotos[n.then] \subseteq Gotos[n]
  BY <1>2, <1>4, GotosOf
<1>8. Fit(n.cond, D, T)
  BY <1>3, <1>5, <1>6, <1>7 DEF Fit
<1>9. InnerCases[n.then] \cap OwnCases[n.then] = {}
  BY <1>2, LabelsAssumption
<1>10. OwnMark(n) = {}
  BY DEF OwnMark
<1>11. Owned(n) = Owned(n.cond) \cup Owned(n.then)
  BY <1>2, <1>4, <1>10, OwnedOf
<1>12. Owned(s[1]) \cap Owned(s[2]) = {}
  BY <1>1, <1>2, PartsApart
<1>13. OwnCases[n.then] \cap D = {} /\ InnerCases[n.then] \cap D = {} /\ \A l \in Gotos[n.then] : <<l, 0>> \in T
  BY <1>6, <1>7 DEF Fit
<1> QED
  BY <1>1, <1>2, <1>3, <1>8, <1>9, <1>11, <1>12, <1>13

\* The body waits for the numbers of its cases.
LEMMA WaitingLaid ==
  ASSUME NEW n, n.kind = "ND_SWITCH", NEW D, NEW T, Fit(n, D, T), NEW q, <<"break", q>> \in T
  PROVE  Laid(<<[do |-> "cases", n |-> n, seq |-> q], Stmt(n.then)>>, Owned(n.then), D, T)
<1> DEFINE x == [do |-> "cases", n |-> n, seq |-> q]
           y == Stmt(n.then)
           s == <<x, y>>
<1>1. /\ n \in Nodes /\ n.then \in Nodes
      /\ OwnCases[n.then] \cap D = {} /\ InnerCases[n.then] \cap D = {}
      /\ InnerCases[n.then] \cap OwnCases[n.then] = {}
      /\ \A l \in Gotos[n.then] : <<l, 0>> \in T
  BY SwitchFit
<1>2. x.do = "cases" /\ x.n = n /\ x.seq = q
  OBVIOUS
<1>3. IsNode(y) /\ y.n = n.then /\ y.do = "stmt"
  BY DEF Stmt, IsNode
<1>4. s \in Seq({x, y}) /\ Len(s) = 2 /\ s[1] = x /\ s[2] = y
  OBVIOUS
<1>5. x.n.then = n.then /\ y = Stmt(x.n.then)
  BY <1>2
<1> HIDE DEF x, y, s
<1>6. /\ Known(x) /\ Own(x) = {} /\ Inner(x) = {} /\ Wanted(x) \subseteq T /\ Marked(x) = {}
  BY <1>1, <1>2 DEF Known, Own, Inner, Wanted, Marked, IsNode
<1>7. /\ Known(y) /\ Own(y) = OwnCases[n.then] /\ Inner(y) = InnerCases[n.then]
      /\ Wanted(y) \subseteq T /\ Marked(y) = Owned(n.then)
  BY <1>1, <1>3 DEF Known, Own, Inner, Wanted, Marked
<1>8. Ready(x, FALSE, D, T) /\ Ready(y, TRUE, D, T)
  BY <1>1, <1>6, <1>7 DEF Ready
<1>9. \A k \in 1 .. Len(s) : k = 1 \/ k = 2
  BY <1>4
<1>10. Waits(s, 1) = FALSE /\ Waits(s, 2) = TRUE
  BY <1>2, <1>4 DEF Waits
<1>11. \A k \in 1 .. Len(s) : Ready(s[k], Waits(s, k), D, T)
  <2>1. Ready(s[1], Waits(s, 1), D, T)
    BY <1>4, <1>8, <1>10
  <2>2. Ready(s[2], Waits(s, 2), D, T)
    BY <1>4, <1>8, <1>10
  <2> QED
    BY <1>9, <2>1, <2>2
<1>12. \A k \in 1 .. Len(s) : s[k].do = "cases" => k + 1 \in 1 .. Len(s) /\ s[k + 1] = Stmt(s[k].n.then)
  BY <1>3, <1>4, <1>5, <1>9
<1>13. \A j, k \in 1 .. Len(s) : j # k => Marked(s[j]) \cap Marked(s[k]) = {}
  BY <1>4, <1>6, <1>9
<1>14. Owned(n.then) = UNION {Marked(s[k]) : k \in 1 .. Len(s)}
  BY <1>4, <1>6, <1>7, <1>9
<1>15. Laid(s, Owned(n.then), D, T)
  BY <1>4, <1>11, <1>12, <1>13, <1>14 DEF Laid
<1> QED
  BY <1>15 DEF s, x, y

LEMMA Middle ==
  ASSUME NEW a, NEW b, NEW c, NEW d, NEW e, NEW p, p = <<b, c>>
  PROVE  <<a, b, c, d, e>> = <<a>> \o (p \o (<<d>> \o <<e>>))
<1> DEFINE S == {a, b, c, d, e}
           x == <<b>>
           y == <<c>>
           t == <<d, e>>
<1>1. x \in Seq(S) /\ y \in Seq(S) /\ t \in Seq(S)
  OBVIOUS
<1>2. p = x \o y
  BY Tuple2
<1>3. <<c, d, e>> = y \o t
  BY Tuple3
<1>4. <<b, c, d, e>> = x \o <<c, d, e>>
  BY Tuple4
<1>5. <<a, b, c, d, e>> = <<a>> \o <<b, c, d, e>>
  BY Tuple5
<1>6. t = <<d>> \o <<e>>
  BY Tuple2
<1> HIDE DEF x, y, t, S
<1>7. (x \o y) \o t = x \o (y \o t)
  BY <1>1, ConcatAssociative
<1> QED
  BY <1>2, <1>3, <1>4, <1>5, <1>6, <1>7

LEMMA SwitchLaid ==
  ASSUME NEW n, n.kind = "ND_SWITCH", NEW D, NEW T, Fit(n, D, T), NEW q,
         Fresh({"break"}, q) \cap Owned(n) = {}, <<"break", q>> \in T,
         NEW brk, NEW cont, LoopLabels(brk, cont) \subseteq T
  PROVE  Laid(<<Expr(n.cond), [do |-> "cases", n |-> n, seq |-> q], Stmt(n.then),
                Label("break", q), Restore(brk, cont)>>,
              Owned(n) \cup Fresh({"break"}, q), D, T)
<1> DEFINE c == [do |-> "cases", n |-> n, seq |-> q]
           x == <<Expr(n.cond)>>
           y == <<c, Stmt(n.then)>>
           z == <<Label("break", q)>>
           u == <<Restore(brk, cont)>>
           B == {Lab(<<"break", q>>)}
           O1 == Owned(n.cond)
           O2 == Owned(n.then)
<1>1. Fit(n.cond, D, T) /\ Owned(n) = O1 \cup O2 /\ O1 \cap O2 = {}
  BY SwitchFit
<1>2. Laid(x, O1, D, T) /\ Laid(y, O2, D, T)
  BY <1>1, NodeLaid, WaitingLaid
<1>3. Laid(z, B, D, T) /\ Laid(u, {}, D, T)
  BY LabelLaid, RestoreLaid
<1>4. Fresh({"break"}, q) = B
  BY FreshOne
<1> HIDE DEF c
<1>5. <<Expr(n.cond), c, Stmt(n.then), Label("break", q), Restore(brk, cont)>> = x \o (y \o (z \o u))
  <2>1. y = <<c, Stmt(n.then)>>
    OBVIOUS
  <2> HIDE DEF y
  <2> QED
    BY <2>1, Middle
<1> HIDE DEF x, y, z, u, B, O1, O2
<1>6. O2 \cap B = {} /\ O1 \cap (O2 \cup B) = {} /\ O1 \cup (O2 \cup B) = Owned(n) \cup Fresh({"break"}, q)
  BY <1>1, <1>4
<1>7. Laid(z \o u, B, D, T)
  BY <1>3, LaidBehind
<1>8. Laid(y \o (z \o u), O2 \cup B, D, T)
  BY <1>2, <1>6, <1>7, LaidBoth
<1>9. Laid(x \o (y \o (z \o u)), O1 \cup (O2 \cup B), D, T)
  BY <1>2, <1>6, <1>8, LaidBoth
<1>10. Laid(<<Expr(n.cond), c, Stmt(n.then), Label("break", q), Restore(brk, cont)>>,
            Owned(n) \cup Fresh({"break"}, q), D, T)
  BY <1>5, <1>6, <1>9
<1> QED
  BY <1>10 DEF c

\* A return may always be jumped to.
LEMMA ReturnFound ==
  ASSUME NEW M, NEW T, Found(M, T)
  PROVE  Found(M, T \cup {<<"return", 0>>})
<1> DEFINE U == T \cup {<<"return", 0>>}
<1>1. T \subseteq U
  OBVIOUS
<1>2. Laid(todo, M, DOMAIN case_label, T)
  BY DEF Found, Good
<1>3. Laid(todo, M, DOMAIN case_label, U)
  BY <1>1, <1>2, LaidMore
<1>4. \A l \in U : Has(M \cup MarksOf(code), case_label, l)
  BY DEF Found, Good, Has
<1>5. Good(todo, M, U, MarksOf(code), TargetsOf(code), case_label, labelseq)
  BY <1>1, <1>3, <1>4 DEF Found, Good
<1> QED
  BY <1>1, <1>5 DEF Found

\* A case writes the label it was given.
LEMMA CaseResolved == ASSUME Resolved, StmtCase PROVE Resolved'
<1>1. /\ At("stmt") /\ N.kind = "ND_CASE"
      /\ todo' = <<Label("case", case_label[N.id]), Stmt(N.lhs)>> \o Tail(todo)
      /\ UNCHANGED <<labelseq, brkseq, contseq, case_label, code, status>>
  BY DEF StmtCase, AtNode, Plain, Become
<1>2. PICK M, T : Found(M, T)
  BY <1>1, Finds DEF At
<1>3. todo # <<>> /\ IsNode(Head(todo)) /\ status = "gen"
  BY <1>1, <1>2, AtFit
<1>4. PICK s : s = todo
  OBVIOUS
<1>5. PICK x : x = N
  OBVIOUS
<1>6. PICK f : f = case_label
  OBVIOUS
<1> DEFINE M2 == (M \ {Cas(x.id)}) \cup {Lab(<<"case", f[x.id]>>)}
<1>7. Good(s, M, T, MarksOf(code), TargetsOf(code), f, labelseq)
  BY <1>2, <1>4, <1>6 DEF Found
<1>8. s # <<>> /\ IsNode(Head(s)) /\ x = Head(s).n /\ x.kind = "ND_CASE"
  BY <1>1, <1>3, <1>4, <1>5 DEF N
<1>9. Good(<<Label("case", f[x.id]), Stmt(x.lhs)>> \o Tail(s), M2, T, MarksOf(code), TargetsOf(code), f, labelseq)
  BY <1>7, <1>8, GoodCase
<1>10. todo' = <<Label("case", f[x.id]), Stmt(x.lhs)>> \o Tail(s)
  BY <1>1, <1>4, <1>5, <1>6
<1> HIDE DEF M2
<1>11. Good(todo', M2, T, MarksOf(code'), TargetsOf(code'), case_label', labelseq')
  BY <1>1, <1>6, <1>9, <1>10
<1> QED
  BY <1>1, <1>2, <1>3, <1>11 DEF Resolved, Found

\* The statements that take no label.
LEMMA StmtPlainResolved ==
  ASSUME Resolved,
         StmtBlock \/ StmtBreak \/ StmtContinue \/ StmtGoto \/ StmtLabel \/ StmtReturn \/ StmtExpr
  PROVE  Resolved'
<1>1. At("stmt")
  BY DEF StmtBlock, StmtBreak, StmtContinue, StmtGoto, StmtLabel, StmtReturn, StmtExpr, AtNode
<1>2. PICK M, T : Found(M, T) /\ <<"return", 0>> \in T
  <2>1. PICK M, U : Found(M, U)
    BY <1>1, Finds DEF At
  <2>2. Found(M, U \cup {<<"return", 0>>})
    BY <2>1, ReturnFound
  <2> QED
    BY <2>2
<1>3. PICK D : D = DOMAIN case_label
  OBVIOUS
<1>4. PICK n : n = N
  OBVIOUS
<1>5. Fit(n, D, T) /\ n \in Nodes
  <2>1. Fit(N, DOMAIN case_label, T)
    BY <1>1, <1>2, AtFit
  <2> QED
    BY <1>3, <1>4, <2>1 DEF Fit
<1>6. ASSUME NEW items, Plain(items), Laid(items, Owned(n), D, T) PROVE Resolved'
  BY <1>1, <1>2, <1>3, <1>4, <1>6, PlainResolved
<1>7. ASSUME n.kind \in {"ND_BREAK", "ND_CONTINUE", "ND_GOTO"} PROVE Owned(n) = {}
  BY <1>5, <1>7, NoneFit, PartsOfOthers
<1>8. ASSUME NEW name, NEW k, <<name, k>> \in T, Owned(n) = {}, Plain(<<Jump(name, k)>>) PROVE Resolved'
  <2> DEFINE items == <<Jump(name, k)>>
  <2>1. Plain(items)
    BY <1>8
  <2>2. Laid(items, {}, D, T)
    BY <1>8, GoLaid
  <2> HIDE DEF items
  <2> QED
    BY <1>6, <1>8, <2>1, <2>2
<1>9. LoopLabels(brkseq, contseq) \subseteq T
  BY <1>2 DEF Found
<1>10. CASE StmtBlock
  <2> DEFINE items == [i \in DOMAIN n.body |-> Stmt(n.body[i])]
  <2>1. n.kind = "ND_BLOCK" /\ Plain(items)
    BY <1>4, <1>10 DEF StmtBlock, AtNode
  <2>2. Laid(items, Owned(n), D, T)
    BY <1>5, <2>1, BodyFit
  <2> HIDE DEF items
  <2> QED
    BY <1>6, <2>1, <2>2
<1>11. CASE StmtBreak
  <2>1. CASE brkseq = 0
    BY <1>11, <2>1, FailResolved DEF StmtBreak
  <2>2. CASE brkseq # 0
    <3>1. n.kind = "ND_BREAK" /\ Plain(<<Jump("break", brkseq)>>)
      BY <1>4, <1>11, <2>2 DEF StmtBreak, AtNode
    <3>2. <<"break", brkseq>> \in T
      BY <1>9, <2>2 DEF LoopLabels
    <3> QED
      BY <1>7, <1>8, <3>1, <3>2
  <2> QED
    BY <2>1, <2>2
<1>12. CASE StmtContinue
  <2>1. CASE contseq = 0
    BY <1>12, <2>1, FailResolved DEF StmtContinue
  <2>2. CASE contseq # 0
    <3>1. n.kind = "ND_CONTINUE" /\ Plain(<<Jump("continue", contseq)>>)
      BY <1>4, <1>12, <2>2 DEF StmtContinue, AtNode
    <3>2. <<"continue", contseq>> \in T
      BY <1>9, <2>2 DEF LoopLabels
    <3> QED
      BY <1>7, <1>8, <3>1, <3>2
  <2> QED
    BY <2>1, <2>2
<1>13. CASE StmtGoto
  <2>1. n.kind = "ND_GOTO" /\ Plain(<<Jump(n.label_name, 0)>>)
    BY <1>4, <1>13 DEF StmtGoto, AtNode
  <2>2. n.label_name \in Gotos[n]
    BY <1>5, <2>1, GotosOf
  <2>3. <<n.label_name, 0>> \in T
    BY <1>5, <2>2 DEF Fit
  <2> QED
    BY <1>7, <1>8, <2>1, <2>3
<1>14. CASE StmtLabel
  <2> DEFINE x == Label(n.label_name, 0)
             y == Stmt(n.lhs)
             A == {Lab(<<n.label_name, 0>>)}
  <2>1. n.kind = "ND_LABEL" /\ Plain(<<x, y>>)
    BY <1>4, <1>14 DEF StmtLabel, AtNode
  <2>2. OwnMark(n) = A /\ n.kind \in OnePart
    BY <2>1 DEF OwnMark, OnePart
  <2>3. Fit(n.lhs, D, T) /\ Owned(n) = A \cup Owned(n.lhs) /\ A \cap Owned(n.lhs) = {}
    BY <1>5, <2>2, OneFit
  <2>4. Laid(<<x>>, A, D, T) /\ Laid(<<y>>, Owned(n.lhs), D, T)
    BY <2>3, LabelLaid, NodeLaid
  <2> HIDE DEF x, y, A
  <2>5. Laid(<<x, y>>, A \cup Owned(n.lhs), D, T)
    BY <2>3, <2>4, LaidPair
  <2>6. Laid(<<x, y>>, Owned(n), D, T)
    BY <2>3, <2>5
  <2> QED
    BY <1>6, <2>1, <2>6
<1>15. CASE StmtReturn
  <2> DEFINE x == Expr(n.lhs)
             y == Ins("mv a0", <<Of(n.lhs.ty, -1)>>, <<>>, -1)
             r == <<Jump("return", 0)>>
             v == IF n.lhs = Null THEN <<>> ELSE <<x, y>>
  <2>1. n.kind = "ND_RETURN" /\ Plain(v \o r)
    BY <1>4, <1>15 DEF StmtReturn, AtNode
  <2>2. n.kind \in OnePart
    BY <2>1 DEF OnePart
  <2>3. Fit(n.lhs, D, T) /\ Owned(n) = Owned(n.lhs)
    BY <1>5, <2>1, <2>2, OneOwned
  <2>4. Laid(<<x>>, Owned(n), D, T)
    BY <2>3, NodeLaid
  <2>5. Laid(<<y>>, {}, D, T)
    BY InsLaid DEF IsJump
  <2>6. Laid(r, {}, D, T)
    BY <1>2, GoLaid
  <2>7. n.lhs = Null => Owned(n) = {}
    BY <2>3, NullOwns DEF Fit
  <2> HIDE DEF x, y, r
  <2>8. Laid(<<x, y>>, Owned(n), D, T)
    BY <2>4, <2>5, PairFirst
  <2>9. Laid(v, Owned(n), D, T)
    <3>1. CASE n.lhs = Null
      <4>1. v = <<>>
        BY <3>1
      <4> QED
        BY <2>7, <3>1, <4>1, LaidNothing
    <3>2. CASE n.lhs # Null
      <4>1. v = <<x, y>>
        BY <3>2
      <4> QED
        BY <2>8, <4>1
    <3> QED
      BY <3>1, <3>2
  <2> HIDE DEF v
  <2>10. Laid(v \o r, Owned(n), D, T)
    BY <2>6, <2>9, LaidBehind
  <2> QED
    BY <1>6, <2>1, <2>10
<1>16. CASE StmtExpr
  <2> DEFINE x == Expr(n.lhs)
             y == Top(-1)
  <2>1. n.kind = "ND_EXPR_STMT" /\ Plain(<<x, y>>)
    BY <1>4, <1>16 DEF StmtExpr, AtNode
  <2>2. n.kind \in OnePart
    BY <2>1 DEF OnePart
  <2>3. Fit(n.lhs, D, T) /\ Owned(n) = Owned(n.lhs)
    BY <1>5, <2>1, <2>2, OneOwned
  <2>4. Laid(<<x>>, Owned(n), D, T) /\ Laid(<<y>>, {}, D, T)
    BY <2>3, NodeLaid, TopLaid
  <2> HIDE DEF x, y
  <2>5. Laid(<<x, y>>, Owned(n), D, T)
    BY <2>4, PairFirst
  <2> QED
    BY <1>6, <2>1, <2>5
<1> QED
  BY <1>10, <1>11, <1>12, <1>13, <1>14, <1>15, <1>16

\* if, the loops and switch.
LEMMA StmtLabelledResolved ==
  ASSUME Resolved, StmtIf \/ StmtWhile \/ StmtDo \/ StmtFor \/ StmtSwitch
  PROVE  Resolved'
<1>1. At("stmt")
  BY DEF StmtIf, StmtWhile, StmtDo, StmtFor, StmtSwitch, AtNode
<1>2. PICK M, T : Found(M, T)
  BY <1>1, Finds DEF At
<1>3. PICK D : D = DOMAIN case_label
  OBVIOUS
<1>4. PICK n : n = N
  OBVIOUS
<1>5. PICK q : q = labelseq
  OBVIOUS
<1>6. Fit(n, D, T)
  <2>1. Fit(N, DOMAIN case_label, T)
    BY <1>1, <1>2, AtFit
  <2> QED
    BY <1>3, <1>4, <2>1
<1>7. \A A : Fit(n, D, T \cup Goals(A, q))
  BY <1>6, FitMore
<1>8. ASSUME NEW A PROVE Fresh(A, q) \cap Owned(n) = {}
  BY <1>1, <1>2, <1>4, <1>5, FreshOwned
<1>9. ASSUME NEW items, Labelled(items), NEW A,
             Laid(items, Owned(n) \cup Fresh(A, q), D, T \cup Goals(A, q))
      PROVE  Resolved'
  BY <1>1, <1>2, <1>3, <1>4, <1>5, <1>9, LabelledResolved
<1>10. ASSUME NEW items, Loop(items),
              Laid(items, Owned(n) \cup Fresh({"begin", "continue"}, q), D, T \cup Goals(LoopNames, q))
       PROVE  Resolved'
  BY <1>1, <1>2, <1>3, <1>4, <1>5, <1>10, LoopResolved
<1>11. <<"begin", q>> \in Goals(LoopNames, q) /\ <<"break", q>> \in Goals(LoopNames, q)
  BY DEF Goals, LoopNames
<1>12. CASE StmtIf
  <2> DEFINE test == <<Expr(n.cond)>> \o cmp_zero(n.cond.ty)
             one == <<Branch("bnez", R(0), "end", q), Stmt(n.then), Label("end", q)>>
             two == <<Branch("bnez", R(0), "else", q), Stmt(n.then), Jump("end", q),
                      Label("else", q), Stmt(n.els), Label("end", q)>>
  <2>1. n.kind = "ND_IF" /\ Labelled(test \o IF n.els = Null THEN one ELSE two)
    BY <1>4, <1>5, <1>12 DEF StmtIf, AtNode, seq
  <2>2. CASE n.els = Null
    <3> DEFINE A == {"end"}
               U == T \cup Goals(A, q)
               items == test \o one
    <3>1. Labelled(items)
      BY <2>1, <2>2
    <3>2. <<"end", q>> \in U
      BY FreshOne
    <3>3. Fit(n, D, U) /\ Fresh(A, q) \cap Owned(n) = {}
      BY <1>7, <1>8
    <3>4. Laid(items, Owned(n) \cup Fresh(A, q), D, U)
      BY <2>1, <2>2, <3>2, <3>3, IfLaid
    <3> HIDE DEF A, items
    <3> QED
      BY <1>9, <3>1, <3>4
  <2>3. CASE n.els # Null
    <3> DEFINE A == {"else", "end"}
               U == T \cup Goals(A, q)
               items == test \o two
    <3>1. Labelled(items)
      BY <2>1, <2>3
    <3>2. <<"else", q>> \in U /\ <<"end", q>> \in U
      BY FreshPair
    <3>3. Fit(n, D, U) /\ Fresh(A, q) \cap Owned(n) = {}
      BY <1>7, <1>8
    <3>4. Laid(items, Owned(n) \cup Fresh(A, q), D, U)
      BY <2>1, <3>2, <3>3, IfElseLaid
    <3> HIDE DEF A, items
    <3> QED
      BY <1>9, <3>1, <3>4
  <2> QED
    BY <2>2, <2>3
<1>13. CASE StmtWhile
  <2> DEFINE U == T \cup Goals(LoopNames, q)
             items == <<Label("begin", q), Expr(n.cond), Ins("beqz", <<R(-1)>>, <<"break", q>>, -1)>>
                        \o OptStmt(n.then) \o <<Label("continue", q), Jump("begin", q)>>
  <2>1. n.kind = "ND_WHILE" /\ Loop(items)
    BY <1>4, <1>5, <1>13 DEF StmtWhile, AtNode, seq
  <2>2. Fit(n, D, U) /\ Fresh({"begin", "continue"}, q) \cap Owned(n) = {}
    BY <1>7, <1>8
  <2>3. Laid(items, Owned(n) \cup Fresh({"begin", "continue"}, q), D, U)
    BY <1>11, <2>1, <2>2, WhileLaid
  <2> HIDE DEF items
  <2> QED
    BY <1>10, <2>1, <2>3
<1>14. CASE StmtDo
  <2> DEFINE U == T \cup Goals(LoopNames, q)
             items == <<Label("begin", q), Stmt(n.then), Label("continue", q), Expr(n.cond)>>
                        \o cmp_zero(n.cond.ty) \o <<Branch("beqz", R(0), "begin", q)>>
  <2>1. n.kind = "ND_DO" /\ Loop(items)
    BY <1>4, <1>5, <1>14 DEF StmtDo, AtNode, seq
  <2>2. Fit(n, D, U) /\ Fresh({"begin", "continue"}, q) \cap Owned(n) = {}
    BY <1>7, <1>8
  <2>3. Laid(items, Owned(n) \cup Fresh({"begin", "continue"}, q), D, U)
    BY <1>11, <2>1, <2>2, DoLaid
  <2> HIDE DEF items
  <2> QED
    BY <1>10, <2>1, <2>3
<1>15. CASE StmtFor
  <2> DEFINE U == T \cup Goals(LoopNames, q)
             items == OptStmt(n.init)
                        \o <<Label("begin", q), Expr(n.cond), Ins("beqz", <<R(-1)>>, <<"break", q>>, -1)>>
                        \o OptStmt(n.then) \o <<Label("continue", q)>> \o OptStmt(n.inc)
                        \o <<Jump("begin", q)>>
  <2>1. n.kind = "ND_FOR" /\ Loop(items)
    BY <1>4, <1>5, <1>15 DEF StmtFor, AtNode, seq
  <2>2. Fit(n, D, U) /\ Fresh({"begin", "continue"}, q) \cap Owned(n) = {}
    BY <1>7, <1>8
  <2>3. Laid(items, Owned(n) \cup Fresh({"begin", "continue"}, q), D, U)
    BY <1>11, <2>1, <2>2, ForLaid
  <2> HIDE DEF items
  <2> QED
    BY <1>10, <2>1, <2>3
<1>16. CASE StmtSwitch
  <2> DEFINE A == {"break"}
             U == T \cup Goals(A, q)
             items == <<Expr(n.cond), [do |-> "cases", n |-> n, seq |-> q], Stmt(n.then),
                        Label("break", q), Restore(brkseq, contseq)>>
  <2>1. /\ n.kind = "ND_SWITCH" /\ Become(items)
        /\ labelseq' = labelseq + 1 /\ brkseq' = q /\ contseq' = contseq
    BY <1>4, <1>5, <1>16 DEF StmtSwitch, AtNode, seq
  <2>2. Fit(n, D, U) /\ Fresh(A, q) \cap Owned(n) = {}
    BY <1>7, <1>8
  <2>3. LoopLabels(brkseq, contseq) \subseteq U
    BY <1>2 DEF Found
  <2>4. <<"break", q>> \in U
    BY FreshOne
  <2>5. Laid(items, Owned(n) \cup Fresh(A, q), D, U)
    BY <2>1, <2>2, <2>3, <2>4, SwitchLaid
  <2>6. A # {}
    OBVIOUS
  <2>7. LoopLabels(brkseq', contseq') \subseteq U
    BY <2>1, <2>3, <2>4 DEF LoopLabels
  <2>8. todo # <<>> /\ IsNode(Head(todo))
    BY <1>1, <1>2, AtFit
  <2>9. labelseq' \in {labelseq, labelseq + 1}
    BY <2>1
  <2> HIDE DEF A, items
  <2>10. /\ Laid(items, Owned(N) \cup Fresh(A, labelseq), DOMAIN case_label, T \cup Goals(A, labelseq))
         /\ LoopLabels(brkseq', contseq') \subseteq T \cup Goals(A, labelseq)
    BY <1>3, <1>4, <1>5, <2>5, <2>7
  <2> QED
    BY <1>2, <2>1, <2>8, <2>9, <2>10, NodeResolved
<1> QED
  BY <1>12, <1>13, <1>14, <1>15, <1>16

-----------------------------------------------------------------------------
(* A switch gives its cases their numbers.                                 *)

United(m, k) == UNION {m[j] : j \in 1 .. k}

LEMMA JoinedLaid ==
  ASSUME NEW L \in Nat, NEW ss, NEW m, NEW D, NEW T,
         \A k \in 1 .. L : Laid(ss[k], m[k], D, T),
         \A j, k \in 1 .. L : j < k => m[j] \cap m[k] = {},
         NEW f, Joined(f, ss, L)
  PROVE  \A k \in 1 .. L : Laid(f[k], United(m, k), D, T)
<1> DEFINE M(k) == United(m, k)
           Bad == {k \in 1 .. L : ~ Laid(f[k], M(k), D, T)}
<1>1. Bad \subseteq Nat
  OBVIOUS
<1>2. ASSUME Bad # {} PROVE FALSE
  <2>1. PICK k \in Bad : \A j \in Bad : k <= j
    <3> HIDE DEF Bad
    <3> QED
      BY <1>1, <1>2, LeastNat
  <2>2. k \in 1 .. L /\ ~ Laid(f[k], M(k), D, T)
    BY <2>1
  <2>3. f[k] = IF k = 1 THEN ss[k] ELSE f[k - 1] \o ss[k]
    BY <2>2 DEF Joined
  <2>4. CASE k = 1
    <3>1. M(k) = m[k]
      BY <2>4 DEF United
    <3> QED
      BY <2>2, <2>3, <2>4, <3>1
  <2>5. CASE k # 1
    <3>0. k - 1 \in 1 .. L /\ ~ (k <= k - 1)
      BY <2>2, <2>5
    <3>1. k - 1 \in 1 .. L /\ k - 1 \notin Bad
      <4> HIDE DEF Bad
      <4> QED
        BY <2>1, <3>0
    <3>2. Laid(f[k - 1], M(k - 1), D, T) /\ Laid(ss[k], m[k], D, T)
      BY <2>2, <3>1
    <3>3. \A j : j \in 1 .. k <=> j \in 1 .. k - 1 \/ j = k
      BY <2>2, <2>5
    <3>4. M(k) = M(k - 1) \cup m[k]
      BY <3>3 DEF United
    <3>5. M(k - 1) \cap m[k] = {}
      BY <2>2 DEF United
    <3> HIDE DEF M
    <3>6. Laid(f[k - 1] \o ss[k], M(k), D, T)
      BY <3>2, <3>4, <3>5, LaidWith
    <3> QED
      BY <2>2, <2>3, <2>5, <3>6
  <2> QED
    BY <2>4, <2>5
<1> QED
  BY <1>2

LEMMA FlattenLaid ==
  ASSUME NEW S, NEW ss \in Seq(S), NEW m, NEW D, NEW T,
         \A k \in 1 .. Len(ss) : Laid(ss[k], m[k], D, T),
         \A j, k \in 1 .. Len(ss) : j < k => m[j] \cap m[k] = {}
  PROVE  Laid(FlattenSeq(ss), United(m, Len(ss)), D, T)
<1> DEFINE L == Len(ss)
           P(f) == f = [i \in 1 .. L |-> IF i = 1 THEN ss[i] ELSE f[i - 1] \o ss[i]]
           flatten == CHOOSE f : P(f)
           M(k) == United(m, k)
<1>1. L \in Nat
  OBVIOUS
<1>2. CASE L = 0
  <2>1. FlattenSeq(ss) = ss /\ ss = <<>>
    BY <1>2 DEF FlattenSeq
  <2>2. M(L) = {}
    BY <1>2 DEF United
  <2> HIDE DEF M
  <2>3. Laid(FlattenSeq(ss), M(L), D, T)
    BY <2>1, <2>2, LaidNothing
  <2> QED
    BY <2>3 DEF M
<1>3. CASE L # 0
  <2>1. FlattenSeq(ss) = flatten[L]
    BY <1>3 DEF FlattenSeq
  <2>2. \A f : P(f) <=> Joined(f, ss, L)
    BY DEF Joined
  <2>3. \E f : P(f)
    <3> HIDE DEF P, L
    <3> QED
      BY <1>1, <2>2, JoinedExists
  <2>4. P(flatten)
    <3> HIDE DEF P
    <3> QED
      BY <2>3
  <2>5. Joined(flatten, ss, L)
    <3> HIDE DEF P, flatten
    <3> QED
      BY <2>2, <2>4
  <2> HIDE DEF flatten, P
  <2>6. \A k \in 1 .. L : Laid(flatten[k], M(k), D, T)
    <3>1. /\ \A k \in 1 .. L : Laid(ss[k], m[k], D, T)
          /\ \A j, k \in 1 .. L : j < k => m[j] \cap m[k] = {}
      OBVIOUS
    <3> HIDE DEF L
    <3>2. \A k \in 1 .. L : Laid(flatten[k], United(m, k), D, T)
      BY <1>1, <2>5, <3>1, JoinedLaid
    <3> QED
      BY <3>2
  <2> HIDE DEF M
  <2>7. Laid(FlattenSeq(ss), M(L), D, T)
    BY <1>1, <1>3, <2>1, <2>6
  <2> QED
    BY <2>7 DEF M
<1> QED
  BY <1>2, <1>3

\* The same when the sequences define nothing.
LEMMA FlattenPlain ==
  ASSUME NEW S, NEW ss \in Seq(S), NEW D, NEW T, \A k \in 1 .. Len(ss) : Laid(ss[k], {}, D, T)
  PROVE  Laid(FlattenSeq(ss), {}, D, T)
<1> DEFINE m == [k \in 1 .. Len(ss) |-> {}]
<1>1. \A k \in 1 .. Len(ss) : m[k] = {}
  OBVIOUS
<1>2. United(m, Len(ss)) = {}
  BY <1>1 DEF United
<1> HIDE DEF m
<1>3. Laid(FlattenSeq(ss), United(m, Len(ss)), D, T)
  BY <1>1, FlattenLaid
<1> QED
  BY <1>2, <1>3

\* The list of a switch holds the cases in its body, each once.
LEMMA AllCases ==
  ASSUME NEW n \in Nodes, n.kind = "ND_SWITCH", NEW all, all = all_cases(n)
  PROVE  /\ n.case_next \in Seq(Nodes)
         /\ Len(all) \in Nat /\ DOMAIN all = 1 .. Len(all)
         /\ {all[i].id : i \in DOMAIN all} = OwnCases[n.then]
         /\ \A i, j \in DOMAIN all : all[i].id = all[j].id => i = j
         /\ \A i \in DOMAIN n.case_next : n.case_next[i].id \in OwnCases[n.then]
         /\ n.default_case # Null => n.default_case.id \in OwnCases[n.then]
<1> DEFINE s == n.case_next
           d == n.default_case
           I == OwnCases[n.then]
<1>1. s \in Seq(Nodes)
  BY NodeParts
<1>2. {all[i].id : i \in DOMAIN all} = I /\ \A i, j \in DOMAIN all : all[i].id = all[j].id => i = j
  BY LabelsAssumption
<1>3. all = IF d = Null THEN s ELSE Append(s, d)
  BY DEF all_cases
<1> HIDE DEF s, d, I
<1>4. s \in Seq(Nodes \cup {d})
  BY <1>1
<1>5. /\ all \in Seq(Nodes \cup {d})
      /\ \A i \in DOMAIN s : i \in DOMAIN all /\ all[i] = s[i]
      /\ d # Null => \E i \in DOMAIN all : all[i] = d
  <2>1. CASE d = Null
    BY <1>3, <1>4, <2>1
  <2>2. CASE d # Null
    <3>1. all = Append(s, d)
      BY <1>3, <2>2
    <3>2. /\ all \in Seq(Nodes \cup {d}) /\ Len(all) = Len(s) + 1
          /\ \A i \in 1 .. Len(s) : all[i] = s[i]
          /\ all[Len(s) + 1] = d
      BY <1>4, <3>1
    <3>3. Len(s) \in Nat /\ DOMAIN s = 1 .. Len(s) /\ DOMAIN all = 1 .. Len(s) + 1
      BY <1>4, <3>2
    <3>4. Len(s) + 1 \in DOMAIN all
      BY <3>3
    <3> QED
      BY <3>2, <3>3, <3>4
  <2> QED
    BY <2>1, <2>2
<1>6. \A i \in DOMAIN all : all[i].id \in I
  BY <1>2
<1>7. \A i \in DOMAIN s : s[i].id \in I
  BY <1>5, <1>6
<1>8. d # Null => d.id \in I
  BY <1>5, <1>6
<1>9. Len(all) \in Nat /\ DOMAIN all = 1 .. Len(all)
  BY <1>5
<1> QED
  BY <1>1, <1>2, <1>7, <1>8, <1>9 DEF s, d, I

LEMMA CasesResolved == ASSUME Resolved, StmtSwitchCases PROVE Resolved'
<1>1. At("cases") /\ status = "gen" /\ todo # <<>> /\ Head(todo).do = "cases"
  BY DEF StmtSwitchCases, At
<1>2. PICK M, T : Found(M, T)
  BY <1>1, Finds
<1>3. PICK g : g = case_label'
  OBVIOUS
<1> DEFINE cases == N.case_next
           all == all_cases(N)
           place(c) == CHOOSE i \in DOMAIN all : all[i].id = c
           number(c) == labelseq - 1 + place(c)
           ids == {all[i].id : i \in DOMAIN all}
           test(i) == <<Ins("li a0", <<>>, <<cases[i].val>>, 0),
                        Branch("beq a0", R(-1), "case", number(cases[i].id))>>
           tests == [i \in DOMAIN cases |-> test(i)]
           otherwise == IF N.default_case = Null THEN <<>>
                        ELSE <<Jump("case", number(N.default_case.id))>>
           leave == <<Jump("break", Head(todo).seq)>>
           items == FlattenSeq(tests) \o <<Top(-1)>> \o otherwise \o leave
<1>4. /\ case_label' = [c \in DOMAIN case_label \cup ids |-> IF c \in ids THEN number(c) ELSE case_label[c]]
      /\ labelseq' = labelseq + Len(all)
      /\ todo' = items \o Tail(todo)
      /\ UNCHANGED <<brkseq, contseq, code, status>>
  BY DEF StmtSwitchCases
<1> DEFINE I == OwnCases[N.then]
           U == T \cup NumberLabels(g, I)
           D == DOMAIN g
           m == labelseq + Len(all)
<1>5. Good(todo, M, T, MarksOf(code), TargetsOf(code), case_label, labelseq)
  BY <1>2 DEF Found
<1>6. labelseq \in Nat \ {0} /\ Laid(todo, M, DOMAIN case_label, T)
  BY <1>5 DEF Good
<1>7. Ready(Head(todo), FALSE, DOMAIN case_label, T)
  BY <1>1, <1>6, LaidFirst
<1>8. N \in Nodes /\ N.kind = "ND_SWITCH" /\ <<"break", Head(todo).seq>> \in T
  BY <1>1, <1>7 DEF Ready, Known, Wanted, IsNode, N
<1>9. all = all_cases(N)
  OBVIOUS
<1> HIDE DEF all
<1>16. /\ cases \in Seq(Nodes)
       /\ Len(all) \in Nat /\ DOMAIN all = 1 .. Len(all)
       /\ ids = I
       /\ \A i, j \in DOMAIN all : all[i].id = all[j].id => i = j
       /\ \A i \in DOMAIN cases : cases[i].id \in I
       /\ N.default_case # Null => N.default_case.id \in I
  BY <1>8, <1>9, AllCases
<1>17. \A c \in I : place(c) \in DOMAIN all /\ all[place(c)].id = c
  BY <1>16
<1> HIDE DEF place
<1>18. \A c \in I : number(c) \in labelseq .. m - 1
  BY <1>6, <1>16, <1>17
<1>19. \A c, d \in I : number(c) = number(d) => c = d
  <2> SUFFICES ASSUME NEW c \in I, NEW d \in I, number(c) = number(d) PROVE c = d
    OBVIOUS
  <2>1. place(c) \in Nat /\ place(d) \in Nat
    BY <1>16, <1>17
  <2>2. place(c) = place(d)
    BY <1>6, <2>1
  <2> QED
    BY <1>17, <2>2
<1> HIDE DEF number, I
<1>20. DOMAIN g = DOMAIN case_label \cup I
  BY <1>3, <1>4, <1>16
<1>21. \A c \in I : g[c] = number(c)
  BY <1>3, <1>4, <1>16
<1>22. \A d \in DOMAIN case_label : d \notin I => g[d] = case_label[d]
  BY <1>3, <1>4, <1>16
<1>23. \A c \in I : <<"case", number(c)>> \in U
  BY <1>21 DEF NumberLabels
<1>24. <<"break", Head(todo).seq>> \in U
  BY <1>8
<1> HIDE DEF ids, U, D, cases
<1>25. \A i \in DOMAIN cases : Laid(test(i), {}, D, U)
  <2> SUFFICES ASSUME NEW i \in DOMAIN cases PROVE Laid(test(i), {}, D, U)
    OBVIOUS
  <2> DEFINE x == Ins("li a0", <<>>, <<cases[i].val>>, 0)
             y == Branch("beq a0", R(-1), "case", number(cases[i].id))
  <2>1. Laid(<<x>>, {}, D, U)
    BY InsLaid DEF IsJump
  <2>2. <<"case", number(cases[i].id)>> \in U
    BY <1>16, <1>23
  <2>3. Laid(<<y>>, {}, D, U)
    BY <2>2, GoLaid
  <2> HIDE DEF x, y
  <2>4. Laid(<<x, y>>, {}, D, U)
    BY <2>1, <2>3, PairNone
  <2> QED
    BY <2>4 DEF x, y
<1> HIDE DEF test
<1>26. tests \in Seq({test(i) : i \in DOMAIN cases}) /\ Len(tests) = Len(cases)
  BY <1>16
<1>27. \A i \in 1 .. Len(tests) : i \in DOMAIN cases /\ tests[i] = test(i)
  BY <1>16, <1>26
<1>28. Laid(<<Top(-1)>>, {}, D, U) /\ Laid(leave, {}, D, U)
  BY <1>24, TopLaid, GoLaid
<1>29. Laid(otherwise, {}, D, U)
  <2>1. CASE N.default_case = Null
    BY <2>1, LaidNothing
  <2>2. CASE N.default_case # Null
    <3>1. <<"case", number(N.default_case.id)>> \in U
      BY <1>16, <1>23, <2>2
    <3>2. Laid(<<Jump("case", number(N.default_case.id))>>, {}, D, U)
      BY <3>1, GoLaid
    <3> QED
      BY <2>2, <3>2
  <2> QED
    BY <2>1, <2>2
<1> HIDE DEF tests, otherwise, leave
<1>30. Laid(FlattenSeq(tests), {}, D, U)
  BY <1>25, <1>26, <1>27, FlattenPlain
<1>31. Laid(FlattenSeq(tests) \o <<Top(-1)>>, {}, D, U)
  BY <1>28, <1>30, LaidBehind
<1>32. Laid(FlattenSeq(tests) \o <<Top(-1)>> \o otherwise, {}, D, U)
  BY <1>29, <1>31, LaidBehind
<1>33. Laid(items, {}, D, U)
  BY <1>28, <1>32, LaidBehind
<1>34. m \in Nat /\ m >= labelseq
  BY <1>6, <1>16
<1>35. /\ \A c \in I : g[c] \in labelseq .. m - 1
       /\ \A c, d \in I : g[c] = g[d] => c = d
  BY <1>18, <1>19, <1>21
<1>36. labelseq' = m /\ todo' = items \o Tail(todo)
  BY <1>4
<1> HIDE DEF items, m
<1>37. PICK s : s = todo
  OBVIOUS
<1>38. PICK q : q = labelseq
  OBVIOUS
<1>39. PICK f : f = case_label
  OBVIOUS
<1>40. PICK C : C = MarksOf(code)
  OBVIOUS
<1>41. PICK J : J = TargetsOf(code)
  OBVIOUS
<1>48. PICK c : c = items
  OBVIOUS
<1>49. PICK w : w = m
  OBVIOUS
<1>50. PICK H : H = I
  OBVIOUS
<1>51. PICK V : V = U
  OBVIOUS
<1>42. Good(s, M, T, C, J, f, q) /\ s # <<>> /\ Head(s).do = "cases"
  BY <1>1, <1>5, <1>37, <1>38, <1>39, <1>40, <1>41
<1>52. H = OwnCases[Head(s).n.then]
  BY <1>37, <1>50 DEF I, N
<1>53. V = T \cup NumberLabels(g, H)
  BY <1>50, <1>51 DEF U
<1>43. Renumbers(g, f, H, q, w)
  BY <1>20, <1>22, <1>34, <1>35, <1>38, <1>39, <1>49, <1>50 DEF Renumbers
<1>44. Laid(c, {}, DOMAIN g, V)
  BY <1>33, <1>48, <1>51 DEF D
<1>45. Good(c \o Tail(s), M, V, C, J, g, w)
  BY <1>42, <1>43, <1>44, <1>52, <1>53, GoodCases
<1>46. Good(todo', M, V, MarksOf(code'), TargetsOf(code'), case_label', labelseq')
  BY <1>3, <1>4, <1>36, <1>37, <1>40, <1>41, <1>45, <1>48, <1>49
<1>47. LoopLabels(brkseq', contseq') \subseteq V
  BY <1>2, <1>4, <1>53 DEF Found
<1> QED
  BY <1>1, <1>2, <1>4, <1>46, <1>47 DEF Resolved, Found

-----------------------------------------------------------------------------
(* The body of a function.                                                 *)

LEMMA InitResolved == Init => Resolved
<1> SUFFICES ASSUME Init PROVE Resolved
  OBVIOUS
<1>1. /\ fn \in Programs /\ todo = FlattenSeq([i \in DOMAIN fn |-> <<Stmt(fn[i]), AssertTop>>])
      /\ labelseq = 1 /\ brkseq = 0 /\ contseq = 0 /\ case_label = <<>> /\ code = <<>> /\ status = "gen"
  BY DEF Init
<1>2. PICK b : b = fn
  OBVIOUS
<1>3. b \in Programs /\ b \in Seq(Nodes) /\ DOMAIN b = 1 .. Len(b)
  BY <1>1, <1>2, NodesAssumption
<1> DEFINE T == {<<l, 0>> : l \in UNION {Labels[b[j]] : j \in DOMAIN b}}
           D == {}
           item(i) == <<Stmt(b[i]), AssertTop>>
           items == [i \in DOMAIN b |-> item(i)]
           m == [i \in 1 .. Len(b) |-> Owned(b[i])]
           M == United(m, Len(b))
<1>4. /\ Apart(b)
      /\ \A i \in DOMAIN b :
            /\ "return" \notin Labels[b[i]] /\ OwnCases[b[i]] = {}
            /\ Gotos[b[i]] \subseteq UNION {Labels[b[j]] : j \in DOMAIN b}
  BY <1>3, LabelsAssumption
<1>5. \A i \in 1 .. Len(b) : b[i] \in Nodes /\ Fit(b[i], D, T)
  BY <1>3, <1>4 DEF Fit
<1>6. \A l : l \in T <=> \E j \in 1 .. Len(b) : \E x \in Labels[b[j]] : l = <<x, 0>>
  BY <1>3
<1> HIDE DEF T, D
<1>7. \A i \in 1 .. Len(b) : Laid(item(i), Owned(b[i]), D, T)
  <2> SUFFICES ASSUME NEW i \in 1 .. Len(b) PROVE Laid(item(i), Owned(b[i]), D, T)
    OBVIOUS
  <2> DEFINE x == Stmt(b[i])
             y == AssertTop
  <2>1. Laid(<<x>>, Owned(b[i]), D, T) /\ Laid(<<y>>, {}, D, T)
    BY <1>5, NodeLaid, AssertLaid
  <2> HIDE DEF x, y
  <2>2. Laid(<<x, y>>, Owned(b[i]), D, T)
    BY <2>1, PairFirst
  <2> QED
    BY <2>2 DEF x, y
<1>8. \A j, k \in 1 .. Len(b) : j < k => Owned(b[j]) \cap Owned(b[k]) = {}
  BY <1>3, <1>4, OwnedApart DEF Apart
<1>9. \A k \in 1 .. Len(b) : m[k] = Owned(b[k])
  OBVIOUS
<1> HIDE DEF item, m
<1>10. items \in Seq({item(i) : i \in DOMAIN b}) /\ Len(items) = Len(b)
  BY <1>3
<1>11. \A i \in 1 .. Len(items) : items[i] = item(i)
  BY <1>3, <1>10
<1>12. todo = FlattenSeq(items)
  BY <1>1, <1>2 DEF item
<1> HIDE DEF items
<1>13. /\ \A k \in 1 .. Len(items) : Laid(items[k], m[k], D, T)
       /\ \A j, k \in 1 .. Len(items) : j < k => m[j] \cap m[k] = {}
  BY <1>7, <1>8, <1>9, <1>10, <1>11
<1>14. Laid(todo, M, D, T)
  <2>1. Laid(FlattenSeq(items), United(m, Len(items)), D, T)
    BY <1>10, <1>13, FlattenLaid
  <2> QED
    BY <1>10, <1>12, <2>1
<1>15. \A x : x \in M <=> \E k \in 1 .. Len(b) : x \in Owned(b[k])
  BY <1>9 DEF United
<1> HIDE DEF M
<1>16. ASSUME NEW l, Lab(l) \in M PROVE l # <<"return", 0>> /\ l[2] \in 0 .. 1 - 1
  <2>1. PICK k \in 1 .. Len(b) : Lab(l) \in Owned(b[k])
    BY <1>15, <1>16
  <2>2. PICK x \in Labels[b[k]] : Lab(l) = Lab(<<x, 0>>)
    BY <2>1, Distinct DEF Owned
  <2>3. l = <<x, 0>>
    BY <2>2, Distinct
  <2>4. x # "return"
    BY <1>3, <1>4
  <2> QED
    BY <2>3, <2>4
<1>17. ASSUME NEW l \in T PROVE Lab(l) \in M
  <2>1. PICK j \in 1 .. Len(b) : \E x \in Labels[b[j]] : l = <<x, 0>>
    BY <1>6
  <2>2. Lab(l) \in Owned(b[j])
    BY <2>1 DEF Owned
  <2> QED
    BY <1>15, <2>2
<1>18. PICK f : f = case_label /\ DOMAIN f = {}
  BY <1>1
<1>19. MarksOf(code) = {} /\ TargetsOf(code) = {} /\ Once(code) /\ code \in Seq({})
  BY <1>1 DEF MarksOf, TargetsOf, Once
<1>20. Numbered(M, f, 1)
  BY <1>16, <1>18 DEF Numbered
<1>21. \A l \in T : Has(M, f, l)
  BY <1>17 DEF Has
<1>22. Good(todo, M, T, {}, {}, f, 1)
  <2>1. M \cup {} = M /\ DOMAIN f = D
    BY <1>18 DEF D
  <2> QED
    BY <1>14, <1>20, <1>21, <2>1 DEF Good
<1>23. LoopLabels(brkseq, contseq) \subseteq T
  BY <1>1 DEF LoopLabels
<1>24. Good(todo, M, T, MarksOf(code), TargetsOf(code), case_label, labelseq)
  BY <1>1, <1>18, <1>19, <1>22
<1> QED
  BY <1>1, <1>19, <1>23, <1>24 DEF Resolved

LEMMA ResolvedPlaces == Resolved => JumpsResolved
<1> SUFFICES ASSUME Resolved PROVE JumpsResolved
  OBVIOUS
<1>1. ASSUME NEW k \in DOMAIN code, code[k].op = "label" PROVE Places(code[k].arg) = {k}
  BY <1>1 DEF Resolved, Once, Places
<1>2. ASSUME status = "done", NEW l \in Targets PROVE Places(l) # {}
  <2>1. l \in TargetsOf(code)
    BY <1>2 DEF Targets, TargetsOf, IsJump
  <2>2. Lab(l) \in MarksOf(code)
    BY <1>2, <2>1 DEF Resolved
  <2>3. PICK k \in DOMAIN code : code[k].op = "label" /\ Lab(code[k].arg) = Lab(l)
    BY <2>2 DEF MarksOf
  <2>4. code[k].arg = l
    BY <2>3, Distinct
  <2> QED
    BY <2>3, <2>4 DEF Places
<1> QED
  BY <1>1, <1>2 DEF JumpsResolved

(***************************************************************************)
(* Whatever the body is made of, every label codegen writes is written     *)
(* once, and once the function is generated every jump has its label: the  *)
(* numbers labelseq gives to if, loops, ?:, && and ||, those the cases of  *)
(* a switch get before its body is generated, break and continue by        *)
(* brkseq and contseq, the labels a program names, and return (gen_stmt    *)
(* and gen_expr, codegen.c).                                               *)
(***************************************************************************)
THEOREM LabelsResolved == Spec => []JumpsResolved
<1>1. Resolved /\ [Next]_vars => Resolved'
  <2> SUFFICES ASSUME Resolved, [Next]_vars PROVE Resolved'
    OBVIOUS
  <2>1. CASE GenExpr
    BY <2>1, ExprPlainResolved, ExprLabelledResolved DEF GenExpr
  <2>2. CASE GenStmt
    BY <2>2, StmtPlainResolved, StmtLabelledResolved, CaseResolved, CasesResolved DEF GenStmt
  <2>3. CASE UNCHANGED vars
    BY <2>3 DEF vars, Resolved
  <2> QED
    BY <2>1, <2>2, <2>3, AddrResolved, EmitResolved, MarkResolved, FinishResolved DEF Next
<1> QED
  BY InitResolved, ResolvedPlaces, <1>1, PTL DEF Spec
=============================================================================

-------------------------- MODULE TokenizerProofs --------------------------
(***************************************************************************)
(* The text in the buffer of read_file() is terminated, for every file,    *)
(* every division of it into reads and every size of the first buffer.     *)
(* While the file is read there is room for two characters more (Room);    *)
(* then a NUL stands at or behind p until splicing has reached it          *)
(* (Ahead), because the splicing never overtakes p, the newlines it still  *)
(* owes included (Behind).                                                 *)
(*                                                                         *)
(* Where no file ends in a spliced line, two more invariants say what the  *)
(* text and the tokens are.  Content: a character copied has, by the       *)
(* newlines before it in the text, the line of the file on which its       *)
(* logical line began; newlines copied and newlines owed are together      *)
(* those of the file behind; and the spliced text ends in a newline and a  *)
(* NUL.  So every token and comment ends within the text.  Cutting, Whole  *)
(* and Numbering: the tokens are in their order, the marks are what a      *)
(* reader of single characters knows (Exact, Marked), and the tokens       *)
(* behind have the count of the newlines before them.                      *)
(***************************************************************************)
EXTENDS Tokenizer, SequenceTheorems, FiniteSetTheorems, WellFoundedInduction, TLAPS

\* A function on 1 .. n is a sequence of length n.
LEMMA FunctionIsSeq ==
  ASSUME NEW k \in Nat, NEW S, NEW f \in [1 .. k -> S]
  PROVE  f \in Seq(S) /\ Len(f) = k
OBVIOUS

Cells == Chars \cup {Nul, Junk}

BufferOK ==
  /\ phase \in {"read", "splice", "tokenize", "number", "done", "error"}
  /\ file \in Seq(Chars) /\ buf \in Seq(Cells)
  /\ given \in Nat /\ nread \in Nat /\ q \in Nat /\ n \in Nat
  /\ phase \in {"read", "splice"} => p \in Nat

Room == phase = "read" => nread + 2 < Len(buf) /\ p = 1 /\ q = 1 /\ n = 0

Behind == phase = "splice" => 1 <= q /\ q + n + n <= p

Ahead == phase = "splice" => \E i \in DOMAIN buf : p <= i /\ buf[i] = Nul

IInv == BufferOK /\ Room /\ Behind /\ Ahead /\ NulTerminated
-----------------------------------------------------------------------------
\* A buffer whose cells change keeps its length.
LEMMA Rewritten ==
  ASSUME NEW b \in Seq(Cells), NEW c, DOMAIN c = DOMAIN b,
         c = [i \in DOMAIN b |-> c[i]], \A i \in DOMAIN b : c[i] \in Cells
  PROVE  c \in Seq(Cells) /\ Len(c) = Len(b)
  <1>1. Len(b) \in Nat /\ DOMAIN b = 1 .. Len(b)
    OBVIOUS
  <1>2. c \in [1 .. Len(b) -> Cells]
    BY <1>1
  <1>. QED BY <1>1, <1>2, FunctionIsSeq

LEMMA PutCell ==
  ASSUME NEW b \in Seq(Cells), NEW i \in Nat, NEW x \in Cells
  PROVE  /\ Put(b, i, x) \in Seq(Cells) /\ Len(Put(b, i, x)) = Len(b)
         /\ i \in DOMAIN b => Put(b, i, x)[i] = x
         /\ \A j \in DOMAIN b : j # i => Put(b, i, x)[j] = b[j]
  BY DEF Put

\* A full buffer grows to twice its size (read_file, tokenize.c:683).
LEMMA GrownBuffer ==
  ASSUME NEW b \in Seq(Cells), NEW k \in Nat, k + 2 <= Len(b)
  PROVE  Grown(b, k) \in Seq(Cells) /\ k + 2 < Len(Grown(b, k))
  <1>1. Junks(Len(b)) \in Seq(Cells) /\ Len(Junks(Len(b))) = Len(b)
    <2>1. Junks(Len(b)) \in [1 .. Len(b) -> Cells] /\ Len(b) \in Nat
      BY DEF Junks, Cells
    <2>. QED BY <2>1, FunctionIsSeq
  <1>2. CASE k = End(b)
    <2>1. Grown(b, k) = b \o Junks(Len(b))
      BY <1>2 DEF Grown
    <2>2. b \o Junks(Len(b)) \in Seq(Cells) /\ Len(b \o Junks(Len(b))) = Len(b) + Len(b)
      BY <1>1
    <2>. QED BY <2>1, <2>2
  <1>3. CASE k # End(b)
    BY <1>3 DEF Grown, End
  <1>. QED BY <1>2, <1>3

LEMMA InitIInv == Init => IInv
  <1>. SUFFICES ASSUME Init
                PROVE  IInv
    OBVIOUS
  <1>1. Junks(InitialBuffer) \in Seq(Cells) /\ Len(Junks(InitialBuffer)) = InitialBuffer
    <2>1. Junks(InitialBuffer) \in [1 .. InitialBuffer -> Cells] /\ InitialBuffer \in Nat
      BY TokenizerAssumption DEF Junks, Cells
    <2>. QED BY <2>1, FunctionIsSeq
  <1>2. file \in Seq(Chars) /\ 3 <= InitialBuffer /\ InitialBuffer \in Nat
    BY TokenizerAssumption DEF Init
  <1>3. BufferOK
    BY <1>1, <1>2 DEF Init, BufferOK
  <1>4. Room
    BY <1>1, <1>2 DEF Init, Room
  <1>. QED BY <1>3, <1>4 DEF Init, IInv, Behind, Ahead, NulTerminated

LEMMA ReadStep ==
  ASSUME IInv, Read
  PROVE  IInv'
  <1>1. PICK k \in 1 .. Smaller(End(buf) - nread, Len(file) - given) :
          /\ given' = given + k /\ nread' = nread + k
          /\ buf' = Grown([i \in DOMAIN buf |-> IF i \in nread + 1 .. nread + k
                                                THEN file[given + i - nread] ELSE buf[i]],
                          nread + k)
    BY DEF Read
  <1>2. /\ buf \in Seq(Cells) /\ Len(buf) \in Nat /\ file \in Seq(Chars) /\ Len(file) \in Nat
        /\ nread \in Nat /\ given \in Nat /\ phase = "read" /\ nread + 2 < Len(buf)
    BY DEF IInv, BufferOK, Room, Read
  <1>3. k \in Nat /\ k <= Len(buf) - 2 - nread /\ k <= Len(file) - given
    <2>1. Smaller(End(buf) - nread, Len(file) - given) <= End(buf) - nread
          /\ Smaller(End(buf) - nread, Len(file) - given) <= Len(file) - given
          /\ Smaller(End(buf) - nread, Len(file) - given) \in Int
      BY <1>2 DEF Smaller, End
    <2>. QED BY <1>2, <2>1 DEF End
  <1>. DEFINE filled == [i \in DOMAIN buf |-> IF i \in nread + 1 .. nread + k
                                              THEN file[given + i - nread] ELSE buf[i]]
  <1>4. filled \in Seq(Cells) /\ Len(filled) = Len(buf)
    <2>1. ASSUME NEW i \in DOMAIN buf
          PROVE  filled[i] \in Cells
      <3>1. CASE i \in nread + 1 .. nread + k
        <4>1. given + i - nread \in 1 .. Len(file)
          BY <1>2, <1>3, <3>1
        <4>2. file[given + i - nread] \in Chars
          BY <1>2, <4>1
        <4>. QED BY <3>1, <4>2 DEF Cells
      <3>2. CASE i \notin nread + 1 .. nread + k
        BY <1>2, <3>2
      <3>. QED BY <3>1, <3>2
    <2>2. DOMAIN filled = DOMAIN buf /\ filled = [i \in DOMAIN buf |-> filled[i]]
      OBVIOUS
    <2>. HIDE DEF filled
    <2>. QED BY <1>2, <2>1, <2>2, Rewritten
  <1>5. buf' \in Seq(Cells) /\ nread' + 2 < Len(buf')
    <2>1. buf' = Grown(filled, nread + k) /\ nread' = nread + k
      BY <1>1
    <2>. HIDE DEF filled
    <2>2. nread + k \in Nat /\ nread + k + 2 <= Len(filled)
      BY <1>2, <1>3, <1>4
    <2>. QED BY <1>4, <2>1, <2>2, GrownBuffer
  <1>6. /\ phase' = phase /\ file' = file /\ p' = p /\ q' = q /\ n' = n
        /\ given' \in Nat /\ nread' \in Nat
    BY <1>1, <1>2, <1>3 DEF Read
  <1>7. BufferOK'
    BY <1>2, <1>5, <1>6 DEF IInv, BufferOK
  <1>8. Room'
    BY <1>2, <1>5, <1>6 DEF IInv, Room
  <1>. QED BY <1>2, <1>6, <1>7, <1>8 DEF IInv, Behind, Ahead, NulTerminated

\* The newline and the NUL have room (read_file, tokenize.c:693).
LEMMA EndOfFileStep ==
  ASSUME IInv, EndOfFile
  PROVE  IInv'
  <1>. DEFINE open == nread = 0 \/ buf[nread] # "nl"
              closed == IF open THEN Put(buf, nread + 1, "nl") ELSE buf
  <1>1. /\ buf \in Seq(Cells) /\ Len(buf) \in Nat /\ nread \in Nat
        /\ nread + 2 < Len(buf) /\ p = 1 /\ q = 1 /\ n = 0
    BY DEF IInv, BufferOK, Room, EndOfFile
  <1>2. /\ nread' = IF open THEN nread + 1 ELSE nread
        /\ buf' = Put(closed, nread' + 1, Nul)
        /\ phase' = "splice" /\ p' = p /\ q' = q /\ n' = n /\ file' = file /\ given' = given
    BY DEF EndOfFile
  <1>3. closed \in Seq(Cells) /\ Len(closed) = Len(buf)
    <2>1. CASE open
      BY <1>1, <2>1, PutCell DEF Cells, Chars
    <2>2. CASE ~open
      BY <1>1, <2>2
    <2>. QED BY <2>1, <2>2
  <1>4. nread' \in Nat /\ nread' + 1 \in Nat /\ nread' + 1 \in 1 .. Len(buf)
    BY <1>1, <1>2
  <1>. HIDE DEF closed
  <1>5. /\ buf' \in Seq(Cells) /\ Len(buf') = Len(buf) /\ buf'[nread' + 1] = Nul
    <2>1. DOMAIN closed = 1 .. Len(buf)
      BY <1>3
    <2>2. Nul \in Cells
      BY DEF Cells
    <2>3. nread' + 1 \in DOMAIN closed
      BY <1>4, <2>1, Zenon
    <2>. QED BY <1>2, <1>3, <1>4, <2>2, <2>3, PutCell
  <1>6. nread' + 1 \in DOMAIN buf' /\ p' <= nread' + 1
    BY <1>1, <1>2, <1>4, <1>5
  <1>7. BufferOK'
    BY <1>1, <1>2, <1>4, <1>5 DEF IInv, BufferOK
  <1>8. Room' /\ Behind'
    BY <1>1, <1>2 DEF Room, Behind
  <1>9. Ahead' /\ NulTerminated'
    BY <1>5, <1>6 DEF Ahead, NulTerminated
  <1>. QED BY <1>7, <1>8, <1>9 DEF IInv

\* What is read at p is in front of the NUL (remove_backslash_newline,
\* tokenize.c:716).
LEMMA AheadOf ==
  ASSUME IInv, phase = "splice"
  PROVE  \E i \in DOMAIN buf :
           /\ p <= i /\ buf[i] = Nul /\ i \in Nat
           /\ At(p) # Nul => p < i
           /\ Spliced => p + 1 < i
  <1>1. PICK i \in DOMAIN buf : p <= i /\ buf[i] = Nul
    BY DEF IInv, Ahead
  <1>2. i \in Nat /\ i \in 1 .. Len(buf) /\ p \in Nat /\ p >= 1 /\ q \in Nat /\ n \in Nat
    BY <1>1 DEF IInv, BufferOK, Behind
  <1>3. At(p) # Nul => p < i
    BY <1>1, <1>2 DEF At
  <1>4. Spliced => At(p) = "bs" /\ At(p + 1) = "nl"
    <2>. SUFFICES ASSUME Spliced
                  PROVE  At(p) = "bs" /\ At(p + 1) = "nl"
      OBVIOUS
    <2>1. \A k \in 1 .. 2 : At(p + k - 1) = <<"bs", "nl">>[k]
      BY DEF Spliced, StartsWith
    <2>2. At(p + 1 - 1) = "bs" /\ At(p + 2 - 1) = "nl" /\ p + 1 - 1 = p /\ p + 2 - 1 = p + 1
      BY <1>2, <2>1
    <2>. QED BY <2>2
  <1>5. Spliced => p + 1 < i
    BY <1>1, <1>2, <1>3, <1>4 DEF At, Nul
  <1>. QED BY <1>1, <1>2, <1>3, <1>5

LEMMA SpliceStep ==
  ASSUME IInv, Splice
  PROVE  IInv'
  <1>1. PICK i \in DOMAIN buf : p + 1 < i /\ buf[i] = Nul /\ i \in Nat
    BY AheadOf DEF Splice
  <1>2. /\ p' = p + 2 /\ n' = n + 1 /\ q' = q /\ phase' = phase /\ phase = "splice"
        /\ buf' = buf /\ file' = file /\ given' = given /\ nread' = nread
    BY DEF Splice, readVars
  <1>3. BufferOK'
    BY <1>2 DEF IInv, BufferOK
  <1>4. Room' /\ Behind'
    BY <1>2 DEF IInv, BufferOK, Room, Behind
  <1>5. p + 2 <= i
    BY <1>1, <1>2 DEF IInv, BufferOK
  <1>6. Ahead' /\ NulTerminated'
    BY <1>1, <1>2, <1>5 DEF Ahead, NulTerminated
  <1>. QED BY <1>3, <1>4, <1>6 DEF IInv

LEMMA EndLineStep ==
  ASSUME IInv, EndLine
  PROVE  IInv'
  <1>1. /\ p' = p + 1 /\ q' = q + n + 1 /\ n' = 0 /\ phase' = phase /\ phase = "splice"
        /\ buf' = [i \in DOMAIN buf |-> IF i \in q .. q + n THEN "nl" ELSE buf[i]]
        /\ file' = file /\ given' = given /\ nread' = nread /\ At(p) = "nl"
    BY DEF EndLine, readVars
  <1>2. PICK i \in DOMAIN buf : p < i /\ buf[i] = Nul /\ i \in Nat
    BY <1>1, AheadOf DEF Nul
  <1>3. /\ buf \in Seq(Cells) /\ p \in Nat /\ q \in Nat /\ n \in Nat
        /\ 1 <= q /\ q + n + n <= p
    BY <1>1 DEF IInv, BufferOK, Behind
  <1>4. buf' \in Seq(Cells) /\ Len(buf') = Len(buf)
    <2>1. DOMAIN buf' = DOMAIN buf /\ buf' = [j \in DOMAIN buf |-> buf'[j]]
      BY <1>1
    <2>2. \A j \in DOMAIN buf : buf'[j] \in Cells
      BY <1>1, <1>3 DEF Cells, Chars
    <2>. QED BY <1>3, <2>1, <2>2, Rewritten
  <1>5. buf'[i] = Nul /\ i \in DOMAIN buf' /\ p' <= i
    BY <1>1, <1>2, <1>3
  <1>6. BufferOK'
    BY <1>1, <1>3, <1>4 DEF IInv, BufferOK
  <1>7. Room' /\ Behind'
    BY <1>1, <1>3 DEF Room, Behind
  <1>8. Ahead' /\ NulTerminated'
    BY <1>5 DEF Ahead, NulTerminated
  <1>. QED BY <1>6, <1>7, <1>8 DEF IInv

LEMMA CopyCharStep ==
  ASSUME IInv, CopyChar
  PROVE  IInv'
  <1>1. /\ p' = p + 1 /\ q' = q + 1 /\ n' = n /\ phase' = phase /\ phase = "splice"
        /\ buf' = Put(buf, q, At(p)) /\ At(p) # Nul
        /\ file' = file /\ given' = given /\ nread' = nread
    BY DEF CopyChar, readVars
  <1>2. PICK i \in DOMAIN buf : p < i /\ buf[i] = Nul /\ i \in Nat
    BY <1>1, AheadOf
  <1>3. /\ buf \in Seq(Cells) /\ p \in Nat /\ q \in Nat /\ n \in Nat
        /\ 1 <= q /\ q + n + n <= p
    BY <1>1 DEF IInv, BufferOK, Behind
  <1>4. At(p) \in Cells
    BY <1>3 DEF At, Cells
  <1>5. buf' \in Seq(Cells) /\ Len(buf') = Len(buf) /\ i # q /\ buf'[i] = buf[i]
    <2>1. i # q
      BY <1>2, <1>3
    <2>2. /\ Put(buf, q, At(p)) \in Seq(Cells) /\ Len(Put(buf, q, At(p))) = Len(buf)
          /\ \A j \in DOMAIN buf : j # q => Put(buf, q, At(p))[j] = buf[j]
      BY <1>3, <1>4, PutCell
    <2>. QED BY <1>1, <1>2, <2>1, <2>2
  <1>6. buf'[i] = Nul /\ i \in DOMAIN buf' /\ p' <= i
    BY <1>1, <1>2, <1>3, <1>5
  <1>7. BufferOK'
    BY <1>1, <1>3, <1>5 DEF IInv, BufferOK
  <1>8. Room' /\ Behind'
    BY <1>1, <1>3 DEF Room, Behind
  <1>9. Ahead' /\ NulTerminated'
    BY <1>6 DEF Ahead, NulTerminated
  <1>. QED BY <1>7, <1>8, <1>9 DEF IInv

LEMMA EndSpliceStep ==
  ASSUME IInv, EndSplice
  PROVE  IInv'
  <1>1. /\ p' = 1 /\ q' = q /\ n' = n /\ phase' = "tokenize" /\ phase = "splice"
        /\ buf' = Put(buf, q, Nul)
        /\ file' = file /\ given' = given /\ nread' = nread
    BY DEF EndSplice, readVars
  <1>2. PICK i \in DOMAIN buf : p <= i /\ buf[i] = Nul /\ i \in Nat
    BY <1>1, AheadOf
  <1>3. /\ buf \in Seq(Cells) /\ p \in Nat /\ q \in Nat /\ n \in Nat
        /\ 1 <= q /\ q + n + n <= p
    BY <1>1 DEF IInv, BufferOK, Behind
  <1>4. buf' \in Seq(Cells) /\ q \in DOMAIN buf' /\ buf'[q] = Nul
    <2>1. q \in DOMAIN buf /\ Nul \in Cells
      BY <1>2, <1>3 DEF Cells
    <2>. QED BY <1>1, <1>3, <2>1, PutCell
  <1>5. BufferOK'
    BY <1>1, <1>3, <1>4 DEF IInv, BufferOK
  <1>. QED BY <1>1, <1>4, <1>5 DEF IInv, Room, Behind, Ahead, NulTerminated

\* Behind the splicing the buffer does not change.
LEMMA LaterStep ==
  ASSUME IInv, Tokenize \/ NumberLine
  PROVE  IInv'
  <1>1. /\ phase \in {"tokenize", "number"} /\ phase' \in {"tokenize", "number", "done", "error"}
        /\ buf' = buf /\ q' = q /\ n' = n /\ file' = file /\ given' = given /\ nread' = nread
    <2>1. CASE Tokenize
      BY <2>1
         DEF Tokenize, LineComment, BlockComment, NewLine, Space, Number, CharLiteral,
             StringLiteral, Symbol, Identifier, CannotTokenize, EndOfText, SkipTo, Error,
             NewToken, Tokenizing, AtToken, readVars, spliceVars
    <2>2. CASE NumberLine
      BY <2>2 DEF NumberLine, readVars, spliceVars
    <2>. QED BY <2>1, <2>2
  <1>2. BufferOK'
    BY <1>1 DEF IInv, BufferOK
  <1>. QED BY <1>1, <1>2 DEF IInv, Room, Behind, Ahead, NulTerminated

LEMMA NextIInv == IInv /\ [Next]_vars => IInv'
  <1>. SUFFICES ASSUME IInv, [Next]_vars
                PROVE  IInv'
    OBVIOUS
  <1>1. CASE UNCHANGED vars
    BY <1>1 DEF vars, IInv, BufferOK, Room, Behind, Ahead, NulTerminated
  <1>2. CASE Tokenize \/ NumberLine
    BY <1>2, LaterStep
  <1>. QED BY <1>1, <1>2, ReadStep, EndOfFileStep, SpliceStep, EndLineStep, CopyCharStep,
              EndSpliceStep DEF Next

\* Whatever the file, the reads and the first size of the buffer, the text that
\* is spliced and tokenized is terminated inside of the buffer (read_file,
\* tokenize.c:671; remove_backslash_newline, tokenize.c:707).
THEOREM TextTerminated == Spec => []NulTerminated
  <1>1. IInv => NulTerminated
    BY DEF IInv
  <1>. QED BY InitIInv, NextIInv, <1>1, PTL DEF Spec
-----------------------------------------------------------------------------
(* Counting lines.                                                         *)

\* The newlines among the first i characters
Lines(b, i) == Cardinality({j \in 1 .. i : b[j] = "nl"})

LEMMA LinesTyped ==
  ASSUME NEW b, NEW i \in Int
  PROVE  IsFiniteSet({j \in 1 .. i : b[j] = "nl"}) /\ Lines(b, i) \in Nat
  <1>1. IsFiniteSet(1 .. i)
    BY FS_Interval
  <1>2. IsFiniteSet({j \in 1 .. i : b[j] = "nl"})
    BY <1>1, FS_Subset
  <1>. QED BY <1>2, FS_CardinalityType DEF Lines

LEMMA NoLines ==
  ASSUME NEW b
  PROVE  Lines(b, 0) = 0
  <1>1. {j \in 1 .. 0 : b[j] = "nl"} = {}
    OBVIOUS
  <1>. QED BY <1>1, FS_EmptySet DEF Lines

LEMMA LinesNext ==
  ASSUME NEW b, NEW i \in Nat
  PROVE  Lines(b, i + 1) = IF b[i + 1] = "nl" THEN Lines(b, i) + 1 ELSE Lines(b, i)
  <1>. DEFINE S == {j \in 1 .. i : b[j] = "nl"}
              U == {j \in 1 .. i + 1 : b[j] = "nl"}
  <1>1. IsFiniteSet(S)
    BY LinesTyped
  <1>2. U = IF b[i + 1] = "nl" THEN S \cup {i + 1} ELSE S
    OBVIOUS
  <1>3. i + 1 \notin S
    OBVIOUS
  <1>. HIDE DEF S, U
  <1>4. Cardinality(U) = IF b[i + 1] = "nl" THEN Cardinality(S) + 1 ELSE Cardinality(S)
    BY <1>1, <1>2, <1>3, FS_AddElement
  <1>. QED BY <1>4 DEF S, U, Lines

LEMMA LinesSame ==
  ASSUME NEW b, NEW c, NEW i \in Int, \A j \in 1 .. i : b[j] = c[j]
  PROVE  Lines(b, i) = Lines(c, i)
  <1>1. {j \in 1 .. i : b[j] = "nl"} = {j \in 1 .. i : c[j] = "nl"}
    OBVIOUS
  <1>. QED BY <1>1 DEF Lines

\* Where k newlines follow the first i characters
LEMMA LinesAdded ==
  ASSUME NEW b, NEW i \in Nat, NEW k \in Nat, \A j \in i + 1 .. i + k : b[j] = "nl"
  PROVE  Lines(b, i + k) = Lines(b, i) + k
  <1>. DEFINE S == {j \in 1 .. i : b[j] = "nl"}
              U == {j \in 1 .. i + k : b[j] = "nl"}
              V == i + 1 .. i + k
  <1>1. IsFiniteSet(S) /\ IsFiniteSet({}) /\ Cardinality({}) = 0
    <2>1. IsFiniteSet(S)
      <3>1. i \in Int
        OBVIOUS
      <3>. QED BY <3>1, LinesTyped, Zenon
    <2>. HIDE DEF S
    <2>. QED BY <2>1, FS_EmptySet
  <1>2. IsFiniteSet(V) /\ Cardinality(V) = k
    <2>1. i + 1 \in Int /\ i + k \in Int
      OBVIOUS
    <2>2. IsFiniteSet(V) /\ Cardinality(V) = IF i + 1 > i + k THEN 0 ELSE (i + k) - (i + 1) + 1
      BY <2>1, FS_Interval
    <2>. HIDE DEF V
    <2>. QED BY <2>2
  <1>3. U = S \cup V /\ S \cap V = {}
    OBVIOUS
  <1>4. Cardinality(S) \in Nat
    BY <1>1, FS_CardinalityType
  <1>. HIDE DEF S, U, V
  <1>5. Cardinality(U) = Cardinality(S) + k
    BY <1>1, <1>2, <1>3, <1>4, FS_Union
  <1>. QED BY <1>5 DEF S, U, Lines

LEMMA LeastOf ==
  ASSUME NEW S, S \subseteq Nat, S # {}
  PROVE  \E m \in S : \A k \in S : m <= k
  <1> DEFINE R == {x \in Nat \X Nat : x[1] < x[2]}
  <1>1. IsWellFoundedOn(R, Nat)
    BY NatLessThanWellFounded DEF OpToRel
  <1>2. PICK m \in S : \A k \in S : ~ (<<k, m>> \in R)
    BY <1>1, WFMin
  <1>3. \A k \in S : ~ (k < m)
    BY <1>2
  <1>. QED BY <1>3

LEMMA GreatestOf ==
  ASSUME NEW S, NEW b \in Nat, S \subseteq 0 .. b, S # {}
  PROVE  \E m \in S : \A k \in S : k <= m
  <1>. DEFINE U == {i \in Nat : b - i \in S}
  <1>1. U # {}
    <2>1. PICK k \in S : k \in 0 .. b
      OBVIOUS
    <2>2. b - k \in Nat /\ b - (b - k) = k
      BY <2>1
    <2>. QED BY <2>1, <2>2
  <1>2. U \subseteq Nat
    OBVIOUS
  <1>. HIDE DEF U
  <1>3. PICK i \in U : \A j \in U : i <= j
    BY <1>1, <1>2, LeastOf
  <1>4. i \in Nat /\ b - i \in S
    BY DEF U
  <1>5. ASSUME NEW k \in S
        PROVE  k <= b - i
    <2>1. k \in 0 .. b
      OBVIOUS
    <2>2. b - k \in U
      BY <2>1 DEF U
    <2>. QED BY <1>3, <1>4, <2>1, <2>2
  <1>. QED BY <1>4, <1>5

\* Where a logical line begins: behind one that ended
Start(f, k, s) ==
  /\ s \in {0} \cup {e \in LineEnds(f) : e < k}
  /\ \A e \in LineEnds(f) : e < k => e <= s

LEMMA StartExists ==
  ASSUME NEW S, NEW f \in Seq(S), NEW k \in Nat \ {0}
  PROVE  \E s \in 0 .. k - 1 : Start(f, k, s)
  <1>. DEFINE U == {0} \cup {e \in LineEnds(f) : e < k}
  <1>1. U \subseteq 0 .. k - 1 /\ U # {}
    BY DEF LineEnds
  <1>2. k - 1 \in Nat
    OBVIOUS
  <1>. HIDE DEF U
  <1>3. PICK s \in U : \A e \in U : e <= s
    BY <1>1, <1>2, GreatestOf
  <1>. QED BY <1>1, <1>3 DEF U, Start

LEMMA LineOfStart ==
  ASSUME NEW S, NEW f \in Seq(S), NEW k \in Nat \ {0}, NEW s, Start(f, k, s)
  PROVE  LineOf(f, k) = 1 + Lines(f, s)
  <1>. DEFINE U == {0} \cup {e \in LineEnds(f) : e < k}
              start == CHOOSE x \in U : \A y \in U : y <= x
  <1>1. LineOf(f, k) = 1 + Lines(f, start)
    BY DEF LineOf, Lines
  <1>2. U \subseteq 0 .. k - 1
    BY DEF LineEnds
  <1>3. s \in U /\ \A y \in U : y <= s
    BY <1>2 DEF Start
  <1>4. start \in U /\ \A y \in U : y <= start
    BY <1>3
  <1>. HIDE DEF U, start
  <1>5. start = s
    BY <1>2, <1>3, <1>4
  <1>. QED BY <1>1, <1>5

LEMMA LineOfNext ==
  ASSUME NEW S, NEW f \in Seq(S), NEW k \in Nat \ {0}
  PROVE  /\ LineOf(f, 1) = 1
         /\ k \in LineEnds(f) => LineOf(f, k + 1) = 1 + Lines(f, k)
         /\ k \notin LineEnds(f) => LineOf(f, k + 1) = LineOf(f, k)
  <1>1. \A e \in LineEnds(f) : e \in Nat \ {0}
    BY DEF LineEnds
  <1>2. LineOf(f, 1) = 1
    <2>1. Start(f, 1, 0)
      BY <1>1 DEF Start
    <2>2. LineOf(f, 1) = 1 + Lines(f, 0)
      BY <2>1, LineOfStart
    <2>. QED BY <2>2, NoLines
  <1>3. ASSUME k \in LineEnds(f)
        PROVE  LineOf(f, k + 1) = 1 + Lines(f, k)
    <2>1. Start(f, k + 1, k)
      BY <1>1, <1>3 DEF Start
    <2>. QED BY <2>1, LineOfStart
  <1>4. ASSUME k \notin LineEnds(f)
        PROVE  LineOf(f, k + 1) = LineOf(f, k)
    <2>1. PICK s \in 0 .. k - 1 : Start(f, k, s)
      BY StartExists
    <2>2. Start(f, k + 1, s)
      BY <1>1, <1>4, <2>1 DEF Start
    <2>3. LineOf(f, k) = 1 + Lines(f, s)
      BY <2>1, LineOfStart
    <2>4. LineOf(f, k + 1) = 1 + Lines(f, s)
      BY <2>2, LineOfStart
    <2>. QED BY <2>3, <2>4
  <1>. QED BY <1>2, <1>3, <1>4
-----------------------------------------------------------------------------
(* What is in the buffer.                                                  *)

Text == Closed(file)

Reading ==
  phase = "read" =>
    /\ nread = given /\ given <= Len(file) /\ origin = <<>>
    /\ \A i \in 1 .. given : buf[i] = file[i]

\* A character copied has the line on which its logical line began.
Copied ==
  /\ origin \in Seq(Nat) /\ Len(origin) = q - 1
  /\ \A i \in 1 .. q - 1 :
       buf[i] # Nul /\ (buf[i] # "nl" => 1 + Lines(buf, i - 1) = LineOf(Text, origin[i]))

Ended == 1 < q /\ buf[q - 1] = "nl"

\* What is left of the text is at its place; n newlines are owed.
Splicing ==
  phase = "splice" =>
    /\ p \in 1 .. Len(Text) + 1 /\ Len(Text) + 1 <= Len(buf)
    /\ \A i \in p .. Len(Text) : buf[i] = Text[i]
    /\ buf[Len(Text) + 1] = Nul
    /\ Copied
    /\ 1 < p /\ p <= Len(Text) => Text[p] # "nl" \/ Text[p - 1] # "bs"
    /\ 1 + Lines(buf, q - 1) = LineOf(Text, p)
    /\ Lines(buf, q - 1) + n = Lines(Text, p - 1)
    /\ p = Len(Text) + 1 => n = 0 /\ Ended

Written ==
  phase \notin {"read", "splice"} => Copied /\ Ended /\ q \in DOMAIN buf /\ buf[q] = Nul

Content == ~ OpenEnding(file) /\ Reading /\ Splicing /\ Written

LEMMA TextIs ==
  ASSUME file \in Seq(Chars)
  PROVE  /\ Text \in Seq(Chars) /\ Len(Text) \in Nat \ {0} /\ Text[Len(Text)] = "nl"
         /\ \A i \in 1 .. Len(Text) : Text[i] \in Chars /\ Text[i] # Nul
         /\ ~ OpenEnding(file) => Len(Text) = 1 \/ Text[Len(Text) - 1] # "bs"
         /\ IF file # <<>> /\ file[Len(file)] = "nl" THEN Text = file ELSE Text = Append(file, "nl")
  <1>1. "nl" \in Chars /\ Nul \notin Chars
    BY DEF Chars, Symbols, Nul
  <1>2. IF file # <<>> /\ file[Len(file)] = "nl" THEN Text = file ELSE Text = Append(file, "nl")
    BY DEF Text, Closed
  <1>3. Text \in Seq(Chars) /\ Len(Text) \in Nat \ {0} /\ Text[Len(Text)] = "nl"
    BY <1>1, <1>2
  <1>4. \A i \in 1 .. Len(Text) : Text[i] \in Chars
    BY <1>3
  <1>5. ~ OpenEnding(file) => ~ (Len(Text) > 1 /\ Text[Len(Text) - 1] = "bs")
    BY DEF OpenEnding, Text
  <1>6. ~ OpenEnding(file) => Len(Text) = 1 \/ Text[Len(Text) - 1] # "bs"
    <2>1. PICK x \in Nat \ {0} : x = Len(Text)
      BY <1>3
    <2>2. x = 1 \/ x > 1
      OBVIOUS
    <2>. QED BY <1>5, <2>1, <2>2
  <1>7. \A i \in 1 .. Len(Text) : Text[i] \in Chars /\ Text[i] # Nul
    BY <1>1, <1>4
  <1>. HIDE DEF Text
  <1>. QED BY <1>2, <1>3, <1>6, <1>7

LEMMA ContentStarts ==
  ASSUME Init, "open_ending" \notin Programs
  PROVE  Content
  <1>1. ~ OpenEnding(file) /\ file \in Seq(Chars)
    BY TokenizerAssumption DEF Init
  <1>2. Reading
    BY <1>1 DEF Init, Reading
  <1>. QED BY <1>1, <1>2 DEF Init, Content, Splicing, Written

LEMMA ContentRead ==
  ASSUME IInv, Content, Read
  PROVE  Content'
  <1>1. PICK k \in 1 .. Smaller(End(buf) - nread, Len(file) - given) :
          /\ given' = given + k /\ nread' = nread + k
          /\ buf' = Grown([i \in DOMAIN buf |-> IF i \in nread + 1 .. nread + k
                                                THEN file[given + i - nread] ELSE buf[i]],
                          nread + k)
    BY DEF Read
  <1>2. /\ buf \in Seq(Cells) /\ Len(buf) \in Nat /\ file \in Seq(Chars) /\ Len(file) \in Nat
        /\ nread \in Nat /\ given \in Nat /\ phase = "read" /\ nread + 2 < Len(buf)
        /\ nread = given /\ given <= Len(file) /\ origin = <<>>
        /\ \A i \in 1 .. given : buf[i] = file[i]
    BY DEF IInv, BufferOK, Room, Read, Content, Reading
  <1>3. k \in Nat /\ k <= Len(buf) - 2 - nread /\ k <= Len(file) - given
    <2>1. Smaller(End(buf) - nread, Len(file) - given) <= End(buf) - nread
          /\ Smaller(End(buf) - nread, Len(file) - given) <= Len(file) - given
          /\ Smaller(End(buf) - nread, Len(file) - given) \in Int
      BY <1>2 DEF Smaller, End
    <2>. QED BY <1>2, <2>1 DEF End
  <1>. DEFINE filled == [i \in DOMAIN buf |-> IF i \in nread + 1 .. nread + k
                                              THEN file[given + i - nread] ELSE buf[i]]
  <1>4. \A i \in 1 .. nread + k : filled[i] = file[i]
    <2>. SUFFICES ASSUME NEW i \in 1 .. nread + k
                  PROVE  filled[i] = file[i]
      OBVIOUS
    <2>1. i \in DOMAIN buf /\ given + i - nread = i
      BY <1>2, <1>3
    <2>. QED BY <1>2, <2>1
  <1>5. filled \in Seq(Cells) /\ Len(filled) = Len(buf)
    <2>1. ASSUME NEW i \in DOMAIN buf
          PROVE  filled[i] \in Cells
      <3>1. CASE i \in nread + 1 .. nread + k
        <4>0. nread \in Nat /\ given = nread /\ k \in Nat /\ k <= Len(file) - given /\ Len(file) \in Nat
          BY <1>2, <1>3
        <4>1. given + i - nread \in 1 .. Len(file)
          BY <3>1, <4>0
        <4>2. file[given + i - nread] \in Chars
          BY <1>2, <4>1
        <4>. QED BY <3>1, <4>2 DEF Cells
      <3>2. CASE i \notin nread + 1 .. nread + k
        BY <1>2, <3>2
      <3>. QED BY <3>1, <3>2
    <2>2. DOMAIN filled = DOMAIN buf /\ filled = [i \in DOMAIN buf |-> filled[i]]
      OBVIOUS
    <2>. HIDE DEF filled
    <2>. QED BY <1>2, <2>1, <2>2, Rewritten
  <1>6. buf' = Grown(filled, nread + k)
    BY <1>1
  <1>. HIDE DEF filled
  <1>7. \A i \in 1 .. Len(filled) : Grown(filled, nread + k)[i] = filled[i]
    <2>1. Junks(Len(filled)) \in Seq({Junk})
      <3>1. Junks(Len(filled)) \in [1 .. Len(filled) -> {Junk}] /\ Len(filled) \in Nat
        BY <1>5 DEF Junks
      <3>. QED BY <3>1, FunctionIsSeq
    <2>. QED BY <1>5, <2>1 DEF Grown
  <1>8. Reading'
    <2>1. /\ given' = given + k /\ nread' = nread + k /\ given' <= Len(file) /\ file' = file
          /\ origin' = origin
      BY <1>1, <1>2, <1>3 DEF Read
    <2>2. \A i \in 1 .. given + k : buf'[i] = file[i]
      <3>. SUFFICES ASSUME NEW i \in 1 .. given + k
                    PROVE  buf'[i] = file[i]
        OBVIOUS
      <3>1. i \in 1 .. nread + k /\ i \in 1 .. Len(filled)
        BY <1>2, <1>3, <1>5
      <3>. QED BY <1>4, <1>6, <1>7, <3>1
    <2>. QED BY <1>2, <2>1, <2>2 DEF Reading
  <1>. QED BY <1>2, <1>8 DEF Read, Content, Splicing, Written, OpenEnding

LEMMA ContentEndOfFile ==
  ASSUME IInv, Content, EndOfFile
  PROVE  Content'
  <1>. DEFINE open == nread = 0 \/ buf[nread] # "nl"
              closed == IF open THEN Put(buf, nread + 1, "nl") ELSE buf
  <1>1. /\ buf \in Seq(Cells) /\ Len(buf) \in Nat /\ nread \in Nat /\ file \in Seq(Chars)
        /\ Len(file) \in Nat /\ nread + 2 < Len(buf) /\ p = 1 /\ q = 1 /\ n = 0
        /\ nread = Len(file) /\ origin = <<>> /\ \A i \in 1 .. Len(file) : buf[i] = file[i]
    BY DEF IInv, BufferOK, Room, EndOfFile, Content, Reading
  <1>2. /\ nread' = IF open THEN nread + 1 ELSE nread
        /\ buf' = Put(closed, nread' + 1, Nul)
        /\ phase' = "splice" /\ p' = p /\ q' = q /\ n' = n /\ file' = file /\ origin' = origin
    BY DEF EndOfFile
  <1>3. PICK L \in Nat \ {0} : L = Len(Text)
    BY <1>1, TextIs
  <1>4. file = <<>> <=> Len(file) = 0
    BY <1>1
  <1>5. /\ closed \in Seq(Cells) /\ Len(closed) = Len(buf) /\ nread' = L
        /\ \A i \in 1 .. L : closed[i] = Text[i]
    <2>1. CASE open
      <3>1. ~ (file # <<>> /\ file[Len(file)] = "nl")
        BY <1>1, <1>4, <2>1
      <3>2. Text = Append(file, "nl")
        BY <1>1, <3>1, TextIs
      <3>3. L = Len(file) + 1 /\ \A i \in 1 .. L : Text[i] = IF i = L THEN "nl" ELSE file[i]
        BY <1>1, <1>3, <3>2
      <3>4. closed = Put(buf, nread + 1, "nl") /\ nread' = nread + 1
        BY <1>2, <2>1
      <3>5. /\ closed \in Seq(Cells) /\ Len(closed) = Len(buf) /\ closed[L] = "nl"
            /\ \A i \in DOMAIN buf : i # L => closed[i] = buf[i]
        <4>1. nread + 1 = L /\ L \in DOMAIN buf /\ "nl" \in Cells
          BY <1>1, <3>3 DEF Cells, Chars
        <4>. HIDE DEF closed
        <4>. QED BY <1>1, <3>4, <4>1, PutCell
      <3>. HIDE DEF open, closed
      <3>6. ASSUME NEW i \in 1 .. L
            PROVE  closed[i] = Text[i]
        <4>1. i # L => i \in DOMAIN buf /\ i \in 1 .. Len(file)
          BY <1>1, <3>3
        <4>. QED BY <1>1, <3>3, <3>5, <4>1
      <3>. QED BY <1>1, <3>3, <3>4, <3>5, <3>6
    <2>2. CASE ~ open
      <3>1. file # <<>> /\ file[Len(file)] = "nl"
        BY <1>1, <1>4, <2>2
      <3>2. Text = file
        BY <1>1, <3>1, TextIs
      <3>. QED BY <1>1, <1>2, <1>3, <2>2, <3>2
    <2>. QED BY <2>1, <2>2
  <1>. HIDE DEF open, closed
  <1>6. /\ buf'[L + 1] = Nul /\ Len(buf') = Len(buf) /\ L + 1 <= Len(buf)
        /\ \A i \in 1 .. L : buf'[i] = Text[i]
    <2>1. L + 1 <= Len(buf) /\ L + 1 \in DOMAIN closed /\ L + 1 \in Nat /\ Nul \in Cells
          /\ \A i \in 1 .. L : i \in DOMAIN closed /\ i # L + 1
      BY <1>1, <1>2, <1>5 DEF Cells
    <2>2. buf' = Put(closed, L + 1, Nul)
      BY <1>2, <1>5
    <2>3. /\ Len(Put(closed, L + 1, Nul)) = Len(closed) /\ Put(closed, L + 1, Nul)[L + 1] = Nul
          /\ \A j \in DOMAIN closed : j # L + 1 => Put(closed, L + 1, Nul)[j] = closed[j]
      BY <1>5, <2>1, PutCell
    <2>. QED BY <1>5, <2>1, <2>2, <2>3
  <1>7. Text' = Text
    BY <1>2 DEF Text
  <1>8. LineOf(Text, 1) = 1 /\ Lines(buf', 0) = 0 /\ Lines(Text, 0) = 0
    <2>1. Text \in Seq(Chars)
      BY <1>1, TextIs
    <2>2. LineOf(Text, 1) = 1
      BY <2>1, LineOfNext
    <2>. QED BY <2>2, NoLines
  <1>9. Splicing'
    <2>1. p' = 1 /\ q' = 1 /\ n' = 0 /\ origin' = <<>>
      BY <1>1, <1>2
    <2>2. Copied'
      BY <2>1 DEF Copied
    <2>3. 1 + Lines(buf', q' - 1) = LineOf(Text', p') /\ Lines(buf', q' - 1) + n' = Lines(Text', p' - 1)
      BY <1>7, <1>8, <2>1
    <2>4. Lines(buf, q - 1)' = Lines(buf', q' - 1) /\ LineOf(Text, p)' = LineOf(Text', p')
          /\ Lines(Text, p - 1)' = Lines(Text', p' - 1)
      BY DEF Lines, LineOf, LineEnds
    <2>. QED BY <1>3, <1>6, <1>7, <2>1, <2>2, <2>3, <2>4 DEF Splicing
  <1>. QED BY <1>2, <1>9 DEF Content, Reading, Written

\* The text left to be spliced
LEMMA TextLeft ==
  ASSUME IInv, Content, phase = "splice"
  PROVE  \E L \in Nat \ {0} :
           /\ L = Len(Text) /\ Text \in Seq(Chars) /\ p \in 1 .. L + 1 /\ L + 1 <= Len(buf)
           /\ buf \in Seq(Cells) /\ q \in Nat \ {0} /\ n \in Nat /\ q + n + n <= p
           /\ p <= L => /\ At(p) = Text[p] /\ At(p) \in Chars /\ At(p) # Nul
                        /\ Text[p] = "nl" => p \in LineEnds(Text)
                        /\ Text[p] # "nl" => p \notin LineEnds(Text)
           /\ p = L + 1 => At(p) = Nul /\ ~ Spliced
           /\ p < L => At(p + 1) = Text[p + 1]
           /\ Spliced => /\ p < L /\ Text[p] = "bs" /\ Text[p + 1] = "nl"
                         /\ p \notin LineEnds(Text) /\ p + 1 \notin LineEnds(Text)
                         /\ p + 2 = L + 1 => FALSE
           /\ ~ Spliced /\ p < L => Text[p] # "bs" \/ Text[p + 1] # "nl"
           /\ p = L => At(p) = "nl"
  <1>1. /\ file \in Seq(Chars) /\ buf \in Seq(Cells) /\ p \in Nat /\ q \in Nat \ {0} /\ n \in Nat
        /\ q + n + n <= p
    BY DEF IInv, BufferOK, Behind
  <1>2. Text \in Seq(Chars)
    BY <1>1, TextIs
  <1>3. PICK L \in Nat \ {0} : L = Len(Text)
    BY <1>1, TextIs
  <1>4. /\ p \in 1 .. L + 1 /\ L + 1 <= Len(buf) /\ \A i \in p .. L : buf[i] = Text[i]
        /\ buf[L + 1] = Nul /\ (1 < p /\ p <= L => Text[p] # "nl" \/ Text[p - 1] # "bs")
    BY <1>3 DEF Content, Splicing
  <1>5. Text[L] = "nl" /\ (L = 1 \/ Text[L - 1] # "bs") /\ \A i \in 1 .. L : Text[i] \in Chars /\ Text[i] # Nul
    BY <1>1, <1>3, TextIs DEF Content
  <1>6. \A i \in p .. L : At(i) = Text[i]
    BY <1>1, <1>4 DEF At
  <1>7. At(L + 1) = Nul
    BY <1>1, <1>4 DEF At
  <1>8. Spliced <=> At(p) = "bs" /\ At(p + 1) = "nl"
    <2>1. Spliced <=> \A k \in 1 .. 2 : At(p + k - 1) = <<"bs", "nl">>[k]
      BY DEF Spliced, StartsWith
    <2>2. p + 1 - 1 = p /\ p + 2 - 1 = p + 1
      BY <1>1
    <2>3. \A k \in 1 .. 2 : k = 1 \/ k = 2
      OBVIOUS
    <2>. QED BY <2>1, <2>2, <2>3
  <1>9. DOMAIN Text = 1 .. L
    BY <1>2, <1>3
  <1>10. p <= L => /\ At(p) = Text[p] /\ At(p) \in Chars /\ At(p) # Nul
                   /\ Text[p] = "nl" => p \in LineEnds(Text)
                   /\ Text[p] # "nl" => p \notin LineEnds(Text)
    BY <1>4, <1>5, <1>6, <1>9 DEF LineEnds
  <1>11. p = L + 1 => At(p) = Nul /\ ~ Spliced
    BY <1>7, <1>8 DEF Nul
  <1>12. p < L => At(p + 1) = Text[p + 1]
    BY <1>4, <1>6
  <1>13. p = L => At(p) = "nl"
    BY <1>5, <1>6
  <1>14. ASSUME Spliced
         PROVE  /\ p < L /\ Text[p] = "bs" /\ Text[p + 1] = "nl"
                /\ p \notin LineEnds(Text) /\ p + 1 \notin LineEnds(Text)
                /\ p + 2 = L + 1 => FALSE
    <2>1. At(p) = "bs" /\ At(p + 1) = "nl"
      BY <1>8, <1>14
    <2>2. p < L
      <3>1. p # L + 1
        BY <1>11, <1>14
      <3>2. p # L
        BY <1>13, <2>1
      <3>. QED BY <1>4, <3>1, <3>2
    <2>3. Text[p] = "bs" /\ Text[p + 1] = "nl"
      <3>1. p <= L
        BY <1>4, <2>2
      <3>. QED BY <1>10, <1>12, <2>1, <2>2, <3>1
    <2>4. p + 1 # L
      <3>1. p + 1 = L => p = L - 1 /\ L # 1
        BY <1>4
      <3>. QED BY <1>5, <2>3, <3>1
    <2>5. p \notin LineEnds(Text) /\ p + 1 \notin LineEnds(Text)
      <3>1. (p + 1) - 1 = p /\ p + 1 > 1
        BY <1>4
      <3>. QED BY <2>3, <3>1 DEF LineEnds
    <2>. QED BY <1>4, <2>2, <2>3, <2>4, <2>5
  <1>15. ~ Spliced /\ p < L => Text[p] # "bs" \/ Text[p + 1] # "nl"
    <2>1. p < L => p <= L
      BY <1>4
    <2>. QED BY <1>8, <1>10, <1>12, <2>1
  <1>. QED BY <1>1, <1>2, <1>3, <1>4, <1>10, <1>11, <1>12, <1>13, <1>14, <1>15

\* What tells the text copied from the file
LEMMA CopiedKept ==
  ASSUME Copied, file' = file, buf' = buf, origin' = origin, q' = q
  PROVE  Copied'
  <1>1. \A i : Lines(buf, i - 1)' = Lines(buf', i - 1) /\ LineOf(Text, origin[i])' = LineOf(Text', origin'[i])
    BY DEF Lines, LineOf, LineEnds
  <1>2. Text' = Text
    BY DEF Text
  <1>3. \A i : Lines(buf, i - 1)' = Lines(buf, i - 1) /\ LineOf(Text, origin[i])' = LineOf(Text, origin[i])
    BY <1>1, <1>2
  <1>. QED BY <1>3 DEF Copied

LEMMA ContentSplice ==
  ASSUME IInv, Content, Splice
  PROVE  Content'
  <1>1. /\ p' = p + 2 /\ n' = n + 1 /\ q' = q /\ phase' = phase /\ phase = "splice" /\ Spliced
        /\ buf' = buf /\ file' = file /\ origin' = origin
    BY DEF Splice, readVars
  <1>2. PICK L \in Nat \ {0} :
           /\ L = Len(Text) /\ Text \in Seq(Chars) /\ p \in 1 .. L + 1
           /\ p < L /\ Text[p] = "bs" /\ Text[p + 1] = "nl"
           /\ p \notin LineEnds(Text) /\ p + 1 \notin LineEnds(Text)
           /\ p + 2 = L + 1 => FALSE
    BY <1>1, TextLeft
  <1>3. /\ L + 1 <= Len(buf) /\ (\A i \in p .. L : buf[i] = Text[i]) /\ buf[L + 1] = Nul /\ Copied
        /\ 1 + Lines(buf, q - 1) = LineOf(Text, p) /\ Lines(buf, q - 1) + n = Lines(Text, p - 1)
    BY <1>1, <1>2 DEF Content, Splicing
  <1>4. Text' = Text /\ Copied'
    BY <1>1, <1>3, CopiedKept DEF Text
  <1>5. LineOf(Text, p + 2) = LineOf(Text, p)
    <2>1. LineOf(Text, p + 1) = LineOf(Text, p)
      BY <1>2, LineOfNext
    <2>2. LineOf(Text, (p + 1) + 1) = LineOf(Text, p + 1)
      BY <1>2, LineOfNext
    <2>3. (p + 1) + 1 = p + 2
      BY <1>2
    <2>. QED BY <2>1, <2>2, <2>3
  <1>6. Lines(Text, p + 1) = Lines(Text, p - 1) + 1
    <2>1. PICK k \in Nat : k = p - 1 /\ k + 1 = p
      BY <1>2
    <2>2. Lines(Text, k + 1) = Lines(Text, k)
      BY <1>2, <2>1, LinesNext
    <2>3. p \in Nat
      BY <1>2
    <2>4. Lines(Text, p + 1) = Lines(Text, p) + 1
      BY <1>2, <2>3, LinesNext
    <2>. QED BY <2>1, <2>2, <2>4
  <1>7. /\ p + 2 \in 1 .. L + 1 /\ (\A i \in p + 2 .. L : buf[i] = Text[i])
        /\ (p + 2) - 1 = p + 1 /\ p + 2 # L + 1
    BY <1>2, <1>3
  <1>8. 1 + Lines(buf, q - 1) = LineOf(Text, p + 2) /\ Lines(buf, q - 1) + (n + 1) = Lines(Text, p + 1)
    <2>1. q - 1 \in Int /\ n \in Nat
      BY DEF IInv, BufferOK
    <2>2. Lines(buf, q - 1) \in Nat
      BY <2>1, LinesTyped
    <2>. QED BY <1>3, <1>5, <1>6, <2>1, <2>2
  <1>9. /\ Lines(buf, q - 1)' = Lines(buf, q - 1) /\ LineOf(Text, p)' = LineOf(Text, p + 2)
        /\ Lines(Text, p - 1)' = Lines(Text, p + 1)
    BY <1>1, <1>4, <1>7 DEF Lines, LineOf, LineEnds
  <1>10. Splicing'
    BY <1>1, <1>2, <1>3, <1>4, <1>7, <1>8, <1>9 DEF Splicing
  <1>. QED BY <1>1, <1>10 DEF Content, Reading, Written, OpenEnding

\* The character at p is copied to q.
LEMMA ContentCopyChar ==
  ASSUME IInv, Content, CopyChar
  PROVE  Content'
  <1>1. /\ p' = p + 1 /\ q' = q + 1 /\ n' = n /\ phase' = phase /\ phase = "splice" /\ ~ Spliced
        /\ buf' = Put(buf, q, At(p)) /\ At(p) \notin {"nl", Nul}
        /\ file' = file /\ origin' = Append(origin, p)
    BY DEF CopyChar, readVars
  <1>2. PICK L \in Nat \ {0} :
           /\ L = Len(Text) /\ Text \in Seq(Chars) /\ p \in 1 .. L + 1 /\ L + 1 <= Len(buf)
           /\ buf \in Seq(Cells) /\ q \in Nat \ {0} /\ n \in Nat /\ q + n + n <= p
           /\ p <= L => /\ At(p) = Text[p] /\ At(p) \in Chars /\ At(p) # Nul
                        /\ Text[p] # "nl" => p \notin LineEnds(Text)
           /\ p = L + 1 => At(p) = Nul
           /\ p < L => Text[p] # "bs" \/ Text[p + 1] # "nl"
           /\ p = L => At(p) = "nl"
    BY <1>1, TextLeft
  <1>3. /\ (\A i \in p .. L : buf[i] = Text[i]) /\ buf[L + 1] = Nul /\ Copied
        /\ 1 + Lines(buf, q - 1) = LineOf(Text, p) /\ Lines(buf, q - 1) + n = Lines(Text, p - 1)
    BY <1>1, <1>2 DEF Content, Splicing
  <1>4. /\ p < L /\ At(p) = Text[p] /\ At(p) \in Chars /\ p \notin LineEnds(Text) /\ Text[p] # "nl"
        /\ Text[p + 1] # "nl" \/ Text[p] # "bs"
    <2>1. p # L + 1 /\ p # L
      BY <1>1, <1>2
    <2>2. p < L /\ p <= L
      BY <1>2, <2>1
    <2>. QED BY <1>1, <1>2, <2>2
  <1>5. q \in DOMAIN buf /\ q \in Nat /\ p \in Nat \ {0} /\ At(p) \in Cells /\ q <= p
    BY <1>2, <1>4 DEF Cells
  <1>6. /\ Len(buf') = Len(buf) /\ buf'[q] = At(p)
        /\ \A j \in DOMAIN buf : j # q => buf'[j] = buf[j]
    <2>1. /\ Len(Put(buf, q, At(p))) = Len(buf) /\ Put(buf, q, At(p))[q] = At(p)
          /\ \A j \in DOMAIN buf : j # q => Put(buf, q, At(p))[j] = buf[j]
      BY <1>2, <1>5, PutCell
    <2>. QED BY <1>1, <2>1
  <1>7. PICK c : c = buf'
    OBVIOUS
  <1>8. \A i \in 0 .. q - 1 : Lines(c, i) = Lines(buf, i)
    <2>. SUFFICES ASSUME NEW i \in 0 .. q - 1
                  PROVE  Lines(c, i) = Lines(buf, i)
      OBVIOUS
    <2>1. \A j \in 1 .. i : j \in DOMAIN buf /\ j # q
      BY <1>2, <1>5
    <2>2. \A j \in 1 .. i : c[j] = buf[j]
      BY <1>6, <1>7, <2>1
    <2>. QED BY <1>5, <2>2, LinesSame
  <1>9. Lines(c, q) = Lines(buf, q - 1)
    <2>1. PICK k \in Nat : k = q - 1 /\ k + 1 = q
      BY <1>2
    <2>2. Lines(c, k + 1) = Lines(c, k)
      BY <1>1, <1>6, <1>7, <2>1, LinesNext
    <2>. QED BY <1>8, <2>1, <2>2
  <1>10. Text' = Text
    BY <1>1 DEF Text
  <1>11. Copied'
    <2>1. origin' \in Seq(Nat) /\ Len(origin') = (q + 1) - 1 /\ origin'[q] = p
          /\ \A i \in 1 .. q - 1 : origin'[i] = origin[i]
      BY <1>1, <1>3, <1>5 DEF Copied
    <2>2. ASSUME NEW i \in 1 .. (q + 1) - 1
          PROVE  c[i] # Nul /\ (c[i] # "nl" => 1 + Lines(c, i - 1) = LineOf(Text, origin'[i]))
      <3>1. CASE i = q
        <4>1. Lines(c, q - 1) = Lines(buf, q - 1)
          BY <1>2, <1>8
        <4>. QED BY <1>1, <1>3, <1>6, <1>7, <2>1, <3>1, <4>1
      <3>2. CASE i # q
        <4>1. i \in 1 .. q - 1 /\ i \in DOMAIN buf /\ i - 1 \in 0 .. q - 1
          BY <1>2, <1>5, <3>2
        <4>2. c[i] = buf[i] /\ Lines(c, i - 1) = Lines(buf, i - 1)
          BY <1>6, <1>7, <1>8, <3>2, <4>1
        <4>. QED BY <1>3, <2>1, <4>1, <4>2 DEF Copied
      <3>. QED BY <3>1, <3>2
    <2>3. \A i : Lines(buf, i - 1)' = Lines(buf', i - 1) /\ LineOf(Text, origin[i])' = LineOf(Text', origin'[i])
      BY DEF Lines, LineOf, LineEnds
    <2>. QED BY <1>1, <1>7, <1>10, <2>1, <2>2, <2>3 DEF Copied
  <1>12. LineOf(Text, p + 1) = LineOf(Text, p)
    <2>1. Text \in Seq(Chars) /\ p \in Nat \ {0} /\ p \notin LineEnds(Text)
      BY <1>2, <1>4, <1>5
    <2>. QED BY <2>1, LineOfNext
  <1>13. Lines(Text, p) = Lines(Text, p - 1)
    <2>1. PICK k \in Nat : k = p - 1 /\ k + 1 = p
      BY <1>5
    <2>2. Text[k + 1] # "nl"
      BY <1>4, <2>1
    <2>3. Lines(Text, k + 1) = Lines(Text, k)
      BY <2>2, LinesNext
    <2>. QED BY <2>1, <2>3
  <1>14. /\ p + 1 \in 1 .. L + 1 /\ L + 1 <= Len(c) /\ c[L + 1] = Nul
         /\ \A i \in p + 1 .. L : c[i] = Text[i]
         /\ (p + 1) - 1 = p /\ (q + 1) - 1 = q /\ p + 1 # L + 1
    <2>0. p \in Nat /\ q \in Nat \ {0} /\ L \in Nat /\ q <= p /\ p < L /\ L + 1 <= Len(buf)
          /\ DOMAIN buf = 1 .. Len(buf) /\ Len(buf) \in Nat
      BY <1>2, <1>4, <1>5
    <2>1. \A i \in p + 1 .. L + 1 : i \in DOMAIN buf /\ i # q /\ (i # L + 1 => i \in p .. L)
      BY <2>0
    <2>2. L + 1 \in p + 1 .. L + 1
      BY <2>0
    <2>3. \A i \in p + 1 .. L : i \in p + 1 .. L + 1 /\ i # L + 1
      BY <2>0
    <2>4. p + 1 \in 1 .. L + 1 /\ L + 1 <= Len(c) /\ (p + 1) - 1 = p /\ (q + 1) - 1 = q /\ p + 1 # L + 1
      BY <2>0, <1>6, <1>7
    <2>. QED BY <1>3, <1>6, <1>7, <2>1, <2>2, <2>3, <2>4
  <1>15. /\ Lines(buf, q - 1)' = Lines(c, q) /\ LineOf(Text, p)' = LineOf(Text, p + 1)
         /\ Lines(Text, p - 1)' = Lines(Text, p)
    BY <1>1, <1>7, <1>10, <1>14 DEF Lines, LineOf, LineEnds
  <1>16. Splicing'
    BY <1>1, <1>2, <1>3, <1>4, <1>7, <1>9, <1>10, <1>11, <1>12, <1>13, <1>14, <1>15 DEF Splicing
  <1>. QED BY <1>1, <1>16 DEF Content, Reading, Written, OpenEnding

\* The newline at p is copied, and the n owed with it.
LEMMA ContentEndLine ==
  ASSUME IInv, Content, EndLine
  PROVE  Content'
  <1>1. /\ p' = p + 1 /\ q' = q + n + 1 /\ n' = 0 /\ phase' = phase /\ phase = "splice" /\ At(p) = "nl"
        /\ buf' = [i \in DOMAIN buf |-> IF i \in q .. q + n THEN "nl" ELSE buf[i]]
        /\ file' = file /\ origin' = origin \o [i \in 1 .. n + 1 |-> p]
    BY DEF EndLine, readVars
  <1>2. PICK L \in Nat \ {0} :
           /\ L = Len(Text) /\ Text \in Seq(Chars) /\ p \in 1 .. L + 1 /\ L + 1 <= Len(buf)
           /\ buf \in Seq(Cells) /\ q \in Nat \ {0} /\ n \in Nat /\ q + n + n <= p
           /\ p <= L => /\ At(p) = Text[p]
                        /\ Text[p] = "nl" => p \in LineEnds(Text)
           /\ p = L + 1 => At(p) = Nul
    BY <1>1, TextLeft
  <1>3. /\ (\A i \in p .. L : buf[i] = Text[i]) /\ buf[L + 1] = Nul /\ Copied
        /\ 1 + Lines(buf, q - 1) = LineOf(Text, p) /\ Lines(buf, q - 1) + n = Lines(Text, p - 1)
    BY <1>1, <1>2 DEF Content, Splicing
  <1>4. p <= L /\ Text[p] = "nl" /\ p \in LineEnds(Text)
    <2>1. p # L + 1
      BY <1>1, <1>2 DEF Nul
    <2>2. p <= L
      BY <1>2, <2>1
    <2>. QED BY <1>1, <1>2, <2>2
  <1>5. /\ p \in Nat \ {0} /\ q \in Nat \ {0} /\ n \in Nat /\ L \in Nat /\ q + n <= p /\ p <= L
        /\ L + 1 <= Len(buf) /\ DOMAIN buf = 1 .. Len(buf) /\ Len(buf) \in Nat
    BY <1>2, <1>4
  <1>6. PICK c : c = buf'
    OBVIOUS
  <1>7. /\ Len(c) = Len(buf) /\ \A j \in q .. q + n : c[j] = "nl"
        /\ \A j \in 1 .. Len(buf) : j \notin q .. q + n => c[j] = buf[j]
    <2>1. DOMAIN c = DOMAIN buf /\ c = [i \in DOMAIN buf |-> c[i]]
      BY <1>1, <1>6
    <2>2. \A i \in DOMAIN buf : c[i] \in Cells
      <3>1. "nl" \in Cells /\ \A i \in DOMAIN buf : buf[i] \in Cells
        BY <1>2 DEF Cells, Chars
      <3>. QED BY <1>1, <1>6, <3>1
    <2>3. Len(c) = Len(buf)
      BY <1>2, <2>1, <2>2, Rewritten
    <2>4. \A j \in q .. q + n : j \in DOMAIN buf
      BY <1>5
    <2>. QED BY <1>1, <1>5, <1>6, <2>3, <2>4
  <1>8. \A i \in 0 .. q - 1 : Lines(c, i) = Lines(buf, i)
    <2>. SUFFICES ASSUME NEW i \in 0 .. q - 1
                  PROVE  Lines(c, i) = Lines(buf, i)
      OBVIOUS
    <2>1. \A j \in 1 .. i : j \in 1 .. Len(buf) /\ j \notin q .. q + n
      BY <1>5
    <2>2. \A j \in 1 .. i : c[j] = buf[j]
      BY <1>7, <2>1
    <2>. QED BY <1>5, <2>2, LinesSame
  <1>9. Lines(Text, p) = Lines(Text, p - 1) + 1
    <2>1. PICK k \in Nat : k = p - 1 /\ k + 1 = p
      BY <1>5
    <2>2. Text[k + 1] = "nl"
      BY <1>4, <2>1
    <2>3. Lines(Text, k + 1) = Lines(Text, k) + 1
      BY <2>2, LinesNext
    <2>. QED BY <2>1, <2>3
  <1>10. Lines(c, q + n) = Lines(Text, p)
    <2>1. PICK k \in Nat : k = q - 1 /\ k + 1 = q
      BY <1>5
    <2>2. k + (n + 1) = q + n /\ n + 1 \in Nat
      BY <1>5, <2>1
    <2>3. \A j \in k + 1 .. k + (n + 1) : c[j] = "nl"
      BY <1>7, <2>1, <2>2
    <2>4. Lines(c, k + (n + 1)) = Lines(c, k) + (n + 1)
      BY <2>2, <2>3, LinesAdded
    <2>5. Lines(c, k) = Lines(buf, q - 1)
      BY <1>5, <1>8, <2>1
    <2>6. Lines(buf, q - 1) \in Nat
      <3>1. q - 1 \in Int
        BY <1>5
      <3>. QED BY <3>1, LinesTyped
    <2>7. Lines(c, q + n) = Lines(buf, q - 1) + (n + 1) /\ Lines(buf, q - 1) + n = Lines(Text, p - 1)
      BY <1>3, <2>2, <2>4, <2>5
    <2>. QED BY <1>5, <1>9, <2>6, <2>7
  <1>11. LineOf(Text, p + 1) = 1 + Lines(Text, p)
    <2>1. Text \in Seq(Chars) /\ p \in Nat \ {0} /\ p \in LineEnds(Text)
      BY <1>2, <1>4, <1>5
    <2>. QED BY <2>1, LineOfNext
  <1>12. Text' = Text
    BY <1>1 DEF Text
  <1>13. Copied'
    <2>1. /\ origin' \in Seq(Nat) /\ Len(origin') = q + n
          /\ \A i \in 1 .. q - 1 : origin'[i] = origin[i]
      <3>. DEFINE o == [i \in 1 .. n + 1 |-> p]
      <3>1. o \in Seq(Nat) /\ Len(o) = n + 1
        <4>1. o \in [1 .. n + 1 -> Nat] /\ n + 1 \in Nat
          BY <1>5
        <4>. QED BY <4>1, FunctionIsSeq
      <3>2. origin \in Seq(Nat) /\ Len(origin) = q - 1 /\ origin' = origin \o o
        BY <1>1, <1>3 DEF Copied
      <3>. HIDE DEF o
      <3>3. PICK u \in Seq(Nat), w \in Seq(Nat) : u = origin /\ w = o
        BY <3>1, <3>2
      <3>4. /\ u \o w \in Seq(Nat) /\ Len(u \o w) = Len(u) + Len(w)
            /\ \A i \in 1 .. Len(u) + Len(w) : (u \o w)[i] = IF i <= Len(u) THEN u[i] ELSE w[i - Len(u)]
        BY ConcatProperties
      <3>5. Len(u) = q - 1 /\ Len(w) = n + 1 /\ origin' = u \o w
        BY <3>1, <3>2, <3>3
      <3>6. Len(origin') = q + n
        <4>1. (q - 1) + (n + 1) = q + n
          BY <1>5
        <4>. QED BY <3>4, <3>5, <4>1, Zenon
      <3>7. ASSUME NEW i \in 1 .. q - 1
            PROVE  origin'[i] = origin[i]
        <4>1. i \in 1 .. Len(u) + Len(w) /\ i <= Len(u)
          BY <1>5, <3>5
        <4>. QED BY <3>3, <3>4, <3>5, <4>1
      <3>. QED BY <3>4, <3>5, <3>6, <3>7
    <2>2. ASSUME NEW i \in 1 .. q + n
          PROVE  c[i] # Nul /\ (c[i] # "nl" => 1 + Lines(c, i - 1) = LineOf(Text, origin'[i]))
      <3>1. CASE i \in q .. q + n
        BY <1>7, <3>1 DEF Nul
      <3>2. CASE i \notin q .. q + n
        <4>1. i \in 1 .. q - 1 /\ i \in 1 .. Len(buf) /\ i - 1 \in 0 .. q - 1
          BY <1>5, <3>2
        <4>2. c[i] = buf[i] /\ Lines(c, i - 1) = Lines(buf, i - 1)
          BY <1>7, <1>8, <3>2, <4>1
        <4>. QED BY <1>3, <2>1, <4>1, <4>2 DEF Copied
      <3>. QED BY <3>1, <3>2
    <2>3. \A i : Lines(buf, i - 1)' = Lines(buf', i - 1) /\ LineOf(Text, origin[i])' = LineOf(Text', origin'[i])
      BY DEF Lines, LineOf, LineEnds
    <2>4. q' - 1 = q + n
      BY <1>1, <1>5
    <2>. QED BY <1>6, <1>12, <2>1, <2>2, <2>3, <2>4 DEF Copied
  <1>14. /\ p + 1 \in 1 .. L + 1 /\ L + 1 <= Len(c) /\ c[L + 1] = Nul
         /\ \A i \in p + 1 .. L : c[i] = Text[i]
         /\ (p + 1) - 1 = p /\ (q + n + 1) - 1 = q + n /\ 1 < q + n + 1 /\ c[q + n] = "nl"
    <2>1. \A i \in p + 1 .. L + 1 : i \in 1 .. Len(buf) /\ i \notin q .. q + n /\ (i # L + 1 => i \in p .. L)
      BY <1>5
    <2>2. L + 1 \in p + 1 .. L + 1
      BY <1>5
    <2>3. \A i \in p + 1 .. L : i \in p + 1 .. L + 1 /\ i # L + 1
      BY <1>5
    <2>4. p + 1 \in 1 .. L + 1 /\ L + 1 <= Len(c) /\ (p + 1) - 1 = p /\ (q + n + 1) - 1 = q + n
          /\ 1 < q + n + 1 /\ q + n \in q .. q + n
      BY <1>5, <1>7
    <2>. QED BY <1>3, <1>7, <2>1, <2>2, <2>3, <2>4
  <1>15. /\ Lines(buf, q - 1)' = Lines(c, q + n) /\ LineOf(Text, p)' = LineOf(Text, p + 1)
         /\ Lines(Text, p - 1)' = Lines(Text, p)
    BY <1>1, <1>6, <1>12, <1>14 DEF Lines, LineOf, LineEnds
  <1>16. Ended'
    BY <1>1, <1>6, <1>14 DEF Ended
  <1>17. Lines(c, q + n) \in Nat
    <2>1. q + n \in Int
      BY <1>5
    <2>. QED BY <2>1, LinesTyped
  <1>18. 1 + Lines(c, q + n) = LineOf(Text, p + 1) /\ Lines(c, q + n) + 0 = Lines(Text, p)
    BY <1>10, <1>11, <1>17
  <1>19. Splicing'
    BY <1>1, <1>2, <1>4, <1>6, <1>12, <1>13, <1>14, <1>15, <1>16, <1>18 DEF Splicing
  <1>. QED BY <1>1, <1>19 DEF Content, Reading, Written, OpenEnding

\* The text is spliced: q is where it ends.
LEMMA ContentEndSplice ==
  ASSUME IInv, Content, EndSplice
  PROVE  Content'
  <1>1. /\ q' = q /\ phase = "splice" /\ phase' = "tokenize" /\ At(p) = Nul
        /\ buf' = Put(buf, q, Nul) /\ file' = file /\ origin' = origin
    BY DEF EndSplice, readVars
  <1>2. PICK L \in Nat \ {0} :
           /\ L = Len(Text) /\ p \in 1 .. L + 1 /\ L + 1 <= Len(buf)
           /\ buf \in Seq(Cells) /\ q \in Nat \ {0} /\ n \in Nat /\ q + n + n <= p
           /\ p <= L => At(p) # Nul
    BY <1>1, TextLeft
  <1>3. p = L + 1
    BY <1>1, <1>2
  <1>4. Copied /\ Ended
    BY <1>1, <1>2, <1>3 DEF Content, Splicing
  <1>5. q \in Nat \ {0} /\ q <= Len(buf) /\ DOMAIN buf = 1 .. Len(buf) /\ Len(buf) \in Nat
    BY <1>2, <1>3
  <1>6. PICK c : c = buf'
    OBVIOUS
  <1>7. Len(c) = Len(buf) /\ c[q] = Nul /\ \A j \in 1 .. q - 1 : c[j] = buf[j]
    <2>1. q \in Nat /\ Nul \in Cells /\ q \in DOMAIN buf /\ \A j \in 1 .. q - 1 : j \in DOMAIN buf /\ j # q
      BY <1>5 DEF Cells
    <2>2. /\ Len(Put(buf, q, Nul)) = Len(buf) /\ Put(buf, q, Nul)[q] = Nul
          /\ \A j \in DOMAIN buf : j # q => Put(buf, q, Nul)[j] = buf[j]
      BY <1>2, <2>1, PutCell
    <2>. QED BY <1>1, <1>6, <2>1, <2>2
  <1>8. \A i \in 0 .. q - 1 : Lines(c, i) = Lines(buf, i)
    <2>. SUFFICES ASSUME NEW i \in 0 .. q - 1
                  PROVE  Lines(c, i) = Lines(buf, i)
      OBVIOUS
    <2>1. \A j \in 1 .. i : j \in 1 .. q - 1
      BY <1>5
    <2>2. \A j \in 1 .. i : c[j] = buf[j]
      BY <1>7, <2>1
    <2>. QED BY <1>5, <2>2, LinesSame
  <1>9. Text' = Text
    BY <1>1 DEF Text
  <1>10. Copied'
    <2>1. ASSUME NEW i \in 1 .. q - 1
          PROVE  c[i] # Nul /\ (c[i] # "nl" => 1 + Lines(c, i - 1) = LineOf(Text, origin[i]))
      <3>1. i - 1 \in 0 .. q - 1
        BY <1>5
      <3>2. c[i] = buf[i] /\ Lines(c, i - 1) = Lines(buf, i - 1)
        BY <1>7, <1>8, <3>1
      <3>. QED BY <1>4, <3>2 DEF Copied
    <2>2. \A i : Lines(buf, i - 1)' = Lines(buf', i - 1) /\ LineOf(Text, origin[i])' = LineOf(Text', origin'[i])
      BY DEF Lines, LineOf, LineEnds
    <2>. QED BY <1>1, <1>4, <1>6, <1>9, <2>1, <2>2 DEF Copied
  <1>11. Ended' /\ (q \in DOMAIN buf)' /\ (buf[q] = Nul)'
    <2>1. q - 1 \in 1 .. q - 1 /\ q \in 1 .. Len(buf)
      BY <1>4, <1>5 DEF Ended
    <2>2. DOMAIN c = DOMAIN buf
      <3>1. c = Put(buf, q, Nul)
        BY <1>1, <1>6
      <3>. QED BY <3>1 DEF Put
    <2>. QED BY <1>1, <1>4, <1>5, <1>6, <1>7, <2>1, <2>2 DEF Ended
  <1>12. Written'
    BY <1>10, <1>11 DEF Written
  <1>. QED BY <1>1, <1>12 DEF Content, Reading, Splicing, OpenEnding

\* Afterwards the text stays.
LEMMA ContentKept ==
  ASSUME Content, phase \notin {"read", "splice"}, phase' \notin {"read", "splice"},
         file' = file, buf' = buf, origin' = origin, q' = q
  PROVE  Content'
  <1>1. Copied' /\ Ended'
    BY CopiedKept DEF Content, Written, Ended
  <1>. QED BY <1>1 DEF Content, Reading, Splicing, Written, OpenEnding, Closed
-----------------------------------------------------------------------------
(* The reader of single characters.                                        *)

Yes == TRUE
No == FALSE
Knows(mode, line, space) == [mode |-> mode, line |-> line, space |-> space]

\* A history of what the reader knows
History(b, from, to, first, g) ==
  g = [k \in from - 1 .. to |->
         IF k < from THEN Knows("code", first, No) ELSE Scan(b, g[k - 1], k)]

LEMMA HistoriesAgree ==
  ASSUME NEW b, NEW from \in Nat \ {0}, NEW to \in Nat, NEW to2 \in Nat, NEW first, NEW g, NEW h,
         from - 1 <= to, to <= to2, History(b, from, to, first, g), History(b, from, to2, first, h)
  PROVE  \A k \in from - 1 .. to : g[k] = h[k]
  <1>. DEFINE bad == {k \in from - 1 .. to : g[k] # h[k]}
  <1>1. /\ \A k \in from - 1 .. to : g[k] = IF k < from THEN Knows("code", first, No) ELSE Scan(b, g[k - 1], k)
        /\ \A k \in from - 1 .. to2 : h[k] = IF k < from THEN Knows("code", first, No) ELSE Scan(b, h[k - 1], k)
    BY DEF History
  <1>2. ASSUME bad # {}
        PROVE  FALSE
    <2>1. bad \subseteq Nat
      OBVIOUS
    <2>2. PICK k \in bad : \A j \in bad : k <= j
      BY <1>2, <2>1, LeastOf
    <2>3. k \in from - 1 .. to /\ k \in from - 1 .. to2 /\ g[k] # h[k]
      OBVIOUS
    <2>4. CASE k < from
      BY <1>1, <2>3, <2>4
    <2>5. CASE ~ (k < from)
      <3>1. k - 1 \in from - 1 .. to /\ ~ (k <= k - 1)
        BY <2>3, <2>5
      <3>2. g[k - 1] = h[k - 1]
        BY <2>2, <3>1
      <3>. QED BY <1>1, <2>3, <2>5, <3>2
    <2>. QED BY <2>4, <2>5
  <1>. QED BY <1>2

LEMMA HistoryExists ==
  ASSUME NEW b, NEW from \in Nat \ {0}, NEW to \in Nat, NEW first, from - 1 <= to
  PROVE  \E g : History(b, from, to, first, g)
  <1>. DEFINE bad == {k \in Nat : from - 1 <= k /\ ~ \E g : History(b, from, k, first, g)}
  <1>1. ASSUME bad # {}
        PROVE  FALSE
    <2>1. bad \subseteq Nat
      OBVIOUS
    <2>2. PICK k \in bad : \A j \in bad : k <= j
      BY <1>1, <2>1, LeastOf
    <2>3. k \in Nat /\ from - 1 <= k /\ ~ \E g : History(b, from, k, first, g)
      OBVIOUS
    <2>4. CASE k = from - 1
      <3>. DEFINE h == [j \in from - 1 .. k |-> Knows("code", first, No)]
      <3>1. ASSUME NEW j \in from - 1 .. k
            PROVE  h[j] = IF j < from THEN Knows("code", first, No) ELSE Scan(b, h[j - 1], j)
        <4>1. j < from
          BY <2>4
        <4>. QED BY <4>1
      <3>2. h = [j \in from - 1 .. k |-> h[j]]
        OBVIOUS
      <3>. HIDE DEF h
      <3>3. History(b, from, k, first, h)
        BY <3>1, <3>2 DEF History
      <3>. QED BY <2>3, <3>3
    <2>5. CASE k # from - 1
      <3>1. k - 1 \in Nat /\ from - 1 <= k - 1 /\ ~ (k <= k - 1)
        BY <2>3, <2>5
      <3>2. k - 1 \notin bad
        BY <2>2, <3>1
      <3>3. PICK g : History(b, from, k - 1, first, g)
        BY <3>1, <3>2
      <3>4. \A j \in from - 1 .. k - 1 : g[j] = IF j < from THEN Knows("code", first, No) ELSE Scan(b, g[j - 1], j)
        BY <3>3 DEF History
      <3>. DEFINE h == [j \in from - 1 .. k |-> IF j < k THEN g[j] ELSE Scan(b, g[k - 1], k)]
      <3>5. ASSUME NEW j \in from - 1 .. k
            PROVE  h[j] = IF j < from THEN Knows("code", first, No) ELSE Scan(b, h[j - 1], j)
        <4>1. CASE j < k
          <5>1. j \in from - 1 .. k - 1 /\ h[j] = g[j]
            BY <2>3, <4>1
          <5>2. j >= from => j - 1 \in from - 1 .. k /\ j - 1 < k /\ h[j - 1] = g[j - 1]
            BY <2>3, <4>1
          <5>3. g[j] = IF j < from THEN Knows("code", first, No) ELSE Scan(b, g[j - 1], j)
            BY <3>4, <5>1
          <5>4. j < from \/ j >= from
            BY <2>3
          <5>. HIDE DEF h
          <5>5. CASE j < from
            BY <5>1, <5>3, <5>5
          <5>6. CASE ~ (j < from)
            BY <5>1, <5>2, <5>3, <5>4, <5>6
          <5>. QED BY <5>5, <5>6
        <4>2. CASE ~ (j < k)
          <5>1. j = k /\ ~ (k < from) /\ k - 1 \in from - 1 .. k /\ k - 1 < k
            BY <2>3, <2>5, <4>2
          <5>2. h[j] = Scan(b, g[k - 1], k) /\ h[j - 1] = g[k - 1]
            BY <4>2, <5>1
          <5>. QED BY <5>1, <5>2
        <4>. QED BY <4>1, <4>2
      <3>6. h = [j \in from - 1 .. k |-> h[j]]
        OBVIOUS
      <3>. HIDE DEF h
      <3>7. History(b, from, k, first, h)
        BY <3>5, <3>6 DEF History
      <3>. QED BY <2>3, <3>7
    <2>. QED BY <2>4, <2>5
  <1>. QED BY <1>1

\* What it knows with one character more
LEMMA BetweenNext ==
  ASSUME NEW b, NEW from \in Nat \ {0}, NEW to \in Nat, NEW first, from - 1 <= to
  PROVE  /\ to = from - 1 => Between(b, from, to, first) = Knows("code", first, No)
         /\ from <= to => Between(b, from, to, first) = Scan(b, Between(b, from, to - 1, first), to)
  <1>1. ASSUME NEW k \in Nat, from - 1 <= k
        PROVE  \E g : History(b, from, k, first, g) /\ Between(b, from, k, first) = g[k]
    <2>. DEFINE g == CHOOSE g : History(b, from, k, first, g)
    <2>1. Between(b, from, k, first) = g[k]
      BY DEF Between, History, Knows, No
    <2>2. History(b, from, k, first, g)
      BY <1>1, HistoryExists
    <2>. QED BY <2>1, <2>2
  <1>2. PICK g : History(b, from, to, first, g) /\ Between(b, from, to, first) = g[to]
    BY <1>1
  <1>3. \A k \in from - 1 .. to : g[k] = IF k < from THEN Knows("code", first, No) ELSE Scan(b, g[k - 1], k)
    BY <1>2 DEF History
  <1>4. CASE to = from - 1
    <2>1. to \in from - 1 .. to /\ to < from /\ ~ (from <= to)
      BY <1>4
    <2>2. g[to] = Knows("code", first, No)
      BY <1>3, <2>1
    <2>. QED BY <1>2, <2>1, <2>2
  <1>5. CASE from <= to
    <2>1. to - 1 \in Nat /\ from - 1 <= to - 1 /\ to - 1 <= to /\ ~ (to < from) /\ to \in from - 1 .. to
          /\ to - 1 \in from - 1 .. to - 1
      BY <1>5
    <2>2. PICK h : History(b, from, to - 1, first, h) /\ Between(b, from, to - 1, first) = h[to - 1]
      BY <1>1, <2>1
    <2>3. h[to - 1] = g[to - 1]
      BY <1>2, <2>1, <2>2, HistoriesAgree
    <2>4. g[to] = Scan(b, g[to - 1], to)
      BY <1>3, <2>1
    <2>5. to # from - 1
      BY <1>5
    <2>. QED BY <1>2, <2>2, <2>3, <2>4, <2>5
  <1>6. to = from - 1 \/ from <= to
    OBVIOUS
  <1>. QED BY <1>4, <1>5, <1>6

\* What each kind of character tells it
LEMMA ScanSteps ==
  ASSUME NEW b, NEW k, NEW l, NEW s
  PROVE  /\ b[k] = "/" /\ b[k + 1] = "/" => Scan(b, Knows("code", l, s), k) = Knows("line", l, Yes)
         /\ b[k] = "/" /\ b[k + 1] = "*" => Scan(b, Knows("code", l, s), k) = Knows("open", l, Yes)
         /\ b[k] = "nl" => /\ Scan(b, Knows("code", l, s), k) = Knows("code", Yes, No)
                           /\ Scan(b, Knows("line", l, s), k) = Knows("code", Yes, No)
         /\ b[k] = "sp" => Scan(b, Knows("code", l, s), k) = Knows("code", l, Yes)
         /\ b[k] # "nl" => Scan(b, Knows("line", l, s), k) = Knows("line", l, s)
         /\ Scan(b, Knows("open", l, s), k) = Knows("block", l, s)
         /\ ~ (b[k] = "*" /\ b[k + 1] = "/") => Scan(b, Knows("block", l, s), k) = Knows("block", l, s)
         /\ b[k] = "*" /\ b[k + 1] = "/" => Scan(b, Knows("block", l, s), k) = Knows("close", l, s)
         /\ Scan(b, Knows("close", l, s), k) = Knows("code", l, s)
  <1>1. ASSUME b[k] = "/", b[k + 1] = "/"
        PROVE  Scan(b, Knows("code", l, s), k) = Knows("line", l, Yes)
    BY <1>1 DEF Scan, Knows, Yes, No
  <1>2. ASSUME b[k] = "/", b[k + 1] = "*"
        PROVE  Scan(b, Knows("code", l, s), k) = Knows("open", l, Yes)
    BY <1>2 DEF Scan, Knows, Yes, No
  <1>3. ASSUME b[k] = "nl"
        PROVE  Scan(b, Knows("code", l, s), k) = Knows("code", Yes, No)
    BY <1>3 DEF Scan, Knows, Yes, No
  <1>4. ASSUME b[k] = "nl"
        PROVE  Scan(b, Knows("line", l, s), k) = Knows("code", Yes, No)
    BY <1>4 DEF Scan, Knows, Yes, No
  <1>5. ASSUME b[k] = "sp"
        PROVE  Scan(b, Knows("code", l, s), k) = Knows("code", l, Yes)
    BY <1>5 DEF Scan, Knows, Yes, No
  <1>6. ASSUME b[k] # "nl"
        PROVE  Scan(b, Knows("line", l, s), k) = Knows("line", l, s)
    BY <1>6 DEF Scan, Knows, Yes, No
  <1>7. Scan(b, Knows("open", l, s), k) = Knows("block", l, s)
    BY DEF Scan, Knows, Yes, No
  <1>8. ASSUME ~ (b[k] = "*" /\ b[k + 1] = "/")
        PROVE  Scan(b, Knows("block", l, s), k) = Knows("block", l, s)
    BY <1>8 DEF Scan, Knows, Yes, No
  <1>9. ASSUME b[k] = "*", b[k + 1] = "/"
        PROVE  Scan(b, Knows("block", l, s), k) = Knows("close", l, s)
    BY <1>9 DEF Scan, Knows, Yes, No
  <1>10. Scan(b, Knows("close", l, s), k) = Knows("code", l, s)
    BY DEF Scan, Knows, Yes, No
  <1>. QED BY <1>1, <1>2, <1>3, <1>4, <1>5, <1>6, <1>7, <1>8, <1>9, <1>10

\* What it knows stays the same over a stretch where every character leaves it.
LEMMA BetweenStays ==
  ASSUME NEW b, NEW from \in Nat \ {0}, NEW first, NEW i \in Nat, NEW j \in Nat, NEW g,
         from - 1 <= i, i <= j, Between(b, from, i, first) = g, \A k \in i + 1 .. j : Scan(b, g, k) = g
  PROVE  Between(b, from, j, first) = g
  <1>. DEFINE bad == {k \in i .. j : Between(b, from, k, first) # g}
  <1>1. ASSUME bad # {}
        PROVE  FALSE
    <2>1. bad \subseteq Nat
      OBVIOUS
    <2>2. PICK k \in bad : \A m \in bad : k <= m
      BY <1>1, <2>1, LeastOf
    <2>3. k \in i .. j /\ Between(b, from, k, first) # g
      OBVIOUS
    <2>4. k # i
      BY <2>3
    <2>5. /\ k \in Nat /\ k - 1 \in i .. j /\ ~ (k <= k - 1) /\ k \in i + 1 .. j
          /\ from <= k /\ from - 1 <= k
      BY <2>3, <2>4
    <2>6. Between(b, from, k - 1, first) = g
      BY <2>2, <2>5
    <2>7. Between(b, from, k, first) = Scan(b, g, k)
      BY <2>5, <2>6, BetweenNext
    <2>. QED BY <2>3, <2>5, <2>7
  <1>2. j \in i .. j
    OBVIOUS
  <1>. QED BY <1>1, <1>2

\* A comment to the end of the line, and one between its marks
LEMMA BetweenComments ==
  ASSUME NEW b, NEW from \in Nat \ {0}, NEW first, NEW i \in Nat \ {0}, NEW e \in Nat, NEW l, NEW s,
         from <= i, i + 2 <= e, Between(b, from, i - 1, first) = Knows("code", l, s), b[i] = "/"
  PROVE  /\ b[i + 1] = "/" /\ (\A k \in i + 2 .. e - 1 : b[k] # "nl") =>
              Between(b, from, e - 1, first) = Knows("line", l, Yes)
         /\ b[i + 1] = "*" /\ b[e] = "*" /\ b[e + 1] = "/"
              /\ (\A k \in i + 2 .. e - 1 : ~ (b[k] = "*" /\ b[k + 1] = "/")) =>
              Between(b, from, e + 1, first) = Knows("code", l, Yes)
  <1>0. ASSUME NEW m \in Nat, from <= m
        PROVE  Between(b, from, m, first) = Scan(b, Between(b, from, m - 1, first), m)
    <2>1. from - 1 <= m
      BY <1>0
    <2>. QED BY <1>0, <2>1, BetweenNext
  <1>1. Between(b, from, i, first) = Scan(b, Knows("code", l, s), i)
    <2>1. from - 1 <= i /\ i \in Nat
      OBVIOUS
    <2>. QED BY <2>1, BetweenNext
  <1>2. i \in Nat /\ i + 1 \in Nat /\ from - 1 <= i /\ i + 1 <= e - 1 /\ e - 1 \in Nat /\ i <= e - 1
    OBVIOUS
  <1>3. ASSUME b[i + 1] = "/", \A k \in i + 2 .. e - 1 : b[k] # "nl"
        PROVE  Between(b, from, e - 1, first) = Knows("line", l, Yes)
    <2>1. Between(b, from, i, first) = Knows("line", l, Yes)
      BY <1>1, <1>3, ScanSteps
    <2>2. \A k \in i + 1 .. e - 1 : b[k] # "nl"
      <3>1. \A k \in i + 1 .. e - 1 : k = i + 1 \/ k \in i + 2 .. e - 1
        OBVIOUS
      <3>. QED BY <1>3, <3>1
    <2>3. \A k \in i + 1 .. e - 1 : Scan(b, Knows("line", l, Yes), k) = Knows("line", l, Yes)
      BY <2>2, ScanSteps
    <2>. QED BY <1>2, <2>1, <2>3, BetweenStays
  <1>4. ASSUME b[i + 1] = "*", b[e] = "*", b[e + 1] = "/",
               \A k \in i + 2 .. e - 1 : ~ (b[k] = "*" /\ b[k + 1] = "/")
        PROVE  Between(b, from, e + 1, first) = Knows("code", l, Yes)
    <2>1. Between(b, from, i, first) = Knows("open", l, Yes)
      BY <1>1, <1>4, ScanSteps
    <2>2. Between(b, from, i + 1, first) = Knows("block", l, Yes)
      <3>1. PICK m \in Nat : m = i + 1 /\ from - 1 <= m /\ from <= m /\ m - 1 = i
        OBVIOUS
      <3>2. Between(b, from, m, first) = Scan(b, Between(b, from, m - 1, first), m)
        BY <3>1, <1>0
      <3>3. Between(b, from, m - 1, first) = Knows("open", l, Yes)
        BY <2>1, <3>1
      <3>. QED BY <3>1, <3>2, <3>3, ScanSteps
    <2>3. \A k \in (i + 1) + 1 .. e - 1 : Scan(b, Knows("block", l, Yes), k) = Knows("block", l, Yes)
      <3>1. (i + 1) + 1 = i + 2
        OBVIOUS
      <3>. QED BY <1>4, <3>1, ScanSteps
    <2>4. Between(b, from, e - 1, first) = Knows("block", l, Yes)
      <3>1. from - 1 <= i + 1
        OBVIOUS
      <3>. QED BY <1>2, <2>2, <2>3, <3>1, BetweenStays
    <2>5. Between(b, from, e, first) = Knows("close", l, Yes)
      <3>1. from - 1 <= e /\ from <= e
        OBVIOUS
      <3>2. Between(b, from, e, first) = Scan(b, Knows("block", l, Yes), e)
        BY <2>4, <3>1, BetweenNext
      <3>. QED BY <1>4, <3>2, ScanSteps
    <2>6. Between(b, from, e + 1, first) = Scan(b, Knows("close", l, Yes), e + 1)
      <3>1. PICK m \in Nat : m = e + 1 /\ from - 1 <= m /\ from <= m /\ m - 1 = e
        OBVIOUS
      <3>2. Between(b, from, m, first) = Scan(b, Between(b, from, m - 1, first), m)
        BY <3>1, <1>0
      <3>3. Between(b, from, m - 1, first) = Knows("close", l, Yes)
        BY <2>5, <3>1
      <3>. QED BY <3>1, <3>2, <3>3
    <2>. QED BY <2>6, ScanSteps
  <1>. QED BY <1>3, <1>4
-----------------------------------------------------------------------------
(* Where a token or a comment ends.                                        *)

LEMMA LeastIs ==
  ASSUME NEW S, S \subseteq Nat, S # {}
  PROVE  Least(S) \in S /\ \A k \in S : Least(S) <= k
  BY LeastOf DEF Least

\* The text from i on; behind a character that is not a newline there is one.
LEMMA TextFrom ==
  ASSUME IInv, Content, phase \in {"tokenize", "number"}
  PROVE  /\ buf \in Seq(Cells) /\ q \in Nat /\ 1 < q /\ q <= Len(buf) /\ DOMAIN buf = 1 .. Len(buf)
         /\ \A i \in 1 .. q : /\ At(i) = buf[i]
                              /\ At(i) = Nul => i = q
                              /\ At(i) # Nul => i < q
                              /\ At(i) \notin {"nl", Nul} => i + 1 < q
  <1>1. buf \in Seq(Cells) /\ q \in Nat /\ Copied /\ Ended /\ q \in DOMAIN buf /\ buf[q] = Nul
    BY DEF IInv, BufferOK, Content, Written
  <1>2. 1 < q /\ q <= Len(buf) /\ DOMAIN buf = 1 .. Len(buf) /\ buf[q - 1] = "nl"
    BY <1>1 DEF Ended
  <1>3. \A i \in 1 .. q : At(i) = buf[i]
    BY <1>1, <1>2 DEF At
  <1>4. \A i \in 1 .. q : i # q => buf[i] # Nul
    <2>1. \A i \in 1 .. q : i # q => i \in 1 .. q - 1
      BY <1>1
    <2>. QED BY <1>1, <2>1 DEF Copied
  <1>5. ASSUME NEW i \in 1 .. q, At(i) \notin {"nl", Nul}
        PROVE  i + 1 < q
    <2>1. i # q /\ i # q - 1
      BY <1>1, <1>2, <1>3, <1>5
    <2>. QED BY <1>1, <2>1
  <1>6. ASSUME NEW i \in 1 .. q, At(i) # Nul
        PROVE  i < q
    <2>1. i # q
      BY <1>1, <1>3, <1>6
    <2>. QED BY <1>1, <2>1
  <1>. QED BY <1>1, <1>2, <1>3, <1>4, <1>5, <1>6

\* Characters of a kind end with the text at the latest.
LEMMA RunEnds ==
  ASSUME IInv, Content, phase \in {"tokenize", "number"}, NEW i \in 1 .. q, NEW S, Nul \notin S
  PROVE  /\ Run(i, S) \in Nat /\ i + Run(i, S) <= q
         /\ At(i) \in S => Run(i, S) # 0
  <1>. DEFINE K == {k \in 0 .. Len(buf) : At(i + k) \notin S}
  <1>1. q \in Nat /\ q <= Len(buf) /\ Len(buf) \in Nat /\ At(q) = Nul
    <2>1. q \in Nat /\ 1 < q /\ q <= Len(buf) /\ buf \in Seq(Cells)
      BY TextFrom
    <2>2. q \in 1 .. q
      BY <2>1
    <2>3. At(q) = buf[q] /\ buf[q] = Nul
      BY <2>2, TextFrom DEF Content, Written
    <2>. QED BY <2>1, <2>3
  <1>2. q - i \in K
    <2>1. q - i \in 0 .. Len(buf) /\ i + (q - i) = q
      BY <1>1
    <2>. QED BY <1>1, <2>1
  <1>3. Least(K) \in K /\ Least(K) <= q - i
    <2>1. K \subseteq Nat
      BY <1>1
    <2>. HIDE DEF K
    <2>. QED BY <1>2, <2>1, LeastIs
  <1>4. Run(i, S) = Least(K)
    BY DEF Run
  <1>5. Least(K) \in 0 .. Len(buf) /\ At(i + Least(K)) \notin S
    BY <1>3
  <1>. HIDE DEF K
  <1>6. PICK r \in Nat : r = Run(i, S) /\ r <= q - i /\ At(i + r) \notin S
    BY <1>1, <1>3, <1>4, <1>5
  <1>7. i + 0 = i
    OBVIOUS
  <1>. QED BY <1>1, <1>6, <1>7

\* Where the quote that ends a string literal stands, from each place on
Closings(c) ==
  c = [i \in 1 .. Len(buf) + 2 |->
         IF At(i) = "quote" THEN i
         ELSE IF At(i) = Nul \/ i > Len(buf) THEN 0
         ELSE IF At(i) = "bs" THEN c[i + 2] ELSE c[i + 1]]

LEMMA ClosingsExist ==
  ASSUME NEW L \in Nat, L = Len(buf)
  PROVE  \E c : Closings(c)
  <1>. DEFINE Value(c, i) == IF At(i) = "quote" THEN i
                             ELSE IF At(i) = Nul \/ i > L THEN 0
                             ELSE IF At(i) = "bs" THEN c[i + 2] ELSE c[i + 1]
              Reaches(k) == \E c : c = [i \in L + 2 - k .. L + 2 |-> Value(c, i)]
              bad == {k \in Nat : k <= L + 1 /\ ~ Reaches(k)}
  <1>1. ASSUME bad # {}
        PROVE  FALSE
    <2>1. bad \subseteq Nat
      OBVIOUS
    <2>2. PICK k \in bad : \A j \in bad : k <= j
      BY <1>1, <2>1, LeastOf
    <2>3. k \in Nat /\ k <= L + 1 /\ ~ Reaches(k)
      OBVIOUS
    <2>4. CASE k = 0 \/ k = 1
      <3>. DEFINE c == [i \in L + 2 - k .. L + 2 |-> IF At(i) = "quote" THEN i ELSE 0]
      <3>1. ASSUME NEW i \in L + 2 - k .. L + 2
            PROVE  c[i] = Value(c, i)
        <4>1. i > L
          BY <2>4
        <4>. QED BY <4>1
      <3>2. c = [i \in L + 2 - k .. L + 2 |-> c[i]]
        OBVIOUS
      <3>. HIDE DEF c, Value
      <3>3. c = [i \in L + 2 - k .. L + 2 |-> Value(c, i)]
        BY <3>1, <3>2
      <3>. QED BY <2>3, <3>3
    <2>5. CASE k > 1
      <3>1. k - 1 \in Nat /\ k - 1 <= L + 1 /\ ~ (k <= k - 1) /\ L + 2 - (k - 1) = L + 2 - k + 1
        BY <2>3, <2>5
      <3>2. PICK d : d = [i \in L + 2 - (k - 1) .. L + 2 |-> Value(d, i)]
        BY <2>2, <3>1
      <3>. DEFINE f == L + 2 - k
                  c == [i \in f .. L + 2 |-> IF i = f THEN Value(d, f) ELSE d[i]]
      <3>3. ASSUME NEW i \in f .. L + 2
            PROVE  c[i] = Value(c, i)
        <4>1. /\ c[i] = IF i = f THEN Value(d, f) ELSE d[i]
              /\ i # f => i \in L + 2 - (k - 1) .. L + 2
          BY <2>3, <3>1
        <4>2. i # f => d[i] = Value(d, i)
          BY <3>2, <4>1
        <4>3. c[i] = Value(d, i)
          BY <4>1, <4>2
        <4>4. i <= L => i + 1 \in f .. L + 2 /\ i + 2 \in f .. L + 2 /\ i + 1 # f /\ i + 2 # f
          BY <2>3
        <4>5. i <= L => c[i + 1] = d[i + 1] /\ c[i + 2] = d[i + 2]
          BY <4>4
        <4>6. i <= L \/ i > L
          BY <2>3
        <4>. HIDE DEF c
        <4>. QED BY <4>3, <4>5, <4>6
      <3>4. c = [i \in f .. L + 2 |-> c[i]]
        OBVIOUS
      <3>. HIDE DEF c, Value
      <3>5. c = [i \in L + 2 - k .. L + 2 |-> Value(c, i)]
        BY <3>3, <3>4
      <3>. QED BY <2>3, <3>5
    <2>. QED BY <2>3, <2>4, <2>5
  <1>2. Reaches(L + 1)
    <2>1. L + 1 \in Nat /\ L + 1 <= L + 1
      OBVIOUS
    <2>. HIDE DEF Reaches
    <2>. QED BY <1>1, <2>1
  <1>3. L + 2 - (L + 1) = 1
    OBVIOUS
  <1>. QED BY <1>2, <1>3 DEF Closings

\* A string literal ends within the text.
LEMMA QuoteCloses ==
  ASSUME IInv, Content, phase = "tokenize", p \in 1 .. q, At(p) = "quote", ClosingQuote # 0
  PROVE  ClosingQuote \in Nat /\ p < ClosingQuote /\ ClosingQuote < q
  <1>1. /\ buf \in Seq(Cells) /\ q \in Nat /\ 1 < q /\ q <= Len(buf) /\ Len(buf) \in Nat
        /\ \A i \in 1 .. q : /\ At(i) = buf[i]
                             /\ At(i) # Nul => i < q
                             /\ At(i) \notin {"nl", Nul} => i + 1 < q
    BY TextFrom
  <1>. DEFINE c == CHOOSE c : Closings(c)
  <1>2. ClosingQuote = c[p + 1]
    BY DEF ClosingQuote, Closings
  <1>3. Closings(c)
    BY <1>1, ClosingsExist
  <1>. HIDE DEF c
  <1>4. \A i \in 1 .. Len(buf) + 2 : c[i] = IF At(i) = "quote" THEN i
                                            ELSE IF At(i) = Nul \/ i > Len(buf) THEN 0
                                            ELSE IF At(i) = "bs" THEN c[i + 2] ELSE c[i + 1]
    BY <1>3 DEF Closings
  <1>. DEFINE Fine(i) == c[i] # 0 => c[i] \in Nat /\ i <= c[i] /\ c[i] < q
              bad == {k \in Nat : k < q /\ ~ Fine(q - k)}
  <1>5. ASSUME bad # {}
        PROVE  FALSE
    <2>1. bad \subseteq Nat
      OBVIOUS
    <2>2. PICK k \in bad : \A j \in bad : k <= j
      BY <1>5, <2>1, LeastOf
    <2>3. k \in Nat /\ k < q /\ ~ Fine(q - k)
      OBVIOUS
    <2>4. PICK i \in 1 .. q : i = q - k
      BY <1>1, <2>3
    <2>5. \A j \in i + 1 .. q : Fine(j)
      <3>. SUFFICES ASSUME NEW j \in i + 1 .. q
                    PROVE  Fine(j)
        OBVIOUS
      <3>1. q - j \in Nat /\ q - j < q /\ ~ (k <= q - j) /\ q - (q - j) = j
        BY <1>1, <2>3, <2>4
      <3>2. q - j \notin bad
        BY <2>2, <3>1
      <3>. HIDE DEF Fine
      <3>. QED BY <3>1, <3>2
    <2>6. c[i] = IF At(i) = "quote" THEN i
                 ELSE IF At(i) = Nul THEN 0
                 ELSE IF At(i) = "bs" THEN c[i + 2] ELSE c[i + 1]
      <3>1. i \in 1 .. Len(buf) + 2 /\ ~ (i > Len(buf))
        BY <1>1
      <3>. QED BY <1>4, <3>1
    <2>7. CASE At(i) = "quote"
      <3>1. i < q
        BY <1>1, <2>7 DEF Nul
      <3>. QED BY <2>3, <2>4, <2>6, <2>7, <3>1
    <2>8. CASE At(i) = Nul
      BY <2>3, <2>4, <2>6, <2>8 DEF Nul
    <2>9. CASE At(i) = "bs"
      <3>1. i + 1 < q
        BY <1>1, <2>9 DEF Nul
      <3>2. i + 2 \in i + 1 .. q
        BY <1>1, <3>1
      <3>3. Fine(i + 2) /\ c[i] = c[i + 2]
        BY <2>5, <2>6, <2>9, <3>2 DEF Nul
      <3>. QED BY <2>3, <2>4, <3>3
    <2>10. CASE At(i) \notin {"quote", Nul, "bs"}
      <3>1. i < q
        BY <1>1, <2>10
      <3>2. i + 1 \in i + 1 .. q
        BY <1>1, <3>1
      <3>3. Fine(i + 1) /\ c[i] = c[i + 1]
        BY <2>5, <2>6, <2>10, <3>2
      <3>. QED BY <2>3, <2>4, <3>3
    <2>. QED BY <2>7, <2>8, <2>9, <2>10
  <1>6. p + 1 < q /\ p \in Nat
    BY <1>1 DEF Nul
  <1>7. PICK k \in Nat : k = q - (p + 1) /\ k < q /\ q - k = p + 1
    BY <1>1, <1>6
  <1>8. Fine(p + 1)
    <2>1. Fine(q - k)
      BY <1>5, <1>7
    <2>. QED BY <1>7, <2>1
  <1>. QED BY <1>1, <1>2, <1>6, <1>8
-----------------------------------------------------------------------------
(* The tokens.                                                             *)

Kinds == {"int", "float", "str", "char", "reserved", "ident", "eof"}
Tokens == [kind : Kinds, loc : Nat \ {0}, len : Nat \ {0}, at_bol : BOOLEAN, has_space : BOOLEAN,
           line_no : Nat]

First(i) == i = 1

\* The tokens ts of the text b, up to e, are in their order.
Cut(ts, b, e) ==
  /\ ts \in Seq(Tokens)
  /\ \A i \in 1 .. Len(ts) : b[ts[i].loc] # "nl" /\ ts[i].loc + ts[i].len <= e
  /\ \A i, j \in 1 .. Len(ts) : i < j => ts[i].loc + ts[i].len <= ts[j].loc

Exact(ts, b, i) ==
  LET g == Between(b, From(ts, i), ts[i].loc - 1, First(i))
  IN /\ g.mode = "code"
     /\ ts[i].kind # "float" => ts[i].at_bol = g.line /\ ts[i].has_space = g.space

Numbered(ts, b, i) == ts[i].line_no = 1 + Lines(b, ts[i].loc - 1)

Fresh ==
  /\ phase \in {"read", "splice"} => tokens = <<>> /\ at_bol = TRUE /\ has_space = FALSE
  /\ phase \in {"read", "splice", "tokenize"} => place = 1 /\ line_no = 1

\* The marks are what a reader of single characters knows by now.
Marked ==
  \E mode \in {"code", "line"} :
    /\ Between(buf, From(tokens, Len(tokens) + 1), p - 1, First(Len(tokens) + 1)) = Knows(mode, at_bol, has_space)
    /\ mode = "line" => buf[p] = "nl"

Cutting ==
  phase = "tokenize" =>
    /\ p \in 1 .. q /\ at_bol \in BOOLEAN /\ has_space \in BOOLEAN
    /\ Cut(tokens, buf, p)
    /\ \A i \in 1 .. Len(tokens) : tokens[i].kind # "eof" /\ Exact(tokens, buf, i)
    /\ Marked

Whole ==
  phase \in {"number", "done"} =>
    /\ Cut(tokens, buf, q + 1)
    /\ \A i \in 1 .. Len(tokens) :
         Exact(tokens, buf, i) /\ (tokens[i].kind # "eof" => tokens[i].loc + tokens[i].len <= q)

Numbering ==
  /\ phase = "number" =>
       /\ p \in 1 .. q /\ line_no = 1 + Lines(buf, p - 1) /\ place \in 1 .. Len(tokens) + 1
       /\ \A i \in 1 .. Len(tokens) :
            IF i < place THEN tokens[i].loc < p /\ Numbered(tokens, buf, i) ELSE p <= tokens[i].loc
  /\ phase = "done" => \A i \in 1 .. Len(tokens) : Numbered(tokens, buf, i)

TInv == IInv /\ Content /\ Fresh /\ Cutting /\ Whole /\ Numbering

LEMMA TokenFields ==
  ASSUME NEW t \in Tokens
  PROVE  /\ t.loc \in Nat \ {0} /\ t.len \in Nat \ {0} /\ t.kind \in Kinds
         /\ t.at_bol \in BOOLEAN /\ t.has_space \in BOOLEAN /\ t.line_no \in Nat
  BY DEF Tokens

\* A token more
LEMMA CutOneMore ==
  ASSUME NEW ts, NEW b, NEW e \in Nat, NEW t \in Tokens, NEW e2 \in Nat,
         Cut(ts, b, e), e <= t.loc, b[t.loc] # "nl", t.loc + t.len <= e2
  PROVE  Cut(Append(ts, t), b, e2)
  <1>1. PICK l \in Nat \ {0}, m \in Nat \ {0} : l = t.loc /\ m = t.len
    BY TokenFields
  <1>2. ts \in Seq(Tokens) /\ Len(ts) \in Nat
    BY DEF Cut
  <1>. DEFINE us == Append(ts, t)
  <1>3. us \in Seq(Tokens) /\ Len(us) = Len(ts) + 1 /\ us[Len(ts) + 1] = t
        /\ \A i \in 1 .. Len(ts) : us[i] = ts[i]
    BY <1>2
  <1>4. \A i \in 1 .. Len(us) : i \in 1 .. Len(ts) \/ i = Len(ts) + 1
    BY <1>2, <1>3
  <1>. HIDE DEF us
  <1>5. ASSUME NEW i \in 1 .. Len(ts)
        PROVE  b[ts[i].loc] # "nl" /\ ts[i].loc + ts[i].len <= e /\ ts[i].loc + ts[i].len <= e2
               /\ ts[i].loc + ts[i].len <= l
    <2>1. PICK x \in Nat \ {0}, y \in Nat \ {0} : x = ts[i].loc /\ y = ts[i].len
      <3>1. ts[i] \in Tokens
        BY <1>2
      <3>. QED BY <3>1, TokenFields
    <2>2. b[ts[i].loc] # "nl" /\ x + y <= e
      BY <2>1 DEF Cut
    <2>3. x + y <= l /\ x + y <= e2
      BY <1>1, <2>2
    <2>. QED BY <2>1, <2>2, <2>3
  <1>6. \A i \in 1 .. Len(us) : b[us[i].loc] # "nl" /\ us[i].loc + us[i].len <= e2
    BY <1>3, <1>4, <1>5
  <1>7. ASSUME NEW i \in 1 .. Len(us), NEW j \in 1 .. Len(us), i < j
        PROVE  us[i].loc + us[i].len <= us[j].loc
    <2>1. i \in 1 .. Len(ts)
      BY <1>2, <1>3, <1>7
    <2>2. CASE j = Len(ts) + 1
      BY <1>1, <1>3, <1>5, <2>1, <2>2
    <2>3. CASE j \in 1 .. Len(ts)
      BY <1>3, <1>7, <2>1, <2>3 DEF Cut
    <2>. QED BY <1>4, <2>2, <2>3
  <1>8. Cut(us, b, e2)
    BY <1>3, <1>6, <1>7 DEF Cut
  <1>. QED BY <1>8 DEF us

LEMMA ExactOneMore ==
  ASSUME NEW ts \in Seq(Tokens), NEW b, NEW t \in Tokens
  PROVE  /\ \A i \in 1 .. Len(ts) : Exact(Append(ts, t), b, i) <=> Exact(ts, b, i)
         /\ From(Append(ts, t), Len(ts) + 1) = From(ts, Len(ts) + 1)
         /\ From(Append(ts, t), Len(ts) + 2) = t.loc + t.len
  <1>. DEFINE us == Append(ts, t)
  <1>1. Len(ts) \in Nat /\ us[Len(ts) + 1] = t /\ \A i \in 1 .. Len(ts) : us[i] = ts[i]
    OBVIOUS
  <1>. HIDE DEF us
  <1>2. \A i \in 1 .. Len(ts) + 1 : From(us, i) = From(ts, i)
    <2>. SUFFICES ASSUME NEW i \in 1 .. Len(ts) + 1
                  PROVE  From(us, i) = From(ts, i)
      OBVIOUS
    <2>1. i # 1 => i - 1 \in 1 .. Len(ts)
      BY <1>1
    <2>. QED BY <1>1, <2>1 DEF From
  <1>3. ASSUME NEW i \in 1 .. Len(ts)
        PROVE  Exact(us, b, i) <=> Exact(ts, b, i)
    <2>1. From(us, i) = From(ts, i) /\ us[i] = ts[i]
      BY <1>1, <1>2
    <2>. QED BY <2>1 DEF Exact
  <1>4. From(us, Len(ts) + 1) = From(ts, Len(ts) + 1)
    BY <1>1, <1>2
  <1>5. From(us, Len(ts) + 2) = t.loc + t.len
    <2>1. Len(ts) + 2 # 1 /\ Len(ts) + 2 - 1 = Len(ts) + 1
      BY <1>1
    <2>. QED BY <1>1, <2>1 DEF From
  <1>. QED BY <1>3, <1>4, <1>5 DEF us

\* The place where the last token ended
LEMMA LastEnd ==
  ASSUME NEW ts, NEW b, NEW e \in Nat \ {0}, Cut(ts, b, e)
  PROVE  Len(ts) \in Nat /\ ts \in Seq(Tokens)
         /\ From(ts, Len(ts) + 1) \in Nat \ {0} /\ From(ts, Len(ts) + 1) <= e
  <1>1. Len(ts) \in Nat /\ ts \in Seq(Tokens)
    BY DEF Cut
  <1>2. CASE Len(ts) = 0
    BY <1>2 DEF From
  <1>3. CASE Len(ts) # 0
    <2>1. PICK k \in 1 .. Len(ts) : k = Len(ts) /\ k + 1 # 1 /\ (k + 1) - 1 = k
      BY <1>1, <1>3
    <2>2. PICK x \in Nat \ {0}, y \in Nat \ {0} : x = ts[k].loc /\ y = ts[k].len
      <3>1. ts[k] \in Tokens
        BY <1>1
      <3>. QED BY <3>1, TokenFields
    <2>3. x + y <= e
      BY <2>2 DEF Cut
    <2>4. From(ts, k + 1) = x + y
      BY <2>1, <2>2 DEF From
    <2>. QED BY <1>1, <2>1, <2>3, <2>4
  <1>. QED BY <1>1, <1>2, <1>3

\* What is known at p, before a token or a gap goes on
LEMMA Known ==
  ASSUME IInv, Content, Cutting, phase = "tokenize"
  PROVE  \E f, g :
           /\ f \in Nat \ {0} /\ f = From(tokens, Len(tokens) + 1) /\ g = First(Len(tokens) + 1) /\ f <= p
           /\ p \in Nat \ {0} /\ q \in Nat /\ p <= q
           /\ \E mode \in {"code", "line"} :
                Between(buf, f, p - 1, g) = Knows(mode, at_bol, has_space) /\ (mode = "line" => buf[p] = "nl")
  <1>1. q \in Nat /\ p \in 1 .. q /\ Cut(tokens, buf, p) /\ Marked
    BY DEF IInv, BufferOK, Cutting
  <1>2. p \in Nat \ {0}
    BY <1>1
  <1>3. From(tokens, Len(tokens) + 1) \in Nat \ {0} /\ From(tokens, Len(tokens) + 1) <= p
    BY <1>1, <1>2, LastEnd
  <1>4. PICK f, g : f \in Nat \ {0} /\ f = From(tokens, Len(tokens) + 1) /\ g = First(Len(tokens) + 1)
    BY <1>3
  <1>. QED BY <1>1, <1>2, <1>3, <1>4 DEF Marked

\* White space and comments are skipped.
LEMMA Skipped ==
  ASSUME IInv, Content, Cutting, phase = "tokenize", UNCHANGED <<tokens, phase, buf, q>>,
         NEW i \in Nat, p <= i, i <= q, p' = i, at_bol' \in BOOLEAN, has_space' \in BOOLEAN,
         NEW f, f = From(tokens, Len(tokens) + 1), NEW g, g = First(Len(tokens) + 1),
         NEW mode \in {"code", "line"}, Between(buf, f, i - 1, g) = Knows(mode, at_bol', has_space'),
         mode = "line" => buf[i] = "nl"
  PROVE  Cutting'
  <1>1. /\ q \in Nat /\ p \in Nat \ {0} /\ Cut(tokens, buf, p)
        /\ \A j \in 1 .. Len(tokens) : tokens[j].kind # "eof" /\ Exact(tokens, buf, j)
    BY DEF IInv, BufferOK, Cutting
  <1>2. Cut(tokens, buf, i)
    <2>1. tokens \in Seq(Tokens)
      BY <1>1 DEF Cut
    <2>2. ASSUME NEW j \in 1 .. Len(tokens)
          PROVE  tokens[j].loc + tokens[j].len <= i
      <3>1. tokens[j] \in Tokens
        BY <2>1
      <3>2. PICK x \in Nat \ {0}, y \in Nat \ {0} : x = tokens[j].loc /\ y = tokens[j].len
        BY <3>1, TokenFields
      <3>3. x + y <= p
        BY <1>1, <3>2 DEF Cut
      <3>. QED BY <1>1, <3>2, <3>3
    <2>. QED BY <1>1, <2>1, <2>2 DEF Cut
  <1>3. i \in 1 .. q
    BY <1>1
  <1>4. PICK ts, b : ts = tokens /\ b = buf
    OBVIOUS
  <1>5. /\ Cut(tokens, buf, p)' = Cut(tokens', buf', p')
        /\ \A j : Exact(tokens, buf, j)' = Exact(tokens', buf', j)
    BY DEF Cut, Exact, Between, Scan, From, First
  <1>6. Cut(tokens', buf', p') /\ \A j \in 1 .. Len(tokens) : Exact(tokens', buf', j)
    BY <1>1, <1>2
  <1>7. Marked'
    <2>1. Between(buf', From(tokens', Len(tokens') + 1), p' - 1, First(Len(tokens') + 1))
            = Knows(mode, at_bol', has_space')
      BY Zenon
    <2>2. Between(buf, From(tokens, Len(tokens) + 1), p - 1, First(Len(tokens) + 1))'
            = Between(buf', From(tokens', Len(tokens') + 1), p' - 1, First(Len(tokens') + 1))
      BY DEF Between, Scan, From, First
    <2>3. \A m : Knows(m, at_bol, has_space)' = Knows(m, at_bol', has_space')
      BY DEF Knows
    <2>. QED BY <2>1, <2>2, <2>3 DEF Marked
  <1>. QED BY <1>1, <1>3, <1>5, <1>6, <1>7 DEF Cutting

\* A token is cut at p.
LEMMA TokenCut ==
  ASSUME IInv, Content, Cutting, phase = "tokenize", buf' = buf, q' = q, phase' = phase,
         NEW kind \in Kinds \ {"eof"}, NEW len \in Nat \ {0}, NEW bol, NEW space,
         kind # "float" => bol = at_bol /\ space = has_space, kind = "float" => bol = FALSE /\ space = FALSE,
         tokens' = Append(tokens, Token(kind, p, len, bol, space)),
         at_bol' = FALSE, has_space' = FALSE, p' = p + len, p + len <= q, buf[p] # "nl"
  PROVE  Cutting'
  <1>1. /\ q \in Nat /\ p \in Nat \ {0} /\ Cut(tokens, buf, p) /\ at_bol \in BOOLEAN /\ has_space \in BOOLEAN
        /\ \A j \in 1 .. Len(tokens) : tokens[j].kind # "eof" /\ Exact(tokens, buf, j)
    BY DEF IInv, BufferOK, Cutting
  <1>2. PICK k, ts, b : k \in Nat \ {0} /\ k = p /\ ts = tokens /\ b = buf
    BY <1>1
  <1>3. Len(ts) \in Nat /\ ts \in Seq(Tokens)
    BY <1>1, <1>2, LastEnd
  <1>4. PICK t : t = Token(kind, k, len, bol, space)
    OBVIOUS
  <1>5. /\ t \in Tokens /\ t.kind = kind /\ t.loc = k /\ t.len = len /\ t.at_bol = bol /\ t.has_space = space
        /\ tokens' = Append(ts, t)
    <2>1. bol \in BOOLEAN /\ space \in BOOLEAN
      BY <1>1
    <2>2. t = [kind |-> kind, loc |-> k, len |-> len, at_bol |-> bol, has_space |-> space, line_no |-> 0]
      BY <1>4 DEF Token
    <2>3. tokens' = Append(ts, t)
      BY <1>2, <1>4
    <2>4. k \in Nat \ {0} /\ kind \in Kinds
      BY <1>2
    <2>5. t \in Tokens
      BY <2>1, <2>2, <2>4 DEF Tokens
    <2>. QED BY <2>2, <2>3, <2>5
  <1>6. PICK us : us = Append(ts, t)
    OBVIOUS
  <1>7. us \in Seq(Tokens) /\ Len(us) = Len(ts) + 1 /\ us[Len(ts) + 1] = t /\ \A j \in 1 .. Len(ts) : us[j] = ts[j]
    BY <1>3, <1>5, <1>6
  <1>8. Cut(us, b, k + len)
    BY <1>1, <1>2, <1>5, <1>6, CutOneMore
  <1>9. Exact(us, b, Len(ts) + 1)
    <2>1. PICK f, g :
            /\ f \in Nat \ {0} /\ f = From(ts, Len(ts) + 1) /\ g = First(Len(ts) + 1)
            /\ \E mode \in {"code", "line"} :
                 Between(b, f, k - 1, g) = Knows(mode, at_bol, has_space) /\ (mode = "line" => b[k] = "nl")
      BY <1>2, Known
    <2>2. Between(b, f, k - 1, g) = Knows("code", at_bol, has_space)
      BY <1>2, <2>1
    <2>3. From(us, Len(ts) + 1) = f
      BY <1>3, <1>5, <1>6, <2>1, ExactOneMore
    <2>4. us[Len(ts) + 1] = t /\ t.loc - 1 = k - 1
      BY <1>5, <1>7
    <2>5. Between(b, From(us, Len(ts) + 1), us[Len(ts) + 1].loc - 1, First(Len(ts) + 1)) = Knows("code", at_bol, has_space)
      BY <2>1, <2>2, <2>3, <2>4
    <2>. QED BY <1>5, <2>4, <2>5 DEF Exact, Knows
  <1>10. \A j \in 1 .. Len(us) : us[j].kind # "eof" /\ Exact(us, b, j)
    <2>. SUFFICES ASSUME NEW j \in 1 .. Len(us)
                  PROVE  us[j].kind # "eof" /\ Exact(us, b, j)
      OBVIOUS
    <2>1. CASE j \in 1 .. Len(ts)
      <3>1. us[j].kind # "eof"
        BY <1>1, <1>2, <1>7, <2>1
      <3>2. Exact(ts, b, j)
        BY <1>1, <1>2, <2>1
      <3>. QED BY <1>3, <1>5, <1>6, <2>1, <3>1, <3>2, ExactOneMore
    <2>2. CASE j = Len(ts) + 1
      BY <1>5, <1>7, <1>9, <2>2
    <2>3. j \in 1 .. Len(ts) \/ j = Len(ts) + 1
      BY <1>3, <1>7
    <2>. QED BY <2>1, <2>2, <2>3
  <1>11. k + len \in 1 .. q /\ k + len \in Nat \ {0}
    BY <1>1, <1>2
  <1>12. Between(b, From(us, Len(us) + 1), (k + len) - 1, First(Len(us) + 1)) = Knows("code", No, No)
    <2>1. Len(us) + 1 = Len(ts) + 2
      BY <1>3, <1>7
    <2>2. From(us, Len(us) + 1) = k + len
      BY <1>3, <1>5, <1>6, <2>1, ExactOneMore
    <2>3. First(Len(us) + 1) = No
      BY <1>3, <2>1 DEF First, No
    <2>4. PICK h : h = First(Len(us) + 1)
      OBVIOUS
    <2>5. PICK e \in Nat \ {0} : e = k + len
      BY <1>11
    <2>6. PICK e1 \in Nat : e1 = e - 1 /\ e - 1 <= e1
      OBVIOUS
    <2>7. Between(b, e, e1, h) = Knows("code", h, No)
      BY <2>6, BetweenNext
    <2>. QED BY <2>2, <2>3, <2>4, <2>5, <2>6, <2>7
  <1>13. /\ Cut(tokens, buf, p)' = Cut(us, b, k + len)
         /\ \A j : Exact(tokens, buf, j)' = Exact(us, b, j)
    <2>1. /\ Cut(tokens, buf, p)' = Cut(tokens', buf', p')
          /\ \A j : Exact(tokens, buf, j)' = Exact(tokens', buf', j)
      BY DEF Cut, Exact, Between, Scan, From, First
    <2>. QED BY <1>2, <1>5, <1>6, <2>1
  <1>14. Marked'
    <2>1. Between(buf, From(tokens, Len(tokens) + 1), p - 1, First(Len(tokens) + 1))'
            = Between(buf', From(tokens', Len(tokens') + 1), p' - 1, First(Len(tokens') + 1))
      BY DEF Between, Scan, From, First
    <2>2. \A m : Knows(m, at_bol, has_space)' = Knows(m, at_bol', has_space')
      BY DEF Knows
    <2>3. buf' = b /\ tokens' = us /\ p' = k + len /\ at_bol' = No /\ has_space' = No
      BY <1>2, <1>5, <1>6 DEF No
    <2>4. Between(buf, From(tokens, Len(tokens) + 1), p - 1, First(Len(tokens) + 1))'
            = Knows("code", at_bol, has_space)'
      BY <1>12, <2>1, <2>2, <2>3
    <2>. QED BY <2>4 DEF Marked
  <1>15. tokens' = us /\ p' \in 1 .. q' /\ at_bol' \in BOOLEAN /\ has_space' \in BOOLEAN
    BY <1>2, <1>5, <1>6, <1>11
  <1>. QED BY <1>8, <1>10, <1>13, <1>14, <1>15 DEF Cutting

LEMMA Failed ==
  ASSUME Error
  PROVE  Cutting'
BY DEF Error, Cutting

\* The first two characters of a comment
LEMMA CommentStarts ==
  ASSUME IInv, Content, Cutting, phase = "tokenize", NEW c \in Chars \ {"nl"},
         StartsWith(p, <<"/", c>>)
  PROVE  /\ p \in Nat \ {0} /\ q \in Nat /\ p + 2 <= q /\ buf[p] = "/" /\ buf[p + 1] = c
         /\ c \notin {"nl", Nul} /\ p + 2 < q
  <1>1. q \in Nat /\ p \in 1 .. q
    BY DEF IInv, BufferOK, Cutting
  <1>2. At(p) = "/" /\ At(p + 1) = c
    <2>1. \A k \in 1 .. 2 : At(p + k - 1) = <<"/", c>>[k]
      BY DEF StartsWith
    <2>2. p + 1 - 1 = p /\ p + 2 - 1 = p + 1 /\ 1 \in 1 .. 2 /\ 2 \in 1 .. 2
      BY <1>1
    <2>. QED BY <2>1, <2>2
  <1>3. c \notin {"nl", Nul}
    BY DEF Chars, Symbols, Nul
  <1>4. p + 1 < q /\ buf[p] = "/"
    BY <1>1, <1>2, TextFrom DEF Nul
  <1>5. p + 1 \in 1 .. q
    BY <1>1, <1>4
  <1>6. buf[p + 1] = c /\ (p + 1) + 1 < q
    BY <1>2, <1>3, <1>5, TextFrom
  <1>. QED BY <1>1, <1>3, <1>4, <1>6

LEMMA LineCommentStep ==
  ASSUME IInv, Content, Cutting, LineComment
  PROVE  Cutting'
  <1>. DEFINE ends == {i \in DOMAIN buf : i >= p + 2 /\ buf[i] = "nl"}
  <1>1. phase = "tokenize" /\ StartsWith(p, <<"/", "/">>)
        /\ IF ends = {} THEN Error ELSE SkipTo(Least(ends), at_bol, TRUE)
    BY DEF LineComment, AtToken
  <1>2. CASE ends = {}
    BY <1>1, <1>2, Failed
  <1>3. CASE ends # {}
    <2>1. /\ p \in Nat \ {0} /\ q \in Nat /\ p + 2 <= q /\ buf[p] = "/" /\ buf[p + 1] = "/" /\ p + 2 < q
      <3>1. "/" \in Chars \ {"nl"}
        BY DEF Chars, Symbols
      <3>. QED BY <1>1, <3>1, CommentStarts
    <2>2. /\ q - 1 \in DOMAIN buf /\ buf[q - 1] = "nl" /\ DOMAIN buf = 1 .. Len(buf) /\ Len(buf) \in Nat
      <3>1. q <= Len(buf) /\ DOMAIN buf = 1 .. Len(buf) /\ buf \in Seq(Cells)
        BY <1>1, TextFrom
      <3>2. buf[q - 1] = "nl"
        BY <1>1 DEF Content, Written, Ended
      <3>. QED BY <2>1, <3>1, <3>2
    <2>3. q - 1 \in ends
      BY <2>1, <2>2
    <2>4. PICK e \in Nat : e = Least(ends) /\ e \in ends /\ \A i \in ends : e <= i
      <3>1. ends \subseteq Nat
        BY <2>2
      <3>. HIDE DEF ends
      <3>. QED BY <1>3, <3>1, LeastIs
    <2>5. p + 2 <= e /\ e <= q - 1 /\ buf[e] = "nl" /\ \A k \in p + 2 .. e - 1 : buf[k] # "nl"
      <3>1. e >= p + 2 /\ buf[e] = "nl" /\ e <= q - 1 /\ e \in 1 .. Len(buf)
        BY <2>2, <2>3, <2>4
      <3>2. ASSUME NEW k \in p + 2 .. e - 1, buf[k] = "nl"
            PROVE  FALSE
        <4>1. k \in ends /\ ~ (e <= k)
          BY <2>1, <2>2, <3>1, <3>2
        <4>. HIDE DEF ends
        <4>. QED BY <2>4, <4>1
      <3>. QED BY <2>1, <3>1, <3>2
    <2>6. /\ p' = e /\ at_bol' = at_bol /\ has_space' = Yes
          /\ UNCHANGED <<tokens, phase, buf, q>>
      BY <1>1, <1>3, <2>4 DEF SkipTo, Tokenizing, spliceVars, Yes
    <2>. HIDE DEF ends
    <2>7. PICK f, g : /\ f \in Nat \ {0} /\ f = From(tokens, Len(tokens) + 1) /\ g = First(Len(tokens) + 1) /\ f <= p
                      /\ \E mode \in {"code", "line"} :
                           Between(buf, f, p - 1, g) = Knows(mode, at_bol, has_space) /\ (mode = "line" => buf[p] = "nl")
      BY <1>1, Known
    <2>8. Between(buf, f, p - 1, g) = Knows("code", at_bol, has_space)
      BY <2>1, <2>7
    <2>9. Between(buf, f, e - 1, g) = Knows("line", at_bol, Yes)
      <3>1. PICK b, l, s, i : b = buf /\ l = at_bol /\ s = has_space /\ i = p /\ i \in Nat \ {0}
        BY <2>1
      <3>2. b[i] = "/" /\ b[i + 1] = "/" /\ Between(b, f, i - 1, g) = Knows("code", l, s) /\ f <= i
            /\ \A k \in i + 2 .. e - 1 : b[k] # "nl"
        BY <2>1, <2>5, <2>7, <2>8, <3>1
      <3>3. i + 2 <= e /\ f \in Nat \ {0}
        BY <2>1, <2>5, <2>7, <3>1
      <3>4. Between(b, f, e - 1, g) = Knows("line", l, Yes)
        BY <3>1, <3>2, <3>3, BetweenComments
      <3>. QED BY <3>1, <3>4
    <2>10. p <= e /\ e <= q /\ at_bol' \in BOOLEAN /\ has_space' \in BOOLEAN
      BY <1>1, <2>1, <2>5, <2>6 DEF Cutting, Yes
    <2>11. Between(buf, f, e - 1, g) = Knows("line", at_bol', has_space')
      BY <2>6, <2>9
    <2>. QED BY <1>1, <2>5, <2>6, <2>7, <2>10, <2>11, Skipped
  <1>. QED BY <1>2, <1>3

LEMMA BlockCommentStep ==
  ASSUME IInv, Content, Cutting, BlockComment
  PROVE  Cutting'
  <1>. DEFINE ends == {i \in p + 2 .. TextEnd(p + 2) : StartsWith(i, <<"*", "/">>)}
  <1>1. phase = "tokenize" /\ StartsWith(p, <<"/", "*">>)
        /\ IF ends = {} THEN Error ELSE SkipTo(Least(ends) + 2, at_bol, TRUE)
    BY DEF BlockComment, AtToken
  <1>2. CASE ends = {}
    BY <1>1, <1>2, Failed
  <1>3. CASE ends # {}
    <2>1. /\ p \in Nat \ {0} /\ q \in Nat /\ p + 2 <= q /\ buf[p] = "/" /\ buf[p + 1] = "*"
      <3>1. "*" \in Chars \ {"nl"}
        BY DEF Chars, Symbols
      <3>. QED BY <1>1, <3>1, CommentStarts
    <2>2. /\ q <= Len(buf) /\ DOMAIN buf = 1 .. Len(buf) /\ Len(buf) \in Nat /\ buf[q] = Nul
          /\ \A i \in 1 .. q : /\ At(i) = buf[i]
                               /\ At(i) = Nul => i = q
                               /\ At(i) \notin {"nl", Nul} => i + 1 < q
      <3>1. q <= Len(buf) /\ DOMAIN buf = 1 .. Len(buf) /\ buf \in Seq(Cells)
        BY <1>1, TextFrom
      <3>2. buf[q] = Nul
        BY <1>1 DEF Content, Written
      <3>. QED BY <1>1, <3>1, <3>2, TextFrom
    <2>3. TextEnd(p + 2) = q
      <3>. DEFINE nuls == {j \in DOMAIN buf : j >= p + 2 /\ buf[j] = Nul}
      <3>1. q \in nuls /\ nuls \subseteq Nat
        BY <2>1, <2>2
      <3>2. \A j \in nuls : q <= j
        <4>1. ASSUME NEW j \in nuls, j < q
              PROVE  FALSE
          <5>1. j \in 1 .. q /\ buf[j] = Nul /\ j # q
            BY <2>1, <2>2, <4>1
          <5>. QED BY <2>2, <5>1
        <4>. QED BY <2>1, <3>1, <4>1
      <3>3. TextEnd(p + 2) = Least(nuls)
        BY DEF TextEnd
      <3>. HIDE DEF nuls
      <3>4. Least(nuls) \in nuls /\ Least(nuls) <= q
        BY <3>1, LeastIs
      <3>5. PICK m \in Nat : m = Least(nuls) /\ m \in nuls /\ m <= q
        BY <3>1, <3>4
      <3>6. q <= m
        BY <3>2, <3>5
      <3>. QED BY <2>1, <3>3, <3>5, <3>6
    <2>4. PICK e \in Nat : e = Least(ends) /\ e \in ends /\ \A i \in ends : e <= i
      <3>1. ends \subseteq Nat
        BY <2>1, <2>3
      <3>. HIDE DEF ends
      <3>. QED BY <1>3, <3>1, LeastIs
    <2>5. \A i \in p + 2 .. q : StartsWith(i, <<"*", "/">>) <=> At(i) = "*" /\ At(i + 1) = "/"
      <3>. SUFFICES ASSUME NEW i \in p + 2 .. q
                    PROVE  StartsWith(i, <<"*", "/">>) <=> At(i) = "*" /\ At(i + 1) = "/"
        OBVIOUS
      <3>1. StartsWith(i, <<"*", "/">>) <=> \A k \in 1 .. 2 : At(i + k - 1) = <<"*", "/">>[k]
        BY DEF StartsWith
      <3>2. i + 1 - 1 = i /\ i + 2 - 1 = i + 1
        BY <2>1
      <3>3. \A k \in 1 .. 2 : k = 1 \/ k = 2
        OBVIOUS
      <3>. QED BY <3>1, <3>2, <3>3
    <2>6. e \in p + 2 .. q /\ e \in 1 .. q /\ At(e) = "*" /\ At(e + 1) = "/"
      <3>1. e \in p + 2 .. q /\ StartsWith(e, <<"*", "/">>)
        BY <2>3, <2>4
      <3>. QED BY <2>1, <2>5, <3>1
    <2>7. e + 1 < q /\ e + 1 \in 1 .. q /\ buf[e] = "*" /\ buf[e + 1] = "/"
      <3>1. e + 1 < q /\ buf[e] = "*"
        BY <2>2, <2>6 DEF Nul
      <3>2. e + 1 \in 1 .. q
        BY <2>1, <3>1
      <3>. QED BY <2>2, <2>6, <3>1, <3>2
    <2>8. \A k \in p + 2 .. e - 1 : ~ (buf[k] = "*" /\ buf[k + 1] = "/")
      <3>. SUFFICES ASSUME NEW k \in p + 2 .. e - 1, buf[k] = "*", buf[k + 1] = "/"
                    PROVE  FALSE
        OBVIOUS
      <3>1. k \in p + 2 .. q /\ k \in 1 .. q /\ k + 1 \in 1 .. q /\ ~ (e <= k)
        BY <2>1, <2>6
      <3>2. At(k) = "*" /\ At(k + 1) = "/"
        BY <2>2, <3>1
      <3>3. k \in ends
        BY <2>3, <2>5, <3>1, <3>2
      <3>. HIDE DEF ends
      <3>. QED BY <2>4, <3>1, <3>3
    <2>9. /\ p' = e + 2 /\ at_bol' = at_bol /\ has_space' = Yes
          /\ UNCHANGED <<tokens, phase, buf, q>>
      BY <1>1, <1>3, <2>4 DEF SkipTo, Tokenizing, spliceVars, Yes
    <2>. HIDE DEF ends
    <2>10. PICK f, g : /\ f \in Nat \ {0} /\ f = From(tokens, Len(tokens) + 1) /\ g = First(Len(tokens) + 1) /\ f <= p
                       /\ \E mode \in {"code", "line"} :
                            Between(buf, f, p - 1, g) = Knows(mode, at_bol, has_space) /\ (mode = "line" => buf[p] = "nl")
      BY <1>1, Known
    <2>11. Between(buf, f, p - 1, g) = Knows("code", at_bol, has_space)
      BY <2>1, <2>10
    <2>12. Between(buf, f, e + 1, g) = Knows("code", at_bol, Yes)
      <3>1. PICK b, l, s, i : b = buf /\ l = at_bol /\ s = has_space /\ i = p /\ i \in Nat \ {0}
        BY <2>1
      <3>2. b[i] = "/" /\ b[i + 1] = "*" /\ b[e] = "*" /\ b[e + 1] = "/" /\ f <= i
            /\ (\A k \in i + 2 .. e - 1 : ~ (b[k] = "*" /\ b[k + 1] = "/"))
            /\ Between(b, f, i - 1, g) = Knows("code", l, s)
        BY <2>1, <2>7, <2>8, <2>10, <2>11, <3>1
      <3>3. i + 2 <= e
        BY <2>1, <2>6, <3>1
      <3>4. Between(b, f, e + 1, g) = Knows("code", l, Yes)
        BY <2>10, <3>1, <3>2, <3>3, BetweenComments
      <3>. QED BY <3>1, <3>4
    <2>13. PICK i \in Nat : i = e + 2 /\ p <= i /\ i <= q /\ i - 1 = e + 1
      BY <2>1, <2>6, <2>7
    <2>14. at_bol' \in BOOLEAN /\ has_space' \in BOOLEAN
      BY <1>1, <2>9 DEF Cutting, Yes
    <2>15. Between(buf, f, i - 1, g) = Knows("code", at_bol', has_space')
      BY <2>9, <2>12, <2>13
    <2>16. p' = i
      BY <2>9, <2>13
    <2>. QED BY <1>1, <2>9, <2>10, <2>13, <2>14, <2>15, <2>16, Skipped
  <1>. QED BY <1>2, <1>3

\* Where tokenize() stands
LEMMA Standing ==
  ASSUME IInv, Content, Cutting, phase = "tokenize"
  PROVE  /\ p \in Nat \ {0} /\ q \in Nat /\ p \in 1 .. q /\ At(p) = buf[p]
         /\ \A i \in 1 .. q : /\ At(i) = buf[i]
                              /\ At(i) = Nul => i = q
                              /\ At(i) # Nul => i < q
                              /\ At(i) \notin {"nl", Nul} => i + 1 < q
  <1>1. q \in Nat /\ p \in 1 .. q
    BY DEF IInv, BufferOK, Cutting
  <1>2. p \in Nat \ {0}
    BY <1>1
  <1>. QED BY <1>1, <1>2, TextFrom

LEMMA NewLineStep ==
  ASSUME IInv, Content, Cutting, NewLine
  PROVE  Cutting'
  <1>1. /\ phase = "tokenize" /\ At(p) = "nl" /\ p' = p + 1 /\ at_bol' = Yes /\ has_space' = No
        /\ UNCHANGED <<tokens, phase, buf, q>>
    BY DEF NewLine, AtToken, SkipTo, Tokenizing, spliceVars, Yes, No
  <1>2. p \in Nat \ {0} /\ q \in Nat /\ p < q /\ buf[p] = "nl"
    BY <1>1, Standing DEF Nul
  <1>3. PICK f, g : /\ f \in Nat \ {0} /\ f = From(tokens, Len(tokens) + 1) /\ g = First(Len(tokens) + 1) /\ f <= p
                    /\ \E mode \in {"code", "line"} :
                         Between(buf, f, p - 1, g) = Knows(mode, at_bol, has_space) /\ (mode = "line" => buf[p] = "nl")
    BY <1>1, Known
  <1>4. PICK b, l, s, i : b = buf /\ l = at_bol /\ s = has_space /\ i = p /\ i \in Nat \ {0}
    BY <1>2
  <1>5. PICK mode \in {"code", "line"} : Between(b, f, i - 1, g) = Knows(mode, l, s)
    BY <1>3, <1>4
  <1>6. Between(b, f, i, g) = Scan(b, Between(b, f, i - 1, g), i)
    <2>1. f \in Nat \ {0} /\ i \in Nat /\ f - 1 <= i /\ f <= i
      BY <1>3, <1>4
    <2>. QED BY <2>1, BetweenNext
  <1>7. Scan(b, Knows(mode, l, s), i) = Knows("code", Yes, No)
    <2>1. b[i] = "nl"
      BY <1>2, <1>4
    <2>2. Scan(b, Knows("code", l, s), i) = Knows("code", Yes, No) /\ Scan(b, Knows("line", l, s), i) = Knows("code", Yes, No)
      BY <2>1, ScanSteps
    <2>. QED BY <2>2
  <1>8. PICK j \in Nat : j = i + 1 /\ j - 1 = i
    BY <1>4
  <1>9. Between(buf, f, j - 1, g) = Knows("code", at_bol', has_space')
    BY <1>1, <1>4, <1>5, <1>6, <1>7, <1>8
  <1>10. p <= j /\ j <= q /\ p' = j /\ at_bol' \in BOOLEAN /\ has_space' \in BOOLEAN
    <2>1. at_bol' \in BOOLEAN /\ has_space' \in BOOLEAN
      BY <1>1 DEF Yes, No
    <2>. QED BY <1>1, <1>2, <1>4, <1>8, <2>1
  <1>. QED BY <1>1, <1>3, <1>9, <1>10, Skipped

LEMMA SpaceStep ==
  ASSUME IInv, Content, Cutting, Space
  PROVE  Cutting'
  <1>1. /\ phase = "tokenize" /\ At(p) = "sp" /\ p' = p + 1 /\ at_bol' = at_bol /\ has_space' = Yes
        /\ UNCHANGED <<tokens, phase, buf, q>>
    BY DEF Space, AtToken, SkipTo, Tokenizing, spliceVars, Yes
  <1>2. p \in Nat \ {0} /\ q \in Nat /\ p < q /\ buf[p] = "sp"
    BY <1>1, Standing DEF Nul
  <1>3. PICK f, g : /\ f \in Nat \ {0} /\ f = From(tokens, Len(tokens) + 1) /\ g = First(Len(tokens) + 1) /\ f <= p
                    /\ \E mode \in {"code", "line"} :
                         Between(buf, f, p - 1, g) = Knows(mode, at_bol, has_space) /\ (mode = "line" => buf[p] = "nl")
    BY <1>1, Known
  <1>4. PICK b, l, s, i : b = buf /\ l = at_bol /\ s = has_space /\ i = p /\ i \in Nat \ {0}
    BY <1>2
  <1>5. Between(b, f, i - 1, g) = Knows("code", l, s)
    BY <1>2, <1>3, <1>4
  <1>6. Between(b, f, i, g) = Scan(b, Between(b, f, i - 1, g), i)
    <2>1. f \in Nat \ {0} /\ i \in Nat /\ f - 1 <= i /\ f <= i
      BY <1>3, <1>4
    <2>. QED BY <2>1, BetweenNext
  <1>7. Scan(b, Knows("code", l, s), i) = Knows("code", l, Yes)
    <2>1. b[i] = "sp"
      BY <1>2, <1>4
    <2>. QED BY <2>1, ScanSteps
  <1>8. PICK j \in Nat : j = i + 1 /\ j - 1 = i
    BY <1>4
  <1>9. Between(buf, f, j - 1, g) = Knows("code", at_bol', has_space')
    BY <1>1, <1>4, <1>5, <1>6, <1>7, <1>8
  <1>10. p <= j /\ j <= q /\ p' = j /\ at_bol' \in BOOLEAN /\ has_space' \in BOOLEAN
    BY <1>1, <1>2, <1>4, <1>8 DEF Yes, Cutting
  <1>. QED BY <1>1, <1>3, <1>9, <1>10, Skipped

\* new_token()
LEMMA NewTokenStep ==
  ASSUME IInv, Content, Cutting, phase = "tokenize", NEW kind \in Kinds \ {"eof", "float"},
         NEW len \in Nat \ {0}, NewToken(kind, len), p + len <= q, At(p) # "nl"
  PROVE  Cutting'
  <1>1. /\ tokens' = Append(tokens, Token(kind, p, len, at_bol, has_space)) /\ p' = p + len
        /\ at_bol' = FALSE /\ has_space' = FALSE /\ buf' = buf /\ q' = q /\ phase' = phase
    BY DEF NewToken, Tokenizing, spliceVars
  <1>2. PICK bol, space : bol = at_bol /\ space = has_space
    OBVIOUS
  <1>3. buf[p] # "nl"
    BY Standing
  <1>4. kind \in Kinds \ {"eof"} /\ kind # "float"
    OBVIOUS
  <1>5. tokens' = Append(tokens, Token(kind, p, len, bol, space))
    BY <1>1, <1>2
  <1>. QED BY <1>1, <1>2, <1>3, <1>4, <1>5, TokenCut

LEMMA IdentifierStep ==
  ASSUME IInv, Content, Cutting, Identifier
  PROVE  Cutting'
  <1>1. phase = "tokenize" /\ At(p) = "a" /\ NewToken("ident", Run(p, Digits \cup {"a"}))
    BY DEF Identifier, AtToken
  <1>2. PICK len \in Nat : len = Run(p, Digits \cup {"a"}) /\ p + len <= q /\ len # 0
    <2>1. p \in 1 .. q /\ Nul \notin Digits \cup {"a"} /\ At(p) \in Digits \cup {"a"}
      BY <1>1, Standing DEF Digits, Nul
    <2>. QED BY <1>1, <2>1, RunEnds
  <1>3. NewToken("ident", len) /\ len \in Nat \ {0} /\ "ident" \in Kinds \ {"eof", "float"}
    BY <1>1, <1>2 DEF Kinds
  <1>4. At(p) # "nl"
    BY <1>1
  <1>. QED BY <1>1, <1>2, <1>3, <1>4, NewTokenStep

LEMMA StringLiteralStep ==
  ASSUME IInv, Content, Cutting, StringLiteral
  PROVE  Cutting'
  <1>1. phase = "tokenize" /\ At(p) = "quote"
        /\ IF ClosingQuote = 0 THEN Error ELSE NewToken("str", ClosingQuote - p + 1)
    BY DEF StringLiteral, AtToken
  <1>2. CASE ClosingQuote = 0
    BY <1>1, <1>2, Failed
  <1>3. CASE ClosingQuote # 0
    <2>1. p \in 1 .. q /\ p \in Nat \ {0} /\ q \in Nat
      BY <1>1, Standing
    <2>2. PICK c \in Nat : c = ClosingQuote /\ p < c /\ c < q
      BY <1>1, <1>3, <2>1, QuoteCloses
    <2>3. PICK len \in Nat \ {0} : len = c - p + 1 /\ p + len <= q
      BY <2>1, <2>2
    <2>4. NewToken("str", len) /\ "str" \in Kinds \ {"eof", "float"}
      BY <1>1, <1>3, <2>2, <2>3 DEF Kinds
    <2>5. At(p) # "nl"
      BY <1>1
    <2>. QED BY <1>1, <2>3, <2>4, <2>5, NewTokenStep
  <1>. QED BY <1>2, <1>3

LEMMA CharLiteralStep ==
  ASSUME IInv, Content, Cutting, CharLiteral
  PROVE  Cutting'
  <1>1. phase = "tokenize" /\ At(p) = "tick"
        /\ IF At(p + 1) = Nul \/ At(p + CharLen + 1) # "tick" THEN Error ELSE NewToken("char", CharLen + 2)
    BY DEF CharLiteral, AtToken
  <1>2. CASE At(p + 1) = Nul \/ At(p + CharLen + 1) # "tick"
    BY <1>1, <1>2, Failed
  <1>3. CASE ~ (At(p + 1) = Nul \/ At(p + CharLen + 1) # "tick")
    <2>1. p \in 1 .. q /\ p \in Nat \ {0} /\ q \in Nat
      BY <1>1, Standing
    <2>2. p + 1 < q
      BY <1>1, <2>1, Standing DEF Nul
    <2>3. p + 1 \in 1 .. q /\ p + 2 \in 1 .. q
      BY <2>1, <2>2
    <2>4. PICK len \in Nat \ {0} : len = CharLen /\ p + len + 1 <= q
      <3>1. CASE At(p + 1) # "bs"
        <4>1. CharLen = 1
          BY <3>1 DEF CharLen
        <4>. QED BY <2>1, <2>2, <4>1
      <3>2. CASE At(p + 1) = "bs"
        <4>1. (p + 1) + 1 < q
          BY <1>1, <2>3, <3>2, Standing DEF Nul
        <4>2. CASE At(p + 2) \in Digits
          <5>1. PICK r \in Nat : r = Run(p + 2, Digits) /\ (p + 2) + r <= q /\ r # 0
            <6>1. Nul \notin Digits
              BY DEF Digits, Nul
            <6>2. PICK i \in 1 .. q : i = p + 2
              BY <2>3
            <6>3. Run(i, Digits) \in Nat /\ i + Run(i, Digits) <= q /\ Run(i, Digits) # 0
              BY <1>1, <4>2, <6>1, <6>2, RunEnds
            <6>. QED BY <6>2, <6>3
          <5>2. CharLen = 1 + Smaller(3, r)
            BY <3>2, <4>2, <5>1 DEF CharLen
          <5>3. Smaller(3, r) \in Nat /\ Smaller(3, r) <= r
            BY DEF Smaller
          <5>. QED BY <2>1, <5>1, <5>2, <5>3
        <4>3. CASE At(p + 2) \notin Digits
          <5>1. CharLen = 2
            BY <3>2, <4>3 DEF CharLen
          <5>. QED BY <2>1, <4>1, <5>1
        <4>. QED BY <4>2, <4>3
      <3>. QED BY <3>1, <3>2
    <2>5. PICK i \in 1 .. q : i = p + len + 1
      BY <2>1, <2>4
    <2>6. At(i) = "tick"
      BY <1>3, <2>4, <2>5
    <2>7. i + 1 < q
      BY <1>1, <2>6, Standing DEF Nul
    <2>8. PICK len2 \in Nat \ {0} : len2 = len + 2 /\ p + len2 <= q
      BY <2>1, <2>4, <2>5, <2>7
    <2>9. NewToken("char", len2) /\ "char" \in Kinds \ {"eof", "float"}
      BY <1>1, <1>3, <2>4, <2>8 DEF Kinds
    <2>10. At(p) # "nl"
      BY <1>1
    <2>. QED BY <1>1, <2>8, <2>9, <2>10, NewTokenStep
  <1>. QED BY <1>2, <1>3

LEMMA NumberStep ==
  ASSUME IInv, Content, Cutting, Number
  PROVE  Cutting'
  <1>1. phase = "tokenize" /\ StartsNumber
    BY DEF Number, AtToken
  <1>2. /\ p \in Nat \ {0} /\ q \in Nat /\ p \in 1 .. q /\ At(p) = buf[p]
        /\ At(p) \in {"1", "."}
    BY <1>1, Standing DEF StartsNumber, Digits
  <1>3. PICK len \in Nat : len = Run(p, Digits) /\ p + len <= q /\ (At(p) = "1" => len # 0)
    <2>1. Nul \notin Digits
      BY DEF Digits, Nul
    <2>2. "1" \in Digits
      BY DEF Digits
    <2>. QED BY <1>1, <1>2, <2>1, <2>2, RunEnds
  <1>4. CASE FloatFollows(At(p + len))
    <2>1. /\ tokens' = Append(tokens, Token("float", p, FloatLen, FALSE, FALSE))
          /\ at_bol' = FALSE /\ has_space' = FALSE
          /\ p' = p + FloatLen /\ buf' = buf /\ q' = q /\ phase' = phase
      BY <1>3, <1>4 DEF Number, Tokenizing, spliceVars
    <2>2. PICK len2 \in Nat \ {0} : len2 = FloatLen /\ p + len2 <= q
      <3>1. CASE At(p + len) = "."
        <4>1. PICK i \in 1 .. q : i = p + len /\ i < q
          <5>1. p + len \in 1 .. q
            BY <1>2, <1>3
          <5>2. p + len < q
            BY <1>1, <3>1, <5>1, Standing DEF Nul
          <5>. QED BY <5>1, <5>2
        <4>2. PICK j \in 1 .. q : j = i + 1
          BY <1>2, <4>1
        <4>3. PICK r \in Nat : r = Run(j, Digits) /\ j + r <= q
          <5>1. Nul \notin Digits
            BY DEF Digits, Nul
          <5>. QED BY <1>1, <5>1, RunEnds
        <4>4. FloatLen = len + 1 + Run(p + len + 1, Digits)
          BY <1>3, <3>1 DEF FloatLen
        <4>5. p + len + 1 = j
          BY <4>1, <4>2
        <4>6. FloatLen = len + 1 + r
          BY <4>3, <4>4, <4>5
        <4>. QED BY <1>2, <4>3, <4>5, <4>6
      <3>2. CASE At(p + len) # "."
        <4>1. FloatLen = len
          BY <1>3, <3>2 DEF FloatLen
        <4>2. len # 0
          <5>1. CASE At(p) = "."
            <6>1. p + 0 = p
              BY <1>2
            <6>. QED BY <3>2, <5>1, <6>1
          <5>. QED BY <1>2, <1>3, <5>1
        <4>. QED BY <1>3, <4>1, <4>2
      <3>. QED BY <3>1, <3>2
    <2>3. tokens' = Append(tokens, Token("float", p, len2, FALSE, FALSE)) /\ p' = p + len2
      BY <2>1, <2>2
    <2>4. PICK kind, bol, space : kind = "float" /\ bol = FALSE /\ space = FALSE
      OBVIOUS
    <2>5. kind \in Kinds \ {"eof"} /\ tokens' = Append(tokens, Token(kind, p, len2, bol, space))
      BY <2>3, <2>4 DEF Kinds
    <2>6. buf[p] # "nl"
      BY <1>2
    <2>. QED BY <1>1, <2>1, <2>2, <2>3, <2>4, <2>5, <2>6, TokenCut
  <1>5. CASE ~ FloatFollows(At(p + len))
    <2>1. NewToken("int", len)
      BY <1>3, <1>5 DEF Number
    <2>2. len # 0
      <3>1. CASE At(p) = "." /\ len = 0
        <4>1. p + 0 = p
          BY <1>2
        <4>2. FloatFollows(At(p + len))
          BY <3>1, <4>1 DEF FloatFollows
        <4>. QED BY <1>5, <4>2
      <3>. QED BY <1>2, <1>3, <3>1
    <2>3. len \in Nat \ {0} /\ "int" \in Kinds \ {"eof", "float"}
      BY <2>2 DEF Kinds
    <2>4. At(p) # "nl"
      BY <1>2
    <2>. QED BY <1>1, <1>3, <2>1, <2>3, <2>4, NewTokenStep
  <1>. QED BY <1>4, <1>5

LEMMA SymbolStep ==
  ASSUME IInv, Content, Cutting, Symbol
  PROVE  Cutting'
  <1>. DEFINE l == IF StartsWith(p, <<".", ".", ".">>) THEN 3 ELSE IF StartsWith(p, <<"#", "#">>) THEN 2 ELSE 1
  <1>1. phase = "tokenize" /\ At(p) \in Symbols /\ NewToken("reserved", l)
    BY DEF Symbol, AtToken
  <1>2. /\ p \in Nat \ {0} /\ q \in Nat /\ p \in 1 .. q /\ p + 1 < q
    <2>1. At(p) \notin {"nl", Nul}
      BY <1>1 DEF Symbols, Nul
    <2>. QED BY <1>1, <2>1, Standing
  <1>3. PICK len \in Nat \ {0} : len = l /\ p + len <= q
    <2>1. CASE StartsWith(p, <<".", ".", ".">>)
      <3>1. At(p + 1) = "."
        <4>1. \A k \in 1 .. 3 : At(p + k - 1) = <<".", ".", ".">>[k]
          BY <2>1 DEF StartsWith
        <4>2. p + 2 - 1 = p + 1 /\ 2 \in 1 .. 3
          BY <1>2
        <4>. QED BY <4>1, <4>2
      <3>2. p + 1 \in 1 .. q
        BY <1>2
      <3>3. (p + 1) + 1 < q
        BY <1>1, <3>1, <3>2, Standing DEF Nul
      <3>4. l = 3
        BY <2>1
      <3>. HIDE DEF l
      <3>. QED BY <1>2, <3>3, <3>4
    <2>2. CASE ~ StartsWith(p, <<".", ".", ".">>)
      <3>1. l \in {1, 2}
        BY <2>2
      <3>. HIDE DEF l
      <3>. QED BY <1>2, <3>1
    <2>. QED BY <2>1, <2>2
  <1>. HIDE DEF l
  <1>4. NewToken("reserved", len) /\ "reserved" \in Kinds \ {"eof", "float"}
    BY <1>1, <1>3 DEF Kinds
  <1>5. At(p) # "nl"
    BY <1>1 DEF Symbols
  <1>. QED BY <1>1, <1>3, <1>4, <1>5, NewTokenStep

\* The token that ends the text stands where the text ends.
LEMMA EndOfTextStep ==
  ASSUME IInv, Content, Fresh, Cutting, EndOfText
  PROVE  Whole' /\ Numbering'
  <1>1. /\ phase = "tokenize" /\ At(p) = Nul /\ p' = 1 /\ phase' = "number" /\ buf' = buf /\ q' = q
        /\ tokens' = Append(tokens, Token("eof", p, 1, at_bol, has_space))
        /\ place' = 1 /\ line_no' = 1
    BY DEF EndOfText, AtToken, Tokenizing, spliceVars, numberVars, Fresh
  <1>2. /\ q \in Nat /\ p \in Nat \ {0} /\ p = q /\ buf[p] = Nul
    BY <1>1, Standing
  <1>3. /\ Cut(tokens, buf, p) /\ at_bol \in BOOLEAN /\ has_space \in BOOLEAN
        /\ \A j \in 1 .. Len(tokens) : tokens[j].kind # "eof" /\ Exact(tokens, buf, j)
    BY <1>1 DEF Cutting
  <1>4. PICK k, ts, b : k \in Nat \ {0} /\ k = p /\ ts = tokens /\ b = buf
    BY <1>2
  <1>5. Len(ts) \in Nat /\ ts \in Seq(Tokens)
    BY <1>2, <1>3, <1>4, LastEnd
  <1>6. PICK t : t = Token("eof", k, 1, at_bol, has_space)
    OBVIOUS
  <1>7. /\ t \in Tokens /\ t.kind = "eof" /\ t.loc = k /\ t.len = 1 /\ t.at_bol = at_bol /\ t.has_space = has_space
        /\ tokens' = Append(ts, t)
    <2>1. t = [kind |-> "eof", loc |-> k, len |-> 1, at_bol |-> at_bol, has_space |-> has_space, line_no |-> 0]
      BY <1>6 DEF Token
    <2>2. tokens' = Append(ts, t)
      BY <1>1, <1>4, <1>6
    <2>3. k \in Nat \ {0} /\ "eof" \in Kinds /\ 1 \in Nat \ {0}
      BY <1>4 DEF Kinds
    <2>4. t \in Tokens
      BY <1>3, <2>1, <2>3 DEF Tokens
    <2>. QED BY <2>1, <2>2, <2>4
  <1>8. PICK us : us = Append(ts, t)
    OBVIOUS
  <1>9. us \in Seq(Tokens) /\ Len(us) = Len(ts) + 1 /\ us[Len(ts) + 1] = t /\ \A j \in 1 .. Len(ts) : us[j] = ts[j]
    BY <1>5, <1>7, <1>8
  <1>10. Cut(us, b, k + 1)
    <2>1. b[t.loc] # "nl"
      BY <1>2, <1>4, <1>7 DEF Nul
    <2>. QED BY <1>3, <1>4, <1>7, <1>8, <2>1, CutOneMore
  <1>11. Exact(us, b, Len(ts) + 1)
    <2>1. PICK f, g :
            /\ f \in Nat \ {0} /\ f = From(ts, Len(ts) + 1) /\ g = First(Len(ts) + 1)
            /\ \E mode \in {"code", "line"} :
                 Between(b, f, k - 1, g) = Knows(mode, at_bol, has_space) /\ (mode = "line" => b[k] = "nl")
      BY <1>1, <1>4, Known
    <2>2. Between(b, f, k - 1, g) = Knows("code", at_bol, has_space)
      BY <1>2, <1>4, <2>1 DEF Nul
    <2>3. From(us, Len(ts) + 1) = f
      BY <1>5, <1>7, <1>8, <2>1, ExactOneMore
    <2>4. us[Len(ts) + 1] = t /\ t.loc - 1 = k - 1
      BY <1>7, <1>9
    <2>5. Between(b, From(us, Len(ts) + 1), us[Len(ts) + 1].loc - 1, First(Len(ts) + 1)) = Knows("code", at_bol, has_space)
      BY <2>1, <2>2, <2>3, <2>4
    <2>. QED BY <1>7, <2>4, <2>5 DEF Exact, Knows
  <1>12. \A j \in 1 .. Len(us) : Exact(us, b, j) /\ (us[j].kind # "eof" => us[j].loc + us[j].len <= q)
    <2>. SUFFICES ASSUME NEW j \in 1 .. Len(us)
                  PROVE  Exact(us, b, j) /\ (us[j].kind # "eof" => us[j].loc + us[j].len <= q)
      OBVIOUS
    <2>1. CASE j \in 1 .. Len(ts)
      <3>1. us[j] = ts[j] /\ ts[j].loc + ts[j].len <= q
        BY <1>2, <1>3, <1>4, <1>9, <2>1 DEF Cut
      <3>2. Exact(ts, b, j)
        BY <1>3, <1>4, <2>1
      <3>3. Exact(us, b, j)
        BY <1>5, <1>7, <1>8, <2>1, <3>2, ExactOneMore
      <3>. QED BY <3>1, <3>3
    <2>2. CASE j = Len(ts) + 1
      BY <1>7, <1>9, <1>11, <2>2
    <2>3. j \in 1 .. Len(ts) \/ j = Len(ts) + 1
      BY <1>5, <1>9
    <2>. QED BY <2>1, <2>2, <2>3
  <1>13. /\ Cut(tokens, buf, q + 1)' = Cut(us, b, q + 1)
         /\ \A j : Exact(tokens, buf, j)' = Exact(us, b, j)
         /\ tokens' = us
    <2>1. /\ Cut(tokens, buf, q + 1)' = Cut(tokens', buf', q' + 1)
          /\ \A j : Exact(tokens, buf, j)' = Exact(tokens', buf', j)
      BY DEF Cut, Exact, Between, Scan, From, First
    <2>2. tokens' = us /\ buf' = b /\ q' = q
      BY <1>1, <1>4, <1>7, <1>8
    <2>. QED BY <2>1, <2>2
  <1>14. Whole'
    <2>1. Cut(us, b, q + 1) /\ q' = q
      BY <1>1, <1>2, <1>4, <1>10
    <2>. QED BY <1>12, <1>13, <2>1 DEF Whole
  <1>15. Numbering'
    <2>1. 1 \in 1 .. q /\ 1 \in 1 .. Len(us) + 1
      BY <1>2, <1>5, <1>9
    <2>2. \A i \in 1 .. Len(us) : ~ (i < 1) /\ 1 <= us[i].loc
      <3>. SUFFICES ASSUME NEW i \in 1 .. Len(us)
                    PROVE  1 <= us[i].loc
        OBVIOUS
      <3>1. us[i] \in Tokens
        BY <1>9
      <3>. QED BY <3>1, TokenFields
    <2>3. Lines(buf, p - 1)' = Lines(buf', p' - 1) /\ 1 - 1 = 0
      BY DEF Lines
    <2>4. line_no' = 1 + Lines(buf, p - 1)'
      <3>1. Lines(buf', 0) = 0
        BY NoLines
      <3>. QED BY <1>1, <2>3, <3>1
    <2>. QED BY <1>1, <1>13, <2>1, <2>2, <2>4 DEF Numbering
  <1>. QED BY <1>14, <1>15

LEMMA TokenizeStep ==
  ASSUME TInv, Tokenize
  PROVE  Fresh' /\ Cutting' /\ Whole' /\ Numbering'
  <1>1. IInv /\ Content /\ Fresh /\ Cutting
    BY DEF TInv
  <1>2. (phase = "tokenize" /\ UNCHANGED <<place, line_no>>) \/ EndOfText
    BY DEF Tokenize, LineComment, BlockComment, NewLine, Space, Number, CharLiteral, StringLiteral, Symbol,
           Identifier, CannotTokenize, EndOfText, AtToken, SkipTo, NewToken, Error, Tokenizing, numberVars
  <1>3. CASE EndOfText
    BY <1>1, <1>3, EndOfTextStep DEF EndOfText, Fresh, Cutting
  <1>4. CASE ~ EndOfText
    <2>1. Cutting'
      <3>1. CASE CannotTokenize
        BY <3>1, Failed DEF CannotTokenize
      <3>. QED BY <1>1, <1>4, <3>1, LineCommentStep, BlockCommentStep, NewLineStep, SpaceStep, NumberStep,
                  CharLiteralStep, StringLiteralStep, SymbolStep, IdentifierStep DEF Tokenize
    <2>2. phase' \in {"tokenize", "error"} /\ place' = place /\ line_no' = line_no
      BY <1>4 DEF Tokenize, LineComment, BlockComment, NewLine, Space, Number, CharLiteral, StringLiteral, Symbol,
           Identifier, CannotTokenize, AtToken, SkipTo, NewToken, Error, Tokenizing, numberVars
    <2>3. Fresh'
      BY <1>1, <1>2, <1>4, <2>2 DEF Fresh
    <2>. QED BY <2>1, <2>2, <2>3 DEF Whole, Numbering
  <1>. QED BY <1>3, <1>4

\* Before the text is cut there are no tokens.
LEMMA BeforeTokens ==
  ASSUME TInv, Read \/ EndOfFile \/ Splice \/ EndLine \/ CopyChar \/ EndSplice
  PROVE  Fresh' /\ Cutting' /\ Whole' /\ Numbering'
  <1>1. CASE ~ EndSplice
    <2>1. /\ phase \in {"read", "splice"} /\ phase' \in {"read", "splice"}
          /\ UNCHANGED <<tokens, at_bol, has_space, place, line_no>>
      BY <1>1 DEF Read, EndOfFile, Splice, EndLine, CopyChar, tokenVars, numberVars
    <2>. QED BY <2>1 DEF TInv, Fresh, Cutting, Whole, Numbering
  <1>2. CASE EndSplice
    <2>1. /\ phase = "splice" /\ phase' = "tokenize" /\ p' = 1 /\ q' = q
          /\ UNCHANGED <<tokens, at_bol, has_space, place, line_no>>
      BY <1>2 DEF EndSplice, tokenVars, numberVars
    <2>2. /\ tokens = <<>> /\ at_bol = TRUE /\ has_space = FALSE /\ place = 1 /\ line_no = 1 /\ q \in Nat /\ 1 <= q
      BY <2>1 DEF TInv, Fresh, IInv, BufferOK, Behind
    <2>3. Fresh'
      BY <2>1, <2>2 DEF Fresh
    <2>4. PICK b, h : b = buf' /\ h = First(1)
      OBVIOUS
    <2>5. Cut(<<>>, b, 1) /\ Len(<<>>) = 0
      BY DEF Cut
    <2>6. Between(b, 1, 0, h) = Knows("code", h, No) /\ h = TRUE
      <3>1. PICK f \in Nat \ {0} : f = 1
        OBVIOUS
      <3>2. PICK i \in Nat : i = 0 /\ i = f - 1 /\ f - 1 <= i
        BY <3>1
      <3>3. Between(b, f, i, h) = Knows("code", h, No)
        BY <3>2, BetweenNext
      <3>. QED BY <2>4, <3>1, <3>2, <3>3 DEF First
    <2>7. Marked'
      <3>1. Between(buf, From(tokens, Len(tokens) + 1), p - 1, First(Len(tokens) + 1))'
              = Between(buf', From(tokens', Len(tokens') + 1), p' - 1, First(Len(tokens') + 1))
        BY DEF Between, Scan, From, First
      <3>2. \A m : Knows(m, at_bol, has_space)' = Knows(m, at_bol', has_space')
        BY DEF Knows
      <3>3. PICK ts : ts = tokens'
        OBVIOUS
      <3>4. ts = <<>> /\ Len(ts) + 1 = 1 /\ From(ts, 1) = 1
        BY <2>1, <2>2, <3>3 DEF From
      <3>5. at_bol' = h /\ has_space' = No /\ p' - 1 = 0
        BY <2>1, <2>2, <2>6 DEF No
      <3>6. Between(buf, From(tokens, Len(tokens) + 1), p - 1, First(Len(tokens) + 1))' = Knows("code", at_bol, has_space)'
        BY <2>4, <2>6, <3>1, <3>2, <3>3, <3>4, <3>5
      <3>. QED BY <3>6 DEF Marked
    <2>8. Cutting'
      <3>1. Cut(tokens, buf, p)' = Cut(tokens', buf', p')
        BY DEF Cut
      <3>2. tokens' = <<>> /\ at_bol' \in BOOLEAN /\ has_space' \in BOOLEAN /\ p' \in 1 .. q'
        <4>1. at_bol' = TRUE /\ has_space' = FALSE
          BY <2>1, <2>2
        <4>2. at_bol' \in BOOLEAN /\ has_space' \in BOOLEAN
          BY <4>1
        <4>. QED BY <2>1, <2>2, <4>2
      <3>3. Cut(tokens, buf, p)'
        BY <2>1, <2>4, <2>5, <3>1, <3>2
      <3>4. \A j \in 1 .. Len(tokens') : FALSE
        BY <2>5, <3>2
      <3>. QED BY <2>7, <3>2, <3>3, <3>4 DEF Cutting
    <2>. QED BY <2>1, <2>3, <2>8 DEF Whole, Numbering
  <1>. QED BY <1>1, <1>2

GiveLine(ts, k, x) == [ts EXCEPT ![k].line_no = x]

\* A line number changes neither the place of a token nor its marks.
LEMMA LineGiven ==
  ASSUME NEW ts \in Seq(Tokens), NEW b, NEW e, NEW k \in 1 .. Len(ts), NEW x \in Nat, NEW us,
         us = GiveLine(ts, k, x), Cut(ts, b, e)
  PROVE  /\ Cut(us, b, e) /\ Len(us) = Len(ts)
         /\ \A i \in 1 .. Len(ts) :
              /\ us[i].loc = ts[i].loc /\ us[i].len = ts[i].len /\ us[i].kind = ts[i].kind
              /\ us[i].line_no = IF i = k THEN x ELSE ts[i].line_no
              /\ Exact(ts, b, i) => Exact(us, b, i)
  <1>1. /\ us \in Seq(Tokens) /\ Len(us) = Len(ts)
        /\ \A i \in 1 .. Len(ts) : us[i] = IF i = k THEN [ts[k] EXCEPT !.line_no = x] ELSE ts[i]
    <2>1. ts[k] \in Tokens
      OBVIOUS
    <2>2. [ts[k] EXCEPT !.line_no = x] \in Tokens
      BY <2>1 DEF Tokens
    <2>3. us = [ts EXCEPT ![k] = [ts[k] EXCEPT !.line_no = x]]
      BY DEF GiveLine
    <2>4. PICK t \in Tokens : t = [ts[k] EXCEPT !.line_no = x]
      BY <2>2
    <2>5. us = [ts EXCEPT ![k] = t]
      BY <2>3, <2>4
    <2>6. us \in Seq(Tokens) /\ Len(us) = Len(ts) /\ \A i \in 1 .. Len(ts) : us[i] = IF i = k THEN t ELSE ts[i]
      BY <2>5
    <2>. QED BY <2>4, <2>6
  <1>2. ASSUME NEW i \in 1 .. Len(ts)
        PROVE  /\ us[i].loc = ts[i].loc /\ us[i].len = ts[i].len /\ us[i].kind = ts[i].kind
               /\ us[i].line_no = IF i = k THEN x ELSE ts[i].line_no
               /\ us[i].at_bol = ts[i].at_bol /\ us[i].has_space = ts[i].has_space
    <2>1. ts[i] \in Tokens
      OBVIOUS
    <2>2. CASE i = k
      <3>1. us[i] = [ts[i] EXCEPT !.line_no = x]
        BY <1>1, <2>2
      <3>. QED BY <2>1, <2>2, <3>1 DEF Tokens
    <2>3. CASE i # k
      BY <1>1, <2>3
    <2>. QED BY <2>2, <2>3
  <1>3. \A i \in 1 .. Len(ts) + 1 : From(us, i) = From(ts, i)
    <2>. SUFFICES ASSUME NEW i \in 1 .. Len(ts) + 1
                  PROVE  From(us, i) = From(ts, i)
      OBVIOUS
    <2>1. CASE i = 1
      BY <2>1 DEF From
    <2>2. CASE i # 1
      <3>1. i - 1 \in 1 .. Len(ts)
        BY <2>2
      <3>. QED BY <1>2, <2>2, <3>1 DEF From
    <2>. QED BY <2>1, <2>2
  <1>4. ASSUME NEW i \in 1 .. Len(ts), Exact(ts, b, i)
        PROVE  Exact(us, b, i)
    <2>1. From(us, i) = From(ts, i)
      <3>1. i \in 1 .. Len(ts) + 1
        OBVIOUS
      <3>. QED BY <1>3, <3>1
    <2>. QED BY <1>2, <1>4, <2>1 DEF Exact
  <1>5. Cut(us, b, e)
    BY <1>1, <1>2 DEF Cut
  <1>. QED BY <1>1, <1>2, <1>4, <1>5

\* add_line_numbers()
LEMMA NumberLineStep ==
  ASSUME TInv, NumberLine
  PROVE  Fresh' /\ Cutting' /\ Whole' /\ Numbering'
  <1>1. /\ phase = "number" /\ p' = p + 1 /\ buf' = buf /\ q' = q
        /\ phase' = IF At(p) = Nul THEN "done" ELSE "number"
        /\ line_no' = IF At(p) = "nl" THEN line_no + 1 ELSE line_no
    BY DEF NumberLine, spliceVars
  <1>2. Fresh' /\ Cutting'
    BY <1>1 DEF Fresh, Cutting
  <1>3. /\ Cut(tokens, buf, q + 1)
        /\ \A i \in 1 .. Len(tokens) :
             Exact(tokens, buf, i) /\ (tokens[i].kind # "eof" => tokens[i].loc + tokens[i].len <= q)
        /\ p \in 1 .. q /\ line_no = 1 + Lines(buf, p - 1) /\ place \in 1 .. Len(tokens) + 1
        /\ \A i \in 1 .. Len(tokens) :
             IF i < place THEN tokens[i].loc < p /\ Numbered(tokens, buf, i) ELSE p <= tokens[i].loc
    BY <1>1 DEF TInv, Whole, Numbering
  <1>4. PICK ts, b, k, j, x : /\ ts = tokens /\ b = buf /\ k = p /\ j = place /\ x = line_no
                              /\ k \in Nat \ {0} /\ ts \in Seq(Tokens) /\ Len(ts) \in Nat
    BY <1>3 DEF Cut
  <1>5. /\ Cut(ts, b, q + 1) /\ q \in Nat /\ k <= q /\ j \in 1 .. Len(ts) + 1 /\ x = 1 + Lines(b, k - 1) /\ x \in Nat
        /\ \A i \in 1 .. Len(ts) : Exact(ts, b, i) /\ (ts[i].kind # "eof" => ts[i].loc + ts[i].len <= q)
        /\ \A i \in 1 .. Len(ts) : IF i < j THEN ts[i].loc < k /\ Numbered(ts, b, i) ELSE k <= ts[i].loc
    <2>1. q \in Nat
      BY DEF TInv, IInv, BufferOK
    <2>2. Lines(b, k - 1) \in Nat
      <3>1. k - 1 \in Int
        BY <1>4
      <3>. QED BY <3>1, LinesTyped
    <2>. QED BY <1>3, <1>4, <2>1, <2>2
  <1>6. At(p) = b[k] /\ (At(p) # Nul => k < q)
    BY <1>1, <1>3, <1>4, TextFrom DEF TInv
  <1>7. \A i \in 1 .. Len(ts) : ts[i].loc \in Nat \ {0} /\ ts[i].len \in Nat \ {0}
    <2>1. \A i \in 1 .. Len(ts) : ts[i] \in Tokens
      BY <1>4
    <2>. QED BY <2>1, TokenFields
  <1>8. PICK us, j2 : us = tokens' /\ j2 = place'
    OBVIOUS
  <1>9. /\ Cut(us, b, q + 1) /\ Len(us) = Len(ts) /\ j2 \in 1 .. Len(us) + 1
        /\ \A i \in 1 .. Len(us) : Exact(us, b, i) /\ (us[i].kind # "eof" => us[i].loc + us[i].len <= q)
        /\ \A i \in 1 .. Len(us) : IF i < j2 THEN us[i].loc < k + 1 /\ Numbered(us, b, i) ELSE k + 1 <= us[i].loc
    <2>1. CASE place \in DOMAIN tokens /\ tokens[place].loc = p
      <3>1. us = GiveLine(ts, j, x) /\ j2 = j + 1 /\ j \in 1 .. Len(ts) /\ ts[j].loc = k
        BY <1>4, <1>8, <2>1 DEF NumberLine, GiveLine
      <3>2. /\ Cut(us, b, q + 1) /\ Len(us) = Len(ts)
            /\ \A i \in 1 .. Len(ts) :
                 /\ us[i].loc = ts[i].loc /\ us[i].len = ts[i].len /\ us[i].kind = ts[i].kind
                 /\ us[i].line_no = IF i = j THEN x ELSE ts[i].line_no
                 /\ Exact(ts, b, i) => Exact(us, b, i)
        <4>1. PICK e : e = q + 1
          OBVIOUS
        <4>2. Cut(ts, b, e) /\ x \in Nat /\ us = GiveLine(ts, j, x) /\ j \in 1 .. Len(ts)
          BY <1>5, <3>1, <4>1
        <4>3. Cut(us, b, e)
          BY <1>4, <4>2, LineGiven
        <4>. QED BY <1>4, <4>1, <4>2, <4>3, LineGiven
      <3>3. ASSUME NEW i \in 1 .. Len(us)
            PROVE  IF i < j2 THEN us[i].loc < k + 1 /\ Numbered(us, b, i) ELSE k + 1 <= us[i].loc
        <4>1. i \in 1 .. Len(ts) /\ us[i].loc = ts[i].loc /\ ts[i].loc \in Nat
          BY <1>7, <3>2
        <4>2. CASE i < j
          <5>1. ts[i].loc < k /\ Numbered(ts, b, i) /\ i # j /\ i < j2
            BY <1>5, <3>1, <4>1, <4>2
          <5>2. us[i].line_no = ts[i].line_no
            BY <3>2, <4>1, <5>1
          <5>3. us[i].loc < k + 1
            BY <1>4, <4>1, <5>1
          <5>. QED BY <4>1, <5>1, <5>2, <5>3 DEF Numbered
        <4>3. CASE i = j
          <5>1. us[i].loc = k /\ us[i].line_no = x
            BY <3>1, <3>2, <4>1, <4>3
          <5>2. i < j2 /\ k < k + 1
            BY <1>4, <3>1, <4>3
          <5>. QED BY <1>5, <5>1, <5>2 DEF Numbered
        <4>4. CASE j < i
          <5>1. ts[j].loc + ts[j].len <= ts[i].loc
            BY <1>5, <3>1, <4>1, <4>4 DEF Cut
          <5>2. PICK y \in Nat \ {0} : y = ts[j].len
            BY <1>7, <3>1
          <5>3. PICK z \in Nat : z = ts[i].loc
            BY <4>1
          <5>4. k + y <= z
            BY <3>1, <5>1, <5>2, <5>3
          <5>5. k + 1 <= z
            BY <1>4, <5>4
          <5>6. ~ (i < j2)
            BY <3>1, <4>4
          <5>. QED BY <4>1, <5>3, <5>5, <5>6
        <4>5. i < j \/ i = j \/ j < i
          BY <3>1, <4>1
        <4>. QED BY <4>2, <4>3, <4>4, <4>5
      <3>4. j2 \in 1 .. Len(us) + 1
        BY <1>4, <3>1, <3>2
      <3>5. ASSUME NEW i \in 1 .. Len(us)
            PROVE  Exact(us, b, i) /\ (us[i].kind # "eof" => us[i].loc + us[i].len <= q)
        BY <1>5, <3>2
      <3>. QED BY <3>2, <3>3, <3>4, <3>5
    <2>2. CASE ~ (place \in DOMAIN tokens /\ tokens[place].loc = p)
      <3>1. us = ts /\ j2 = j /\ (j \in 1 .. Len(ts) => ts[j].loc # k)
        BY <1>4, <1>8, <2>2 DEF NumberLine
      <3>2. ASSUME NEW i \in 1 .. Len(ts)
            PROVE  IF i < j THEN ts[i].loc < k + 1 /\ Numbered(ts, b, i) ELSE k + 1 <= ts[i].loc
        <4>1. PICK y \in Nat \ {0} : y = ts[i].loc
          BY <1>7
        <4>2. CASE i < j
          <5>1. y < k /\ Numbered(ts, b, i)
            BY <1>5, <4>1, <4>2
          <5>2. y < k + 1
            BY <1>4, <5>1
          <5>. QED BY <4>1, <4>2, <5>1, <5>2
        <4>3. CASE ~ (i < j)
          <5>1. j \in 1 .. Len(ts) /\ (i # j => j < i)
            BY <1>4, <1>5, <4>3
          <5>2. PICK z \in Nat \ {0}, w \in Nat \ {0} : z = ts[j].loc /\ w = ts[j].len
            BY <1>7, <5>1
          <5>3. k <= z /\ z # k
            <6>1. ~ (j < j)
              BY <5>1
            <6>. QED BY <1>5, <3>1, <5>1, <5>2, <6>1
          <5>4. i # j => z + w <= y
            BY <1>5, <4>1, <5>1, <5>2 DEF Cut
          <5>5. i = j => y = z
            BY <4>1, <5>2
          <5>6. k + 1 <= y
            BY <1>4, <5>2, <5>3, <5>4, <5>5
          <5>. QED BY <4>1, <4>3, <5>6
        <4>. QED BY <4>2, <4>3
      <3>. QED BY <1>5, <3>1, <3>2
    <2>. QED BY <2>1, <2>2
  <1>10. /\ Cut(tokens, buf, q + 1)' = Cut(us, b, q + 1)
         /\ \A i : Exact(tokens, buf, i)' = Exact(us, b, i)
         /\ \A i : Numbered(tokens, buf, i)' = Numbered(us, b, i)
         /\ tokens' = us
    <2>1. /\ Cut(tokens, buf, q + 1)' = Cut(tokens', buf', q' + 1)
          /\ \A i : Exact(tokens, buf, i)' = Exact(tokens', buf', i)
          /\ \A i : Numbered(tokens, buf, i)' = Numbered(tokens', buf', i)
      BY DEF Cut, Exact, Between, Scan, From, First, Numbered, Lines
    <2>. QED BY <1>1, <1>4, <1>8, <2>1
  <1>11. Whole'
    BY <1>1, <1>9, <1>10 DEF Whole
  <1>12. CASE At(p) = Nul
    <2>1. \A i \in 1 .. Len(us) : Numbered(us, b, i)
      <3>. SUFFICES ASSUME NEW i \in 1 .. Len(us)
                    PROVE  Numbered(us, b, i)
        OBVIOUS
      <3>1. us[i] \in Tokens /\ us[i].loc + us[i].len <= q + 1
        BY <1>9 DEF Cut
      <3>2. PICK y \in Nat \ {0}, z \in Nat \ {0} : y = us[i].loc /\ z = us[i].len
        BY <3>1, TokenFields
      <3>3. k = q
        BY <1>1, <1>3, <1>4, <1>12, TextFrom DEF TInv
      <3>4. ~ (k + 1 <= y)
        BY <1>4, <3>1, <3>2, <3>3
      <3>. QED BY <1>9, <3>2, <3>4
    <2>2. phase' = "done" /\ \A i \in 1 .. Len(tokens') : Numbered(tokens, buf, i)'
      BY <1>1, <1>10, <1>12, <2>1
    <2>. QED BY <1>2, <1>11, <2>2 DEF Numbering
  <1>13. CASE At(p) # Nul
    <2>1. k + 1 \in 1 .. q /\ p' = k + 1 /\ (k + 1) - 1 = k
      BY <1>1, <1>4, <1>5, <1>6, <1>13
    <2>2. line_no' = 1 + Lines(b, k)
      <3>1. PICK i \in Nat : i = k - 1 /\ i + 1 = k
        BY <1>4
      <3>2. Lines(b, i + 1) = IF b[i + 1] = "nl" THEN Lines(b, i) + 1 ELSE Lines(b, i)
        BY LinesNext
      <3>3. PICK y \in Nat : y = Lines(b, i)
        <4>1. i \in Int
          BY <3>1
        <4>. QED BY <4>1, LinesTyped
      <3>4. x = 1 + y /\ line_no' = IF b[k] = "nl" THEN x + 1 ELSE x
        BY <1>1, <1>4, <1>5, <1>6, <3>1, <3>3
      <3>. QED BY <3>1, <3>2, <3>3, <3>4
    <2>3. Lines(buf, p - 1)' = Lines(b, k)
      <3>1. Lines(buf, p - 1)' = Lines(buf', p' - 1)
        BY DEF Lines
      <3>. QED BY <1>1, <1>4, <2>1, <3>1
    <2>4. phase' = "number" /\ p' \in 1 .. q' /\ line_no' = 1 + Lines(buf, p - 1)' /\ place' \in 1 .. Len(tokens') + 1
      BY <1>1, <1>8, <1>9, <1>13, <2>1, <2>2, <2>3
    <2>5. \A i \in 1 .. Len(tokens') :
            IF i < place' THEN tokens'[i].loc < p' /\ Numbered(tokens, buf, i)' ELSE p' <= tokens'[i].loc
      BY <1>8, <1>9, <1>10, <2>1
    <2>. QED BY <1>2, <1>11, <2>4, <2>5 DEF Numbering
  <1>. QED BY <1>12, <1>13

LEMMA InitTInv ==
  ASSUME Init, "open_ending" \notin Programs
  PROVE  TInv
  <1>1. IInv
    BY InitIInv
  <1>2. Content
    BY ContentStarts
  <1>3. Fresh /\ Cutting /\ Whole /\ Numbering
    BY DEF Init, Fresh, Cutting, Whole, Numbering
  <1>. QED BY <1>1, <1>2, <1>3 DEF TInv

LEMMA ContentTokenize ==
  ASSUME TInv, Tokenize \/ NumberLine
  PROVE  Content'
  <1>1. /\ phase \in {"tokenize", "number"} /\ phase' \in {"tokenize", "number", "done", "error"}
        /\ file' = file /\ buf' = buf /\ origin' = origin /\ q' = q
    <2>1. CASE NumberLine
      BY <2>1 DEF NumberLine, readVars, spliceVars
    <2>2. CASE Tokenize
      BY <2>2 DEF Tokenize, LineComment, BlockComment, NewLine, Space, Number, CharLiteral, StringLiteral, Symbol,
                  Identifier, CannotTokenize, EndOfText, AtToken, SkipTo, NewToken, Error, Tokenizing, readVars,
                  spliceVars
    <2>. QED BY <2>1, <2>2
  <1>2. phase \notin {"read", "splice"} /\ phase' \notin {"read", "splice"} /\ Content
    BY <1>1 DEF TInv
  <1>. QED BY <1>1, <1>2, ContentKept

LEMMA StayTInv ==
  ASSUME TInv, UNCHANGED vars
  PROVE  TInv'
  <1>1. UNCHANGED <<file, given, buf, nread, p, q, n, origin, tokens, at_bol, has_space, place, line_no, phase>>
    BY DEF vars
  <1>2. IInv'
    BY NextIInv DEF TInv
  <1>3. Content'
    <2>1. Text' = Text /\ (Ended => Ended') /\ (Copied => Copied')
      BY <1>1, CopiedKept DEF Text, Ended
    <2>2. /\ Lines(buf, q - 1)' = Lines(buf', q' - 1) /\ LineOf(Text, p)' = LineOf(Text', p')
          /\ Lines(Text, p - 1)' = Lines(Text', p' - 1)
      BY DEF Lines, LineOf, LineEnds
    <2>3. Splicing'
      BY <1>1, <2>1, <2>2 DEF TInv, Content, Splicing
    <2>4. Written' /\ Reading' /\ ~ OpenEnding(file)'
      BY <1>1, <2>1 DEF TInv, Content, Written, Reading, OpenEnding, Closed
    <2>. QED BY <2>3, <2>4 DEF Content
  <1>4. Fresh'
    BY <1>1 DEF TInv, Fresh
  <1>5. Cutting'
    <2>1. /\ Cut(tokens, buf, p)' = Cut(tokens', buf', p')
          /\ \A j : Exact(tokens, buf, j)' = Exact(tokens', buf', j)
      BY DEF Cut, Exact, Between, Scan, From, First
    <2>2. Between(buf, From(tokens, Len(tokens) + 1), p - 1, First(Len(tokens) + 1))'
            = Between(buf', From(tokens', Len(tokens') + 1), p' - 1, First(Len(tokens') + 1))
      BY DEF Between, Scan, From, First
    <2>3. \A m : Knows(m, at_bol, has_space)' = Knows(m, at_bol', has_space')
      BY DEF Knows
    <2>4. Marked => Marked'
      BY <1>1, <2>2, <2>3 DEF Marked
    <2>. QED BY <1>1, <2>1, <2>4 DEF TInv, Cutting
  <1>6. Whole' /\ Numbering'
    <2>1. /\ Cut(tokens, buf, q + 1)' = Cut(tokens', buf', q' + 1)
          /\ \A j : Exact(tokens, buf, j)' = Exact(tokens', buf', j)
          /\ \A j : Numbered(tokens, buf, j)' = Numbered(tokens', buf', j)
          /\ Lines(buf, p - 1)' = Lines(buf', p' - 1)
      BY DEF Cut, Exact, Between, Scan, From, First, Numbered, Lines
    <2>2. Whole'
      BY <1>1, <2>1 DEF TInv, Whole
    <2>3. Numbering'
      BY <1>1, <2>1 DEF TInv, Numbering
    <2>. QED BY <2>2, <2>3
  <1>. QED BY <1>2, <1>3, <1>4, <1>5, <1>6 DEF TInv

LEMMA NextTInv == TInv /\ [Next]_vars => TInv'
  <1>. SUFFICES ASSUME TInv, [Next]_vars
                PROVE  TInv'
    OBVIOUS
  <1>1. CASE UNCHANGED vars
    BY <1>1, StayTInv
  <1>2. CASE Next
    <2>1. IInv /\ Content /\ IInv'
      BY NextIInv DEF TInv
    <2>2. Content'
      BY <1>2, <2>1, ContentRead, ContentEndOfFile, ContentSplice, ContentEndLine, ContentCopyChar,
         ContentEndSplice, ContentTokenize DEF Next
    <2>3. Fresh' /\ Cutting' /\ Whole' /\ Numbering'
      BY <1>2, BeforeTokens, TokenizeStep, NumberLineStep DEF Next
    <2>. QED BY <2>1, <2>2, <2>3 DEF TInv
  <1>. QED BY <1>1, <1>2

\* In every file that does not end in a spliced line, nothing of the text is
\* lost between the tokens but white space and comments, no token reaches over
\* the end of the text, and a token that is not floating is marked as first of
\* its line and as preceded by space when it is (tokenize, tokenize.c:540).
THEOREM NothingIsLost ==
  ASSUME "open_ending" \notin Programs
  PROVE  Spec => []TokensExact
  <1>1. Init => TInv
    BY InitTInv
  <1>2. TInv => TokensExact
    <2>. SUFFICES ASSUME TInv
                  PROVE  TokensExact
      OBVIOUS
    <2>1. phase = "tokenize" => p <= q
      BY Standing DEF TInv
    <2>2. ASSUME phase = "done", NEW i \in DOMAIN tokens
          PROVE  /\ Gap(i).mode = "code"
                 /\ tokens[i].kind # "eof" => tokens[i].loc + tokens[i].len <= q
                 /\ tokens[i].kind # "float" => tokens[i].at_bol = Gap(i).line /\ tokens[i].has_space = Gap(i).space
      <3>1. /\ i \in 1 .. Len(tokens)
            /\ Exact(tokens, buf, i) /\ (tokens[i].kind # "eof" => tokens[i].loc + tokens[i].len <= q)
        BY <2>2 DEF TInv, Whole, Cut
      <3>2. Gap(i) = Between(buf, From(tokens, i), tokens[i].loc - 1, First(i))
        BY DEF Gap, First
      <3>. QED BY <3>1, <3>2 DEF Exact
    <2>. QED BY <2>1, <2>2 DEF TokensExact
  <1>. QED BY <1>1, NextTInv, <1>2, PTL DEF Spec

\* A token in such a file has the line of the file on which its logical line
\* begins, however many lines were spliced before it (add_line_numbers,
\* tokenize.c:377; remove_backslash_newline, tokenize.c:711).
THEOREM LinesArePhysical ==
  ASSUME "open_ending" \notin Programs
  PROVE  Spec => []LinesPhysical
  <1>1. Init => TInv
    BY InitTInv
  <1>2. TInv => LinesPhysical
    <2>. SUFFICES ASSUME TInv, phase = "done", NEW i \in DOMAIN tokens, tokens[i].kind # "eof"
                  PROVE  tokens[i].line_no = LineOf(Closed(file), origin[tokens[i].loc])
      BY DEF LinesPhysical
    <2>1. /\ i \in 1 .. Len(tokens) /\ tokens[i] \in Tokens /\ buf[tokens[i].loc] # "nl"
          /\ tokens[i].loc + tokens[i].len <= q /\ Numbered(tokens, buf, i)
      BY DEF TInv, Whole, Cut, Numbering
    <2>2. PICK x \in Nat \ {0}, y \in Nat \ {0} : x = tokens[i].loc /\ y = tokens[i].len
      BY <2>1, TokenFields
    <2>3. q \in Nat /\ Copied
      BY DEF TInv, IInv, BufferOK, Content, Written
    <2>4. x \in 1 .. q - 1 /\ buf[x] # "nl"
      BY <2>1, <2>2, <2>3
    <2>5. 1 + Lines(buf, x - 1) = LineOf(Text, origin[x])
      BY <2>3, <2>4 DEF Copied
    <2>. QED BY <2>1, <2>2, <2>5 DEF Numbered, Text
  <1>. QED BY <1>1, NextTInv, <1>2, PTL DEF Spec
=============================================================================

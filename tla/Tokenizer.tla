----------------------------- MODULE Tokenizer -----------------------------
(***************************************************************************)
(* tokenize_file(): a file is read into a buffer that grows, backslashes   *)
(* at line ends are removed in place, the text is cut into tokens and      *)
(* these get their line numbers.  Positions count from 1.                  *)
(***************************************************************************)
EXTENDS Integers, Sequences, FiniteSets

CONSTANTS
  Files,          \* contents of files: sequences of characters
  InitialBuffer,  \* 4096
  Programs        \* {"open_ending"}: a file may end in a spliced line; or {}

Symbols == {"/", "*", ".", "#"}
Chars == Symbols \cup {"bs", "nl", "sp", "a", "1", "quote", "tick"}
Nul == "nul"
Junk == "junk"  \* what malloc() and realloc() leave in the buffer

ASSUME TokenizerAssumption ==
  /\ Files \subseteq Seq(Chars)
  /\ InitialBuffer \in Nat /\ InitialBuffer >= 3
  /\ Programs \subseteq {"open_ending"}

VARIABLES
  file, given,     \* the file, and how many of its characters fread() gave
  buf, nread,      \* the buffer, of length buflen
  p, q, n,         \* the positions of the loops, and the newlines removed
  origin,          \* history: the place in the file of each character of the text
  tokens, at_bol, has_space,
  place, line_no,  \* the token add_line_numbers() is at, and the line
  phase            \* "read", "splice", "tokenize", "number", "done", "error"

vars == <<file, given, buf, nread, p, q, n, origin, tokens, at_bol, has_space,
          place, line_no, phase>>

readVars == <<file, given, nread>>
spliceVars == <<buf, q, n, origin>>
tokenVars == <<tokens, at_bol, has_space>>
numberVars == <<place, line_no>>

Smaller(a, b) == IF a < b THEN a ELSE b
Junks(k) == [i \in 1 .. k |-> Junk]
Least(S) == CHOOSE i \in S : \A j \in S : i <= j

\* The canonical text of a file ends in a newline; an open one in one that is
\* spliced.
Closed(f) == IF f # <<>> /\ f[Len(f)] = "nl" THEN f ELSE Append(f, "nl")
OpenEnding(f) == Len(Closed(f)) > 1 /\ Closed(f)[Len(Closed(f)) - 1] = "bs"

Init ==
  /\ file \in {f \in Files : OpenEnding(f) => "open_ending" \in Programs}
  /\ given = 0 /\ nread = 0
  /\ buf = Junks(InitialBuffer)
  /\ p = 1 /\ q = 1 /\ n = 0 /\ origin = <<>>
  /\ tokens = <<>> /\ at_bol = TRUE /\ has_space = FALSE
  /\ place = 1 /\ line_no = 1
  /\ phase = "read"
-----------------------------------------------------------------------------
(***************************************************************************)
(* read_file()                                                             *)
(***************************************************************************)
\* Mutant: the whole buffer is filled.
EndFull(b) == Len(b)

\* There are two more for the trailing "\n\0".
End(b) == Len(b) - 2

Grown(b, k) == IF k = End(b) THEN b \o Junks(Len(b)) ELSE b

\* A write past the buffer is lost here; NulTerminated then fails.
Put(b, i, c) == IF i \in DOMAIN b THEN [b EXCEPT ![i] = c] ELSE b

\* fread() gives some of what is left.
Read ==
  /\ phase = "read"
  /\ \E k \in 1 .. Smaller(End(buf) - nread, Len(file) - given) :
       LET filled == [i \in DOMAIN buf |-> IF i \in nread + 1 .. nread + k
                                           THEN file[given + i - nread] ELSE buf[i]]
       IN /\ given' = given + k /\ nread' = nread + k
          /\ buf' = Grown(filled, nread + k)
  /\ UNCHANGED <<file, p, q, n, origin, tokenVars, numberVars, phase>>

EndOfFile ==
  /\ phase = "read" /\ given = Len(file)
  /\ LET open == nread = 0 \/ buf[nread] # "nl"
         closed == IF open THEN Put(buf, nread + 1, "nl") ELSE buf
     IN /\ nread' = IF open THEN nread + 1 ELSE nread
        /\ buf' = Put(closed, nread' + 1, Nul)
  /\ phase' = "splice"
  /\ UNCHANGED <<file, given, p, q, n, origin, tokenVars, numberVars>>
-----------------------------------------------------------------------------
(***************************************************************************)
(* remove_backslash_newline()                                              *)
(***************************************************************************)
At(i) == IF i \in DOMAIN buf THEN buf[i] ELSE Junk
StartsWith(i, s) == \A k \in DOMAIN s : At(i + k - 1) = s[k]

Spliced == StartsWith(p, <<"bs", "nl">>)

Splice ==
  /\ phase = "splice" /\ Spliced
  /\ p' = p + 2 /\ n' = n + 1
  /\ UNCHANGED <<readVars, buf, q, origin, tokenVars, numberVars, phase>>

\* Mutant: the newlines removed are not made up for.
EndLineShort ==
  /\ phase = "splice" /\ At(p) = "nl"
  /\ buf' = Put(buf, q, "nl")
  /\ origin' = Append(origin, p)
  /\ p' = p + 1 /\ q' = q + 1 /\ n' = 0
  /\ UNCHANGED <<readVars, tokenVars, numberVars, phase>>

\* The newline, and as many as were removed since the last one.
EndLine ==
  /\ phase = "splice" /\ At(p) = "nl"
  /\ buf' = [i \in DOMAIN buf |-> IF i \in q .. q + n THEN "nl" ELSE buf[i]]
  /\ origin' = origin \o [i \in 1 .. n + 1 |-> p]
  /\ p' = p + 1 /\ q' = q + n + 1 /\ n' = 0
  /\ UNCHANGED <<readVars, tokenVars, numberVars, phase>>

CopyChar ==
  /\ phase = "splice" /\ ~Spliced /\ At(p) \notin {"nl", Nul}
  /\ buf' = Put(buf, q, At(p))
  /\ origin' = Append(origin, p)
  /\ p' = p + 1 /\ q' = q + 1
  /\ UNCHANGED <<readVars, n, tokenVars, numberVars, phase>>

EndSplice ==
  /\ phase = "splice" /\ At(p) = Nul
  /\ buf' = Put(buf, q, Nul)
  /\ p' = 1 /\ phase' = "tokenize"
  /\ UNCHANGED <<readVars, q, n, origin, tokenVars, numberVars>>
-----------------------------------------------------------------------------
(***************************************************************************)
(* tokenize(): one action for each kind of text                            *)
(***************************************************************************)
AtToken == phase = "tokenize"
Tokenizing == UNCHANGED <<readVars, spliceVars, numberVars>>

SkipTo(i, bol, space) ==
  /\ p' = i /\ at_bol' = bol /\ has_space' = space
  /\ Tokenizing /\ UNCHANGED <<tokens, phase>>

\* error_at() and error_tok() end the program.
Error ==
  /\ phase' = "error"
  /\ UNCHANGED p /\ Tokenizing /\ UNCHANGED tokenVars

Token(kind, loc, len, bol, space) ==
  [kind |-> kind, loc |-> loc, len |-> len, at_bol |-> bol, has_space |-> space, line_no |-> 0]

\* new_token() and the step behind it
NewToken(kind, len) ==
  /\ tokens' = Append(tokens, Token(kind, p, len, at_bol, has_space))
  /\ at_bol' = FALSE /\ has_space' = FALSE
  /\ p' = p + len
  /\ Tokenizing /\ UNCHANGED phase

\* The newline that ends the comment is looked for without regard to the NUL.
LineComment ==
  /\ AtToken /\ StartsWith(p, <<"/", "/">>)
  /\ LET ends == {i \in DOMAIN buf : i >= p + 2 /\ buf[i] = "nl"}
     IN IF ends = {} THEN Error ELSE SkipTo(Least(ends), at_bol, TRUE)

TextEnd(i) == Least({j \in DOMAIN buf : j >= i /\ buf[j] = Nul})

BlockComment ==
  /\ AtToken /\ StartsWith(p, <<"/", "*">>)
  /\ LET ends == {i \in p + 2 .. TextEnd(p + 2) : StartsWith(i, <<"*", "/">>)}
     IN IF ends = {} THEN Error ELSE SkipTo(Least(ends) + 2, at_bol, TRUE)

\* Mutant: a new line is a space as any other.
NewLineSpace == AtToken /\ At(p) = "nl" /\ SkipTo(p + 1, at_bol, TRUE)

NewLine == AtToken /\ At(p) = "nl" /\ SkipTo(p + 1, TRUE, FALSE)

\* Mutant: the position stays.
SpaceStays == AtToken /\ At(p) = "sp" /\ SkipTo(p, at_bol, TRUE)

Space == AtToken /\ At(p) = "sp" /\ SkipTo(p + 1, at_bol, TRUE)

\* How many characters of S there are from i on
Run(i, S) == Least({k \in 0 .. Len(buf) : At(i + k) \notin S})

Digits == {"1"}
StartsNumber == At(p) \in Digits \/ (At(p) = "." /\ At(p + 1) \in Digits)

\* strchr(".eEfF", c) finds the NUL too.
FloatFollows(c) == c \in {".", Nul}

\* strtod()
FloatLen ==
  LET whole == Run(p, Digits)
  IN IF At(p + whole) = "." THEN whole + 1 + Run(p + whole + 1, Digits) ELSE whole

\* read_number() makes an integer token first; if a floating one replaces it,
\* the marks went with the first.
Number ==
  /\ AtToken /\ StartsNumber
  /\ LET len == Run(p, Digits)
     IN IF FloatFollows(At(p + len))
        THEN /\ tokens' = Append(tokens, Token("float", p, FloatLen, FALSE, FALSE))
             /\ at_bol' = FALSE /\ has_space' = FALSE
             /\ p' = p + FloatLen
             /\ Tokenizing /\ UNCHANGED phase
        ELSE NewToken("int", len)

\* A backslash hides the character behind it.
ClosingQuote ==
  LET closing[i \in 1 .. Len(buf) + 2] ==
        IF At(i) = "quote" THEN i
        ELSE IF At(i) = Nul \/ i > Len(buf) THEN 0
        ELSE IF At(i) = "bs" THEN closing[i + 2] ELSE closing[i + 1]
  IN closing[p + 1]

StringLiteral ==
  /\ AtToken /\ At(p) = "quote"
  /\ IF ClosingQuote = 0 THEN Error ELSE NewToken("str", ClosingQuote - p + 1)

\* An escape is a character or up to three octal digits.
CharLen ==
  IF At(p + 1) # "bs" THEN 1
  ELSE 1 + (IF At(p + 2) \in Digits THEN Smaller(3, Run(p + 2, Digits)) ELSE 1)

CharLiteral ==
  /\ AtToken /\ At(p) = "tick"
  /\ IF At(p + 1) = Nul \/ At(p + CharLen + 1) # "tick" THEN Error
     ELSE NewToken("char", CharLen + 2)

Comment == StartsWith(p, <<"/", "/">>) \/ StartsWith(p, <<"/", "*">>)

Symbol ==
  /\ AtToken /\ At(p) \in Symbols /\ ~Comment /\ ~StartsNumber
  /\ NewToken("reserved",
       IF StartsWith(p, <<".", ".", ".">>) THEN 3 ELSE IF StartsWith(p, <<"#", "#">>) THEN 2 ELSE 1)

Identifier ==
  /\ AtToken /\ At(p) = "a"
  /\ NewToken("ident", Run(p, Digits \cup {"a"}))

CannotTokenize == AtToken /\ At(p) \in {"bs", Junk} /\ Error

EndOfText ==
  /\ AtToken /\ At(p) = Nul
  /\ tokens' = Append(tokens, Token("eof", p, 1, at_bol, has_space))
  /\ at_bol' = FALSE /\ has_space' = FALSE
  /\ p' = 1 /\ phase' = "number"
  /\ Tokenizing

Tokenize ==
  \/ LineComment \/ BlockComment \/ NewLine \/ Space \/ Number \/ CharLiteral \/ StringLiteral
  \/ Symbol \/ Identifier \/ CannotTokenize \/ EndOfText

\* add_line_numbers()
NumberLine ==
  /\ phase = "number"
  /\ IF place \in DOMAIN tokens /\ tokens[place].loc = p
     THEN tokens' = [tokens EXCEPT ![place].line_no = line_no] /\ place' = place + 1
     ELSE UNCHANGED <<tokens, place>>
  /\ line_no' = IF At(p) = "nl" THEN line_no + 1 ELSE line_no
  /\ p' = p + 1
  /\ phase' = IF At(p) = Nul THEN "done" ELSE phase
  /\ UNCHANGED <<readVars, spliceVars, at_bol, has_space>>

Next ==
  \/ Read \/ EndOfFile
  \/ Splice \/ EndLine \/ CopyChar \/ EndSplice
  \/ Tokenize \/ NumberLine

Spec == Init /\ [][Next]_vars /\ WF_vars(Next)
-----------------------------------------------------------------------------
\* However the reads divide the file and whenever the buffer grows, the newline
\* and the NUL that end the text have room (read_file, tokenize.c:671).
NulTerminated == phase # "read" => \E i \in DOMAIN buf : buf[i] = Nul

\* A reader of single characters of b, with one of them ahead: what it knows
\* after the character at k, when it knew g before
Scan(b, g, k) ==
  LET slash(c) == b[k] = "/" /\ b[k + 1] = c
      star == b[k] = "*" /\ b[k + 1] = "/"
  IN CASE g.mode = "code" /\ slash("/") -> [g EXCEPT !.mode = "line", !.space = TRUE]
       [] g.mode = "code" /\ slash("*") -> [g EXCEPT !.mode = "open", !.space = TRUE]
       [] g.mode \in {"code", "line"} /\ b[k] = "nl" -> [mode |-> "code", line |-> TRUE, space |-> FALSE]
       [] g.mode = "code" /\ b[k] = "sp" -> [g EXCEPT !.space = TRUE]
       [] g.mode = "line" /\ b[k] # "nl" -> g
       [] g.mode = "open" -> [g EXCEPT !.mode = "block"]
       [] g.mode = "block" /\ ~star -> g
       [] g.mode = "block" /\ star -> [g EXCEPT !.mode = "close"]
       [] g.mode = "close" -> [g EXCEPT !.mode = "code"]
       [] OTHER -> [g EXCEPT !.mode = "lost"]

\* What it knows when it has read from one place to another: whether there was
\* nothing but white space and whole comments, whether there is a new line
\* outside of the comments, and space after the last one
Between(b, from, to, first) ==
  LET after[k \in from - 1 .. to] ==
        IF k < from THEN [mode |-> "code", line |-> first, space |-> FALSE] ELSE Scan(b, after[k - 1], k)
  IN after[to]

\* Where the token before token i ends, or the text begins
From(ts, i) == IF i = 1 THEN 1 ELSE ts[i - 1].loc + ts[i - 1].len

Gap(i) == Between(buf, From(tokens, i), tokens[i].loc - 1, i = 1)

\* Nothing of the text is lost between the tokens and nothing behind its end
\* is looked at; a token, unless floating, is marked as first of its line and
\* as preceded by space when it is (tokenize, tokenize.c:540).
TokensExact ==
  /\ phase = "tokenize" => p <= q
  /\ phase = "done" => \A i \in DOMAIN tokens :
       LET t == tokens[i]
       IN /\ Gap(i).mode = "code"
          /\ t.kind # "eof" => t.loc + t.len <= q
          /\ t.kind # "float" => t.at_bol = Gap(i).line /\ t.has_space = Gap(i).space

\* The newlines of the file that end a logical line
LineEnds(f) == {k \in DOMAIN f : f[k] = "nl" /\ (k > 1 => f[k - 1] # "bs")}

\* The line of the file on which the logical line of character k begins
LineOf(f, k) ==
  LET starts == {0} \cup {e \in LineEnds(f) : e < k}
      start == CHOOSE s \in starts : \A s2 \in starts : s2 <= s
  IN 1 + Cardinality({j \in 1 .. start : f[j] = "nl"})

\* Diagnostics and .loc name the line of the file, although the text was
\* spliced before lines were counted (remove_backslash_newline,
\* tokenize.c:711; add_line_numbers, tokenize.c:377).
LinesPhysical ==
  phase = "done" => \A i \in DOMAIN tokens :
    tokens[i].kind # "eof" => tokens[i].line_no = LineOf(Closed(file), origin[tokens[i].loc])

\* Every file is tokenized or rejected: no kind of text leaves the position
\* where it is.  Fairness: a program that can go on goes on (tokenize,
\* tokenize.c:540).
Terminates == <>(phase \in {"done", "error"})
=============================================================================

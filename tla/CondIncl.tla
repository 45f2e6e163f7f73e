------------------------------ MODULE CondIncl ------------------------------
(***************************************************************************)
(* Conditional inclusion, #include and the macro table of preprocess.c.    *)
(*                                                                         *)
(* The program reads its tokens in preprocess2's loop or, while a branch   *)
(* is being skipped, in skip_cond_incl and the recursive skip_cond_incl2.  *)
(* One step handles one line.  The lines of the source file and of the     *)
(* files it includes are chosen from Lines as they are read, so a run      *)
(* covers every sequence of them the bounds admit.                         *)
(***************************************************************************)
EXTENDS Naturals, Sequences

CONSTANTS
  Names,       \* macro names the lines mention
  Predefined,  \* the names init_macros defines
  Lines,       \* the lines a source file may hold: records [op, arg]
  Nodes,       \* addresses calloc can return for CondIncl entries
  NULL,        \* the null pointer
  Foreign,     \* may an included file use #elif, #else, #endif with no #if of its own?
  MaxInclude,  \* bound: open files
  MaxSkip      \* bound: 1 + nested skip_cond_incl2 activations

Conditions == Names \cup {"true", "false", "bad"}
Openers == {"if", "ifdef", "ifndef"}
Branches == {"elif", "else", "endif"}
PlainText == "plain"

\* A text line's arg is "plain", or the word that follows a # inside the line.
WellFormedLine(l) ==
  \/ l.op = "text" /\ l.arg \in {PlainText} \cup Openers \cup Branches
  \/ l.op \in {"define", "undef", "ifdef", "ifndef"} /\ l.arg \in Names
  \/ l.op \in {"if", "elif"} /\ l.arg \in Conditions
  \/ l.op \in {"else", "endif", "include", "error"} /\ l.arg = PlainText

ASSUME CondInclAssumption ==
  /\ Predefined \subseteq Names
  /\ Names \cap {"true", "false", "bad"} = {}
  /\ NULL \notin Nodes
  /\ Foreign \in BOOLEAN
  /\ MaxInclude \in Nat \ {0} /\ MaxSkip \in Nat
  /\ \A l \in Lines : l \in [op : STRING, arg : {PlainText} \cup STRING \cup Names]
  /\ \A l \in Lines : WellFormedLine(l)

VARIABLES
  cond_incl,  \* the stack of open conditionals, innermost last
  saved,      \* per open file, preprocess()'s current_cond_incl
  skip,       \* 0: preprocess2; 1: skip_cond_incl; k+1: k skip_cond_incl2 inside it
  macros,     \* what find_macro answers for every name
  line,       \* the line just read
  kept,       \* did it reach preprocess2's output or the macro table?
  status

vars == <<cond_incl, saved, skip, macros, line, kept, status>>

CondInclEntry ==
  [node : Nodes, ctx : {"IN_THEN", "IN_ELIF", "IN_ELSE"}, included : BOOLEAN]

Meanings == {"none", "user", "builtin"}

\* What line is at the start and at the end of a file.
NoLine == [op |-> "eof", arg |-> PlainText]

ProgramTypeOK ==
  /\ cond_incl \in Seq(CondInclEntry)
  /\ saved \in Seq(Nodes \cup {NULL}) /\ saved # <<>>
  /\ skip \in Nat
  /\ macros \in [Names -> Meanings]
  /\ kept \in BOOLEAN
  /\ status \in {"run", "done", "error", "crash"}

TypeOK == ProgramTypeOK /\ line \in Lines \cup {NoLine}
-----------------------------------------------------------------------------
Top == cond_incl[Len(cond_incl)]
Ptr == IF cond_incl = <<>> THEN NULL ELSE Top.node
CurrentCondIncl == saved[Len(saved)]

\* The pointer of a new entry differs from every pointer the program still holds.
FreshNodes ==
  {n \in Nodes : /\ \A i \in 1 .. Len(cond_incl) : cond_incl[i].node # n
                 /\ \A i \in 1 .. Len(saved) : saved[i] # n}
Fresh == CHOOSE n \in Nodes : n \in FreshNodes

\* init_macros pushes the predefined macros in front of whatever is there.
init_macros(m) == [n \in Names |-> IF n \in Predefined THEN "builtin" ELSE m[n]]

Init ==
  /\ cond_incl = <<>>
  /\ saved = <<NULL>>
  /\ skip = 0
  /\ macros = init_macros([n \in Names |-> "none"])
  /\ line = NoLine
  /\ kept = FALSE
  /\ status = "run"

error_tok ==
  /\ status' = "error"
  /\ UNCHANGED <<cond_incl, saved, skip, macros, kept>>

\* The value of a condition: "true", "false", or "bad" if it cannot be evaluated.
eval_const_expr(c) ==
  IF c \in Names THEN IF macros[c] # "none" THEN "true" ELSE "false" ELSE c

push_cond_incl(isIncluded) ==
  /\ FreshNodes # {}
  /\ cond_incl' = Append(cond_incl, [node |-> Fresh, ctx |-> "IN_THEN", included |-> isIncluded])
  /\ skip' = IF isIncluded THEN 0 ELSE 1
  /\ kept' = FALSE
  /\ UNCHANGED <<saved, macros, status>>
-----------------------------------------------------------------------------
(* Lines that preprocess2 handles.                                         *)

\* skip_cond_incl stops at any `#` that `elif`, `else` or `endif` follows,
\* and does not ask whether the `#` begins a line; preprocess2 does, and
\* passes the rest of such a line on as text.
Text(l) ==
  /\ l.op = "text"
  /\ skip = 0 \/ (skip = 1 /\ l.arg \in Branches)
  /\ skip' = 0
  /\ kept' = TRUE
  /\ UNCHANGED <<cond_incl, saved, macros, status>>

Define(l) ==
  /\ l.op = "define" /\ skip = 0
  /\ macros' = [macros EXCEPT ![l.arg] = "user"]
  /\ kept' = TRUE
  /\ UNCHANGED <<cond_incl, saved, skip, status>>

Undef(l) ==
  /\ l.op = "undef" /\ skip = 0
  /\ macros' = [macros EXCEPT ![l.arg] = "none"]
  /\ kept' = TRUE
  /\ UNCHANGED <<cond_incl, saved, skip, status>>

If(l) ==
  /\ l.op = "if" /\ skip = 0
  /\ IF eval_const_expr(l.arg) = "bad"
     THEN error_tok
     ELSE push_cond_incl(eval_const_expr(l.arg) = "true")

Ifdef(l) ==
  /\ l.op = "ifdef" /\ skip = 0
  /\ push_cond_incl(macros[l.arg] # "none")

Ifndef(l) ==
  /\ l.op = "ifndef" /\ skip = 0
  /\ push_cond_incl(macros[l.arg] = "none")

\* The innermost entry enters another branch, which is read or skipped.
EnterBranch(newCtx, isIncluded, isRead) ==
  /\ cond_incl' = [cond_incl EXCEPT ![Len(cond_incl)] =
                     [@ EXCEPT !.ctx = newCtx, !.included = isIncluded]]
  /\ skip' = IF isRead THEN 0 ELSE 1
  /\ kept' = FALSE
  /\ UNCHANGED <<saved, macros, status>>

Stray == cond_incl = <<>> \/ Top.ctx = "IN_ELSE"

\* Mutant: the entry does not remember that its branch was taken.
ElifForgetsTaken(l) ==
  /\ l.op = "elif" /\ skip \in {0, 1}
  /\ IF Stray \/ (~Top.included /\ eval_const_expr(l.arg) = "bad")
     THEN error_tok
     ELSE EnterBranch("IN_ELIF", Top.included,
                      ~Top.included /\ eval_const_expr(l.arg) = "true")

Elif(l) ==
  /\ l.op = "elif" /\ skip \in {0, 1}
  /\ IF Stray \/ (~Top.included /\ eval_const_expr(l.arg) = "bad")
     THEN error_tok
     ELSE LET taken == ~Top.included /\ eval_const_expr(l.arg) = "true"
          IN  EnterBranch("IN_ELIF", Top.included \/ taken, taken)

Else(l) ==
  /\ l.op = "else" /\ skip \in {0, 1}
  /\ IF Stray
     THEN error_tok
     ELSE EnterBranch("IN_ELSE", Top.included, ~Top.included)

\* Mutant: the text behind the #endif of a skipped branch is skipped too.
EndifKeepsSkipping(l) ==
  /\ l.op = "endif" /\ skip \in {0, 1}
  /\ IF cond_incl = <<>>
     THEN error_tok
     ELSE /\ cond_incl' = SubSeq(cond_incl, 1, Len(cond_incl) - 1)
          /\ kept' = FALSE
          /\ UNCHANGED <<saved, skip, macros, status>>

Endif(l) ==
  /\ l.op = "endif" /\ skip \in {0, 1}
  /\ IF cond_incl = <<>>
     THEN error_tok
     ELSE /\ cond_incl' = SubSeq(cond_incl, 1, Len(cond_incl) - 1)
          /\ skip' = 0
          /\ kept' = FALSE
          /\ UNCHANGED <<saved, macros, status>>

\* #include: preprocess() is called for the file's tokens.
Include(l) ==
  /\ l.op = "include" /\ skip = 0
  /\ Len(saved) < MaxInclude
  /\ saved' = Append(saved, Ptr)
  /\ macros' = init_macros(macros)
  /\ kept' = TRUE
  /\ UNCHANGED <<cond_incl, skip, status>>

ErrorDirective(l) ==
  /\ l.op = "error" /\ skip = 0
  /\ error_tok
-----------------------------------------------------------------------------
(* Lines the skipping functions pass over.                                 *)

OpensNested(l) == l.op \in Openers \/ (l.op = "text" /\ l.arg \in Openers)
ClosesNested(l) == l.op = "endif" \/ (l.op = "text" /\ l.arg = "endif")
StopsSkipping(l) == l.op \in Branches \/ (l.op = "text" /\ l.arg \in Branches)

\* Mutant: a nested #if is passed over like any other line.
SkipNestedUncounted(l) ==
  /\ skip >= 1 /\ OpensNested(l)
  /\ kept' = FALSE
  /\ UNCHANGED <<cond_incl, saved, skip, macros, status>>

SkipNested(l) ==
  /\ skip >= 1 /\ OpensNested(l)
  /\ skip < MaxSkip
  /\ skip' = skip + 1
  /\ kept' = FALSE
  /\ UNCHANGED <<cond_incl, saved, macros, status>>

SkipNestedEnd(l) ==
  /\ skip >= 2 /\ ClosesNested(l)
  /\ skip' = skip - 1
  /\ kept' = FALSE
  /\ UNCHANGED <<cond_incl, saved, macros, status>>

SkipLine(l) ==
  /\ ~OpensNested(l)
  /\ \/ skip = 1 /\ ~StopsSkipping(l)
     \/ skip >= 2 /\ ~ClosesNested(l)
  /\ kept' = FALSE
  /\ UNCHANGED <<cond_incl, saved, skip, macros, status>>
-----------------------------------------------------------------------------
\* Mutant: the main file's pointer is taken down like an included file's.
EndFilePopsAll ==
  /\ Ptr = CurrentCondIncl
  /\ skip' = 0
  /\ saved' = SubSeq(saved, 1, Len(saved) - 1)
  /\ status' = IF Len(saved) = 1 THEN "done" ELSE status
  /\ kept' = FALSE
  /\ UNCHANGED <<cond_incl, macros>>

\* The end of a file: every skipping function returns, preprocess2's loop ends,
\* and preprocess() compares cond_incl with the pointer it saved.  To report
\* the mismatch it reads cond_incl->tok, also if cond_incl is null.
EndFile ==
  IF Ptr # CurrentCondIncl
  THEN /\ status' = IF cond_incl = <<>> THEN "crash" ELSE "error"
       /\ UNCHANGED <<cond_incl, saved, skip, macros, kept>>
  ELSE /\ skip' = 0
       /\ IF Len(saved) = 1
          THEN status' = "done" /\ saved' = saved
          ELSE status' = status /\ saved' = SubSeq(saved, 1, Len(saved) - 1)
       /\ kept' = FALSE
       /\ UNCHANGED <<cond_incl, macros>>

\* Unless Foreign, an included file has an open #if of its own wherever it
\* has an #elif, #else or #endif.
Offered(l) ==
  (~Foreign /\ l.op \in Branches /\ skip <= 1 /\ Len(saved) > 1) => Ptr # CurrentCondIncl

ReadLine(l) ==
  /\ Offered(l)
  /\ \/ Text(l) \/ Define(l) \/ Undef(l)
     \/ If(l) \/ Ifdef(l) \/ Ifndef(l) \/ Elif(l) \/ Else(l) \/ Endif(l)
     \/ Include(l) \/ ErrorDirective(l)
     \/ SkipNested(l) \/ SkipNestedEnd(l) \/ SkipLine(l)

Next ==
  /\ status = "run"
  /\ \/ EndFile /\ line' = NoLine
     \/ \E l \in Lines : ReadLine(l) /\ line' = l

Spec == Init /\ [][Next]_vars
-----------------------------------------------------------------------------
\* The entry that p points to is the i-th of the stack; NULL stands below it.
At(p, i) ==
  \/ p = NULL /\ i = 0
  \/ i \in 1 .. Len(cond_incl) /\ cond_incl[i].node = p

Positions == 0 .. Len(cond_incl)
Depth(p) == CHOOSE i \in Positions : At(p, i)

(***************************************************************************)
(* No entry is twice on the stack; the pointer saved for each open file    *)
(* still is on it; the files' pointers lie in the order the files were     *)
(* opened; and whatever is being skipped was opened by the file being read.*)
(***************************************************************************)
NestedFiles ==
  /\ saved[1] = NULL
  /\ \A i, j \in 1 .. Len(cond_incl) : cond_incl[i].node = cond_incl[j].node => i = j
  /\ \A k \in 1 .. Len(saved) : \E i \in Positions : At(saved[k], i)
  /\ \A j, k \in 1 .. Len(saved), a, b \in Positions :
        j <= k /\ At(saved[j], a) /\ At(saved[k], b) => a <= b
  /\ skip >= 1 => ~At(CurrentCondIncl, Len(cond_incl))

(***************************************************************************)
(* Text is read only inside groups one of whose conditions held, or whose  *)
(* #else was reached: no entry that encloses live text is still waiting    *)
(* for a branch.                                                           *)
(***************************************************************************)
LiveGroupsTaken ==
  \A i \in 1 .. Len(cond_incl) :
    (i < Len(cond_incl) \/ skip = 0) =>
      cond_incl[i].included \/ cond_incl[i].ctx = "IN_ELSE"

(***************************************************************************)
(* A file that does not end in the group it began in is reported, as       *)
(* "unterminated conditional directive"; the comparison never brings the   *)
(* compiler down.                                                          *)
(***************************************************************************)
UnbalancedFilesReported == status # "crash"

(***************************************************************************)
(* Only a #define or #undef of a name changes what the name means:         *)
(* `defined` asks for the definition "at the current point in the program".*)
(***************************************************************************)
MacroPersists ==
  [][\A n \in Names : macros'[n] # macros[n] =>
       line'.op \in {"define", "undef"} /\ line'.arg = n]_vars

(***************************************************************************)
(* Refinement: the entries on the stack are the open groups, followed by   *)
(* the groups the skipping functions are inside of.                        *)
(***************************************************************************)
DeadGroup == [taken |-> TRUE, live |-> FALSE, inElse |-> FALSE]

GroupOf(i) ==
  [taken |-> cond_incl[i].included \/ cond_incl[i].ctx = "IN_ELSE",
   live |-> i < Len(cond_incl) \/ skip = 0,
   inElse |-> cond_incl[i].ctx = "IN_ELSE"]

OpenGroups == Len(cond_incl) + (IF skip = 0 THEN 0 ELSE skip - 1)

groupsBar == [i \in 1 .. OpenGroups |-> IF i <= Len(cond_incl) THEN GroupOf(i) ELSE DeadGroup]
baseBar == [k \in 1 .. Len(saved) |-> Depth(saved[k])]

Groups == INSTANCE CondGroups
            WITH groups <- groupsBar, base <- baseBar, defs <- macros

(***************************************************************************)
(* The preprocessor reads exactly the text that the nesting of the         *)
(* conditional groups selects.                                             *)
(***************************************************************************)
Refines == Groups!AbsSpec

(***************************************************************************)
(* The lines for which the refinement holds: no `#` inside a text line, no *)
(* redefinition of a predefined macro.                                     *)
(***************************************************************************)
BenignLines ==
  /\ ~Foreign
  /\ \A l \in Lines : /\ l.op = "text" => l.arg = PlainText
                      /\ l.op \in {"define", "undef"} => l.arg \notin Predefined
=============================================================================

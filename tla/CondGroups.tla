----------------------------- MODULE CondGroups -----------------------------
(***************************************************************************)
(* What conditional inclusion promises, stated without the preprocessor's  *)
(* skipping machinery: every #if opens a group, wherever it stands; a      *)
(* group has at most one live branch; a line takes effect iff every group  *)
(* around it is in its live branch; the groups of a file are closed in     *)
(* that file; and a macro means what the last #define or #undef that took  *)
(* effect says.                                                            *)
(***************************************************************************)
EXTENDS Naturals, Sequences

CONSTANTS Names,       \* macro names
          Predefined,  \* those the compiler defines before the first line
          Lines,       \* the lines a file may hold: records [op, arg]
          NoLine       \* stands for the end of a file

VARIABLES groups,  \* the open groups of all open files, innermost last: has a
                   \* branch been live, is the present one, is that the #else
          base,    \* per open file, how many groups were open when it began
          defs,    \* meaning of every macro name
          line,    \* the line just read
          kept,    \* did it take effect?
          status   \* "run", "done" or "error"

absVars == <<groups, base, defs, line, kept, status>>

\* Every group but the innermost, respectively every group, is in its live branch.
OuterLive == \A i \in 1 .. Len(groups) - 1 : groups[i].live
AllLive == \A i \in 1 .. Len(groups) : groups[i].live

\* Does the file being read have an open group of its own?
HasOwnGroup == Len(groups) > base[Len(base)]

\* The condition of a line that opens a group or a branch.
Holds(l) ==
  \/ l.op = "else"
  \/ l.op \in {"if", "elif"} /\ l.arg = "true"
  \/ l.op \in {"if", "elif", "ifdef"} /\ l.arg \in Names /\ defs[l.arg] # "none"
  \/ l.op = "ifndef" /\ defs[l.arg] = "none"
IllFormed(l) == l.op \in {"if", "elif"} /\ l.arg = "bad"

AbsInit ==
  /\ groups = <<>>
  /\ base = <<0>>
  /\ defs = [n \in Names |-> IF n \in Predefined THEN "builtin" ELSE "none"]
  /\ line = NoLine
  /\ kept = FALSE
  /\ status = "run"

Fail ==
  /\ status' = "error"
  /\ UNCHANGED <<groups, base, defs, kept>>

\* A line of text, a #define or #undef, an #include: they take effect in live text.
AbsText(l) ==
  /\ l.op = "text" /\ AllLive
  /\ kept' = TRUE
  /\ UNCHANGED <<groups, base, defs, status>>

AbsSetMacro(l) ==
  /\ l.op \in {"define", "undef"} /\ AllLive
  /\ defs' = [defs EXCEPT ![l.arg] = IF l.op = "define" THEN "user" ELSE "none"]
  /\ kept' = TRUE
  /\ UNCHANGED <<groups, base, status>>

AbsInclude(l) ==
  /\ l.op = "include" /\ AllLive
  /\ base' = Append(base, Len(groups))
  /\ kept' = TRUE
  /\ UNCHANGED <<groups, defs, status>>

\* None of them, nor an #error, means anything in dead text.
AbsDead(l) ==
  /\ l.op \in {"text", "define", "undef", "include", "error"} /\ ~AllLive
  /\ kept' = FALSE
  /\ UNCHANGED <<groups, base, defs, status>>

\* A group opened in dead text is dead whatever its condition says.
AbsOpen(l) ==
  /\ l.op \in {"if", "ifdef", "ifndef"}
  /\ AllLive => ~IllFormed(l)
  /\ groups' = Append(groups, IF AllLive
                              THEN [taken |-> Holds(l), live |-> Holds(l), inElse |-> FALSE]
                              ELSE [taken |-> TRUE, live |-> FALSE, inElse |-> FALSE])
  /\ kept' = FALSE
  /\ UNCHANGED <<base, defs, status>>

\* An #elif or #else: the branch is live iff none was before it.  The
\* branches of a group that stands in dead text are not looked at, nor are
\* the conditions of a group that has had its live branch.
AbsBranch(l) ==
  /\ l.op \in {"elif", "else"} /\ HasOwnGroup
  /\ LET top == groups[Len(groups)]
         live == ~top.taken /\ Holds(l)
     IN  /\ OuterLive => ~top.inElse /\ (top.taken \/ ~IllFormed(l))
         /\ groups' = IF OuterLive
                      THEN [groups EXCEPT ![Len(groups)] =
                              [taken |-> top.taken \/ live \/ l.op = "else",
                               live |-> live, inElse |-> l.op = "else"]]
                      ELSE groups
  /\ kept' = FALSE
  /\ UNCHANGED <<base, defs, status>>

AbsClose(l) ==
  /\ l.op = "endif" /\ HasOwnGroup
  /\ groups' = SubSeq(groups, 1, Len(groups) - 1)
  /\ kept' = FALSE
  /\ UNCHANGED <<base, defs, status>>

\* A branch or an #endif that has no group, or a branch behind the group's #else.
AbsStray(l) ==
  /\ l.op \in {"elif", "else", "endif"}
  /\ HasOwnGroup => l.op # "endif" /\ groups[Len(groups)].inElse
  /\ Fail

\* An ill-formed condition or an #error, where it is looked at.
AbsReject(l) ==
  /\ \/ AllLive /\ (l.op = "error" \/ (l.op = "if" /\ IllFormed(l)))
     \/ /\ l.op = "elif" /\ IllFormed(l)
        /\ HasOwnGroup /\ OuterLive /\ ~groups[Len(groups)].taken
  /\ Fail

AbsEndFile ==
  \/ HasOwnGroup /\ Fail
  \/ /\ ~HasOwnGroup
     /\ IF Len(base) = 1
        THEN status' = "done" /\ base' = base
        ELSE status' = status /\ base' = SubSeq(base, 1, Len(base) - 1)
     /\ kept' = FALSE
     /\ UNCHANGED <<groups, defs>>

AbsLine(l) ==
  \/ AbsText(l) \/ AbsSetMacro(l) \/ AbsInclude(l) \/ AbsDead(l)
  \/ AbsOpen(l) \/ AbsBranch(l) \/ AbsClose(l)
  \/ AbsStray(l) \/ AbsReject(l)

AbsNext ==
  /\ status = "run"
  /\ \/ AbsEndFile /\ line' = NoLine
     \/ \E l \in Lines : AbsLine(l) /\ line' = l

AbsSpec == AbsInit /\ [][AbsNext]_absVars
=============================================================================

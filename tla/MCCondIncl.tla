----------------------------- MODULE MCCondIncl -----------------------------
(***************************************************************************)
(* Instances of CondIncl: one macro of the program's own, one predefined.  *)
(***************************************************************************)
EXTENDS CondIncl

MCNames == {"USER", "PRE"}
MCPredefined == {"PRE"}

Line(o, args) == {[op |-> o, arg |-> a] : a \in args}

\* Every directive, over text that holds no `#` and no change to PRE.
MCBenign ==
  Line("text", {PlainText}) \cup Line("define", {"USER"}) \cup Line("undef", {"USER"})
  \cup Line("ifdef", {"USER"}) \cup Line("ifndef", {"USER", "PRE"})
  \cup Line("if", {"true", "false", "bad", "USER"})
  \cup Line("elif", {"true", "false", "bad", "USER"})
  \cup Line("else", {PlainText}) \cup Line("endif", {PlainText})
  \cup Line("include", {PlainText}) \cup Line("error", {PlainText})

\* As above, with PRE undefined and redefined by the program.
MCRedefine == MCBenign \cup Line("define", {"PRE"}) \cup Line("undef", {"PRE"})
=============================================================================

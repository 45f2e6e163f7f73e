------------------------------ MODULE MCKiwias ------------------------------
(***************************************************************************)
(* Instances of Kiwias.  "gv" and "x1" stand for two variables of other    *)
(* files; a source may also take the address of main.                      *)
(***************************************************************************)
EXTENDS Kiwias

MCNames == {"gv", "x1", "main"}
MCLength == [n \in MCNames \cup {"", ".L0 "} |->
               CASE n = "" -> 0 [] n = "main" -> 4 [] n = ".L0 " -> 4 [] OTHER -> 2]

Line(o, names) == {[op |-> o, name |-> n] : n \in names}

\* The instructions the assembler is made for; `jr` only with ra.
MCLines ==
  Line("addi", {""}) \cup Line("sub", {""}) \cup Line("la", MCNames)
  \cup Line("jr ra", {""}) \cup Line("other", {""}) \cup Line("bad", {""})

\* As above, and `jr` with other registers.
MCAnyJr == MCLines \cup Line("jr", {""})
=============================================================================

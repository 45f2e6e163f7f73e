--------------------------- MODULE MCStructObject ---------------------------
(***************************************************************************)
(* Instances of StructObject for TLC: the integer types of RISC-V, and an  *)
(* aggregate of three ints that stands for members of struct or array      *)
(* type.                                                                   *)
(***************************************************************************)
EXTENDS StructObject

Integer(n) == [size |-> n, align |-> n, integer |-> TRUE]

MCTypes == {Integer(1), Integer(4), Integer(8), [size |-> 12, align |-> 4, integer |-> FALSE]}
=============================================================================

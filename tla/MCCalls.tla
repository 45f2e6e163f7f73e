------------------------------ MODULE MCCalls ------------------------------
(***************************************************************************)
(* Instances of Calls for TLC: a byte, a pointer and a double.             *)
(***************************************************************************)
EXTENDS Calls

Char == [size |-> 1, align |-> 1, flonum |-> FALSE]
Pointers == [size |-> 8, align |-> 8, flonum |-> FALSE]
Double == [size |-> 8, align |-> 8, flonum |-> TRUE]

MCTypes == {Char, Pointers, Double}
MCPointers == {Pointers}
=============================================================================

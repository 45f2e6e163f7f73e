------------------------------- MODULE Record -------------------------------
(***************************************************************************)
(* What an object of a struct type promises: members that hold a value     *)
(* each.  Assigning to one leaves the others alone.                        *)
(***************************************************************************)
CONSTANTS Fields, Values, Undefined

VARIABLE value  \* a function from the fields

Init == value = [f \in Fields |-> Undefined]

\* The fields of F take new values, the others keep theirs.
Change(F) ==
  /\ value' = [f \in Fields |-> IF f \in F THEN value'[f] ELSE value[f]]
  /\ \A f \in F : value'[f] \in Values

Assign(f) == Change({f})

\* An initializer gives some fields their first values at once.
Initialize ==
  /\ \A f \in Fields : value[f] = Undefined
  /\ \E F \in SUBSET Fields : Change(F)

Next == Initialize \/ \E f \in Fields : Assign(f)

Spec == Init /\ [][Next]_value
=============================================================================

------------------------------- MODULE Blocks -------------------------------
(***************************************************************************)
(* What scopes promise: nested blocks, each with its own bindings; a key   *)
(* (a name, or a tag) means what the innermost block that binds it says,   *)
(* and a block that is closed leaves no trace.                             *)
(*                                                                         *)
(* seen is the construct just read, the key it is about, and the entity    *)
(* the key was found or made to mean.                                      *)
(***************************************************************************)
EXTENDS Integers, Sequences

CONSTANTS Keys, None

VARIABLES blocks, entities, seen

vars == <<blocks, entities, seen>>

Unbound == [k \in Keys |-> None]

Binders(k) == {d \in DOMAIN blocks : blocks[d][k] # None}

Meaning(k) ==
  IF Binders(k) = {} THEN None
  ELSE blocks[CHOOSE d \in Binders(k) : \A e \in Binders(k) : e <= d][k]

Init == blocks = <<Unbound>> /\ entities = {} /\ seen = <<"start", None, None>>

Open ==
  /\ seen' = <<"open", None, None>>
  /\ blocks' = Append(blocks, Unbound)
  /\ entities \subseteq entities'

Close ==
  /\ seen' = <<"close", None, None>>
  /\ Len(blocks) > 1
  /\ blocks' = SubSeq(blocks, 1, Len(blocks) - 1)
  /\ entities \subseteq entities'

\* What introduces no key, a use of one included; it may make entities that no
\* key means.
Pass ==
  /\ seen' = <<"pass", None, None>>
  /\ entities \subseteq entities'
  /\ UNCHANGED blocks

Keep(k) ==
  /\ seen'[3] = Meaning(k)
  /\ entities \subseteq entities'
  /\ UNCHANGED blocks

\* The innermost block binds k to a new entity.
Bind(k) ==
  /\ seen'[3] \in entities' \ entities
  /\ seen'[3] # None
  /\ entities \subseteq entities'
  /\ blocks' = [blocks EXCEPT ![Len(blocks)] = [@ EXCEPT ![k] = seen'[3]]]

Declare(k) == seen'[1] = "declare" /\ seen'[2] = k /\ Bind(k)

\* f(...) declares f unless f means something that has a value.
Call(k) ==
  /\ seen'[1] = "call" /\ seen'[2] = k
  /\ IF Meaning(k)[1] \in {"var", "enum"} THEN Keep(k) ELSE Bind(k)

\* struct t: what t means, or a type to be completed.
Mention(k) ==
  /\ seen'[1] = "mention" /\ seen'[2] = k
  /\ IF Meaning(k) # None THEN Keep(k) ELSE Bind(k)

\* struct t { ... }: completes the t of this block, or makes one; t inside the
\* braces is the same type already.
Define(k) ==
  /\ seen'[1] \in {"define", "define_self"} /\ seen'[2] = k
  /\ seen'[1] = "define_self" => seen'[4] = seen'[3]
  /\ IF blocks[Len(blocks)][k] # None THEN Keep(k) ELSE Bind(k)

Next ==
  \/ Open \/ Close \/ Pass
  \/ \E k \in Keys : Declare(k) \/ Call(k) \/ Mention(k) \/ Define(k)

Spec == Init /\ [][Next]_vars
=============================================================================

------------------------------ MODULE MCScope ------------------------------
(***************************************************************************)
(* Instances of Scope for TLC.                                             *)
(***************************************************************************)
EXTENDS Scope

MCVocabularies ==
  {{"typedef", "for", "param"}, {"static", "extern"}, {"struct", "const", "self", "sizeof"},
   {"enum", "struct"}, {"call", "unnamed", "for"}}
=============================================================================

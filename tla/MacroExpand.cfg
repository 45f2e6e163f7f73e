CONSTANTS
  Programs <- MCPrograms
SPECIFICATION Spec
INVARIANTS  MatchesReference
PROPERTIES Terminates
CHECK_DEADLOCK FALSE

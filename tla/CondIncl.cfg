CONSTANTS
  Names <- MCNames
  Predefined <- MCPredefined
  Lines <- MCBenign
  Nodes = {n1, n2, n3}
  NULL = NULL
  Foreign = FALSE
  MaxInclude = 3
  MaxSkip = 3
SPECIFICATION Spec
INVARIANTS TypeOK NestedFiles LiveGroupsTaken
PROPERTIES Refines
CHECK_DEADLOCK FALSE

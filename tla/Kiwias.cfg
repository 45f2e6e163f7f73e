CONSTANTS
  Names <- MCNames
  Length <- MCLength
  Lines <- MCLines
  MaxNodes = 5
SPECIFICATION Spec
INVARIANTS RelocationsAtLa LaLinked SymtabWellFormed HeadersConsistent LayoutSound StringsRecorded
CHECK_DEADLOCK FALSE

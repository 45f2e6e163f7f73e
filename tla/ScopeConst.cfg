SPECIFICATION Spec
CONSTANTS
  Names = {"x"}
  Tags = {"t"}
  MaxDepth = 3
  MaxMade = 5
  Vocabularies <- MCVocabularies
  Programs = {"const_incomplete"}
CHECK_DEADLOCK FALSE
INVARIANTS TypesCompleted

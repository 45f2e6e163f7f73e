SPECIFICATION Spec
CONSTANTS
  Names = {"x"}
  Tags = {"t"}
  MaxDepth = 3
  MaxMade = 5
  Vocabularies <- MCVocabularies
  Programs = {}
CHECK_DEADLOCK FALSE
INVARIANTS VisibleHaveStorage TypesCompleted FindsInnermost
PROPERTIES Refines

SPECIFICATION Spec
CONSTANTS
  Types <- MCTypes
  MaxParams = 2
  MaxLocals = 4
  MaxDepth = 2
  MaxArgs = 3
  MaxWrites = 2
  RunLocals = 4
  Programs = {}
CHECK_DEADLOCK FALSE
INVARIANTS FrameDisjoint VariablesKept ExtraArgumentsFound StackAligned
PROPERTIES ReturnsProperly

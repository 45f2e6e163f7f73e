SPECIFICATION Spec
CONSTANTS
  Types <- MCPointers
  MaxParams = 1
  MaxLocals = 5
  MaxDepth = 1
  MaxArgs = 1
  MaxWrites = 2
  RunLocals = 5
  Programs = {"late_va_start"}
CHECK_DEADLOCK FALSE
INVARIANT VariablesKept

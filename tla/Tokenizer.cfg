SPECIFICATION Spec
CONSTANTS
  Files <- MCFiles
  InitialBuffer = 4
  Programs = {}
CHECK_DEADLOCK FALSE
INVARIANTS NulTerminated TokensExact LinesPhysical
PROPERTIES Terminates

CONSTANTS
  ByteBits = 2
  NRegs = 4
  Nodes <- MCNodes
  Programs <- MCPrograms
SPECIFICATION Spec
INVARIANTS TopBalanced JumpsResolved MeansTheSame StaticsAgree
CHECK_DEADLOCK FALSE

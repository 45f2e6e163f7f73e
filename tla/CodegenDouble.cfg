CONSTANTS
  ByteBits = 2
  NRegs = 4
  Nodes <- MCDoubleNodes
  Programs <- MCDoubleConditions
SPECIFICATION Spec
INVARIANTS MeansTheSame
CHECK_DEADLOCK FALSE

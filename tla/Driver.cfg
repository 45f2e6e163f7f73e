CONSTANTS
  MaxArgs = 4
  MayKill = TRUE
  Inherited = TRUE
SPECIFICATION Spec
INVARIANTS TypeOK NoTempLeft AssemblerReadsAll WaitsForAssembler
PROPERTIES ExitEndsWait
CHECK_DEADLOCK FALSE

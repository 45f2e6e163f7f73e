SPECIFICATION Spec
CONSTANTS
  Types <- MCTypes
  Alignas = {16}
  Widths = {3, 7, 11}
  MaxMembers = 3
  MaxUses = 1
  Versions = {0, 1}
  MaxFields = 2
  Programs = {}
CHECK_DEADLOCK FALSE
INVARIANTS MembersDisjoint MembersAligned ReadsBack
PROPERTIES UsesChangeNothing ImplementsRecord

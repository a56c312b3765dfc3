CONSTANTS
  BLOCK_SIZE = 4
  Addr = {1, 6, 12}
  Size = {0, 2, 4}
  Alignment = {0, 2}
  MaxRegions = 4
SPECIFICATION Spec
INVARIANTS
  TypeOK
  RegionsOwned
  RegionsDisjoint
  RegionsAligned
PROPERTIES
  DestroyedInReverse
  ResetCompletes

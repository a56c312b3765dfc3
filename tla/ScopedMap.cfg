CONSTANTS
  Name = {x, y}
  Value = {v1, v2}
  Absent = Absent
  MaxDepth = 2
  MaxEntries = 4
SPECIFICATION Spec
INVARIANTS
  TypeOK
  EntriesSorted
PROPERTIES
  PopIsExact
  ImplementsScopeStack

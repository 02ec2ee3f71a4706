SPECIFICATION Spec
CONSTANTS
  k1 = k1
  k2 = k2
  k3 = k3
  k4 = k4
  k5 = k5
  Key = {k1, k2, k3, k4, k5}
  Word = 8
  MaxStat = 1
  Args <- MCArgs
INVARIANTS
  TypeOK
  ListsAgree
  DirectoryBound
  SameAccesses
PROPERTIES
  EvictionBalance
  EvictsWhenFull
  WithinCapacityIfClamped
  CurveMade

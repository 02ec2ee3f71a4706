SPECIFICATION Spec
CONSTANTS
  self = self
  n1 = n1
  n2 = n2
  n3 = n3
  n4 = n4
  k1 = k1
  k2 = k2
  k3 = k3
  k4 = k4
  Tag = {self}
  Node = {n1, n2, n3, n4}
  Key = {k1, k2, k3, k4}
  pool <- MCpool
  NoKey = NoKey
  Nil = Nil
  MaxRefs = 3
SYMMETRY KeySymmetry
INVARIANTS
  TypeOK
  OneList
  TableAgrees
  RefState
  Counts
  PinsCounted
  Issued
  InsertFailsOnlyIfFull
PROPERTIES
  PinnedStays
  ImplementsPolicy

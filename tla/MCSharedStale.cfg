SPECIFICATION Spec
CONSTANTS
  A = A
  B = B
  n1 = n1
  n2 = n2
  n3 = n3
  k1 = k1
  k2 = k2
  k3 = k3
  Tag = {A, B}
  Node = {n1, n2, n3}
  Key = {k1, k2, k3}
  pool <- MCpool
  NoKey = NoKey
  NoTag = NoTag
  Nil = Nil
  MaxRefs = 2
  MaxMove = 2
  StaleHandles = TRUE
SYMMETRY KeySymmetry
PROPERTIES
  EraseOnlyFromLRU

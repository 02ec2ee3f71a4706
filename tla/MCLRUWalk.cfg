SPECIFICATION WalkSpec
CONSTANTS
  self = self
  n1 = n1
  n2 = n2
  n3 = n3
  Tag = {self}
  Node = {n1, n2, n3}
  Key = {k1, k2, k3}
  pool <- MCpool
  NoKey = NoKey
  Nil = Nil
  MaxRefs = 2
VIEW Live
INVARIANTS
  VisitsOnce
PROPERTIES
  VisitsInOrder
  WalkEnds

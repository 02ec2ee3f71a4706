SPECIFICATION Spec
CONSTANTS
  self = self
  n1 = n1
  n2 = n2
  n3 = n3
  k1 = k1
  k2 = k2
  k3 = k3
  k4 = k4
  Node = {n1, n2, n3}
  Key = {k1, k2, k3, k4}
  pool_ <- MCpool
  Hash <- MCHash
  NoKey = NoKey
  Nil = Nil
  MaxRefs = 3
VIEW Live
SYMMETRY KeySymmetry
INVARIANTS
  LinksAgree
  ChainsExact
PROPERTIES
  ImplementsLRUCache

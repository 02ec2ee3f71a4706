SPECIFICATION SampledSpec
CONSTANTS
  self = self
  n1 = n1
  n2 = n2
  n3 = n3
  n4 = n4
  n5 = n5
  n6 = n6
  n7 = n7
  k1 = k1
  k2 = k2
  k3 = k3
  k4 = k4
  k5 = k5
  k6 = k6
  k7 = k7
  k8 = k8
  k9 = k9
  Tag = {self}
  Node = {n1, n2, n3, n4, n5, n6, n7}
  Key = {k1, k2, k3, k4, k5, k6, k7, k8, k9}
  pool <- MCpool
  NoKey = NoKey
  Nil = Nil
  DummyHead = DummyHead
  NoQuery = NoQuery
  tick = 2
  min_size = 3
  max_size = 7
  MaxCount = 2
  Hash <- MCHash
  HashBits = 5
  SampleShift = 1
VIEW Shape
INVARIANTS
  TypeOK
  SizeIdxExact
  BoundariesExact
  StatConsistent
PROPERTIES
  SimulatesCaches

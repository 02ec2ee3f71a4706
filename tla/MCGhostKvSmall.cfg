SPECIFICATION KvSpec
CONSTANTS
  self = self
  n1 = n1
  n2 = n2
  n3 = n3
  n4 = n4
  n5 = n5
  n6 = n6
  n7 = n7
  n8 = n8
  Tag = {self}
  Node = {n1, n2, n3, n4, n5, n6, n7, n8}
  Key = {0, 1, 2, 3, 4, 5, 6, 16}
  pool <- MCpool
  NoKey = NoKey
  Nil = Nil
  DummyHead = DummyHead
  NoQuery = NoQuery
  tick = 2
  min_size = 4
  max_size = 8
  MaxCount = 1
  KvSize = {1, 2}
  HashBits = 5
  Hash <- idhash
  SampleShift = 1
  Word = 65536
VIEW Shape
INVARIANTS
  CurveAsksSimulated

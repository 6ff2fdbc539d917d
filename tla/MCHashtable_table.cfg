CONSTANTS
  k1 = k1
  k2 = k2
  k3 = k3
  k4 = k4
  Key = {k1, k2, k3, k4}
  Node = {n1, n2, n3, n4, n5}
  Entry = {e1, e2, e3, e4}
  Hashes <- MCHashes
  InitSize = 1
  Null = Null
SPECIFICATION Spec
SYMMETRY MemorySymmetry
INVARIANTS TypeOK WellLinked LookupFinds NodesOwned
PROPERTIES VisitsEachOnce ImplementsMap

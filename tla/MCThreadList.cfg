CONSTANTS
  Procs = {p1, p2}
  Nodes = {n1, n2, n3}
  ll = ll
  NULL = NULL
  Garbage = Garbage
  Free = Free
  Nobody = Nobody
  Data <- SomeData
SYMMETRY Interchangeable
SPECIFICATION Spec
INVARIANTS
  TypeOK
  ListMemory
PROPERTY
  AtomicList

CONSTANTS
  MAX = 2
  NULL = NULL
  Free = Free
  Nobody = Nobody
  Procs = {p1, p2}
  Files = {f1}
  Addrs = {a1, a2, a3, a4}
  NL = NL
  a = a
  b = b
  Bytes = {a, b, NL}
  Payloads <- ReaderPayloads
  Counts = {2}
  Seeks <- SomeSeeks
  SeekTos <- SomeSeekTos
  MaxPartial = 1
SYMMETRY Interchangeable
SPECIFICATION Spec
INVARIANT
  LockDiscipline
PROPERTY
  AtomicDevice

CONSTANTS
  MAX = 2
  NULL = NULL
  Free = Free
  Nobody = Nobody
  Procs = {p1, p2}
  Files = {f1}
  Addrs = {a1, a2, a3, a4, a5}
  NL = NL
  a = a
  b = b
  Bytes = {a, b, NL}
  Payloads <- WriterPayloads
  Counts = {}
  Seeks <- NoSeeks
  SeekTos <- NoSeeks
  MaxPartial = 1
SYMMETRY Interchangeable
SPECIFICATION Spec
INVARIANTS
  TypeOK
  LockDiscipline
  MemoryOwned
  EntriesAreLines
PROPERTY
  AtomicDevice

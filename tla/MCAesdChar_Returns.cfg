CONSTANTS
  MAX = 1
  NULL = NULL
  Free = Free
  Nobody = Nobody
  Procs = {p1, p2}
  Files = {f1}
  Addrs = {a1, a2, a3}
  NL = NL
  a = a
  b = b
  Bytes = {a, b, NL}
  Payloads <- FewPayloads
  Counts = {1}
  Seeks <- FewSeeks
  SeekTos <- FewSeekTos
  MaxPartial = 0
SPECIFICATION FairSpec
PROPERTY
  CallsReturn

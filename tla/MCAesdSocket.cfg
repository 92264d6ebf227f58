CONSTANTS
  MAX = 3
  NL = NL
  Conns = {c1, c2, c3}
  Timer = Timer
  Builds = {"device"}
  Date <- ShortDate
  MaxTicks = 0
  Nobody = Nobody
  NULL = NULL
  BUFFER_SIZE = 4
  Slack = 2
  Bytes <- SomeBytes
  junk = junk
  Tails = {0, 6}
  a = a
  b = b
  Clients <- SomeClients
SYMMETRY Interchangeable
SPECIFICATION Spec
INVARIANTS
  TypeOK
  SeekReadsToEnd
  RepliesAreHistory
  OverflowNeedsHistory
CHECK_DEADLOCK FALSE

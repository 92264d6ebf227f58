CONSTANTS
  MAX = 3
  NL = NL
  Conns = {c1, c2}
  Timer = Timer
  Builds = {"device", "file"}
  Date <- ShortDate
  MaxTicks = 2
  Nobody = Nobody
  NULL = NULL
  BUFFER_SIZE = 4
  Slack = 2
  Bytes <- SomeBytes
  junk = junk
  Tails = {0, 1}
  a = a
  b = b
  Clients <- FewClients
SPECIFICATION FairSpec
INVARIANTS
  RepliesAreHistory
  OverflowNeedsHistory
PROPERTY
  ClientsServed
CHECK_DEADLOCK FALSE

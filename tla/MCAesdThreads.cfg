CONSTANTS
  Conns = {c1, c2}
  Joiner = Joiner
  Listener = Listener
  Handlers = {h1, h2}
  FewConns = {c1}
  FewNodes = {n1}
  FewIds = {1}
  Procs <- AllThreads
  Nodes = {n1, n2}
  ll = ll
  NULL = NULL
  Garbage = Garbage
  Free = Free
  Nobody = Nobody
  Ids = {1, 2}
SPECIFICATION MCSpec
INVARIANTS
  TypeOK
  FaultNeedsRace
  UnjoinedWereLost
PROPERTIES
  ThreadsEnd
  SignalsEnd
CHECK_DEADLOCK FALSE

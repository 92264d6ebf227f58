CONSTANTS
  Conns = {c1}
  Joiner = Joiner
  Listener = Listener
  Handlers = {h1}
  FewConns = {c1}
  FewNodes = {n1}
  FewIds = {1}
  Procs <- AllThreads
  Nodes = {n1}
  ll = ll
  NULL = NULL
  Garbage = Garbage
  Free = Free
  Nobody = Nobody
  Ids = {1}
SPECIFICATION MCSpec
PROPERTY
  SignalExits
CHECK_DEADLOCK FALSE

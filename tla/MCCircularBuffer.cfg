CONSTANTS
  MAX = 10
  NULL = NULL
  Memory = Memory
  Entries <- MCEntries
SPECIFICATION Spec
INVARIANTS
  TypeOK
  RingShape
  FindFollowsWriteOrder
  SeekAgreesWithFind
PROPERTY
  KeepsMostRecent

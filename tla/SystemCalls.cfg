CONSTANTS
  ExitCodes = {0, 1, 2}
  MaxFds = 3
SPECIFICATION FairSpec
INVARIANTS
  TypeOK
  ExecResultIsRight
PROPERTY
  CallsReturn

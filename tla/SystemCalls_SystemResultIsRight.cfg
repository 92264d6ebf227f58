CONSTANTS
  ExitCodes = {0, 1, 2}
  MaxFds = 3
SPECIFICATION Spec
INVARIANT
  SystemResultIsRight

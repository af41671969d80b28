CONSTANTS
  Pids = {1, 2}
  Boot = {1}
  Nodes <- MCNodes
  MaxFd = 3
  MaxOffset = 1
SPECIFICATION Spec
INVARIANT TypeOK
PROPERTY Implements
CHECK_DEADLOCK FALSE

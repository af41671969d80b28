CONSTANTS
  Bar = {0, 4}
  MaxIcons = 2
  FirstIcons <- MCIcons
SPECIFICATION MenusSpec
INVARIANTS MenusTypeOK PointersValid
CHECK_DEADLOCK FALSE

CONSTANTS
  MaxWin = 2
  Sizes = {1}
  Full = 2
  MaxSize = 4
  Scales = {1, 2}
SPECIFICATION Spec
INVARIANTS TypeOK ListExact DragsEnd BuffersAccounted

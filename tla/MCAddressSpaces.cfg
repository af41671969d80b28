CONSTANTS
  Frames <- MCFrames
  MaxPid = 2
  Pages = {1, 2, 3}
  Slots = {"pd", "pt", "shmpt", "hpdpt"}
  Walk <- MCWalk
  Image = {1, 3}
  StackPage = 3
  Segs = {1, 2}
  Keys = {7, 8}
  MaxLen = 2
  BootLayout <- MCBootLayout
  BootPools <- MCBootPools
  PoolSizes = {1, 3, 6, 9, 10}
SPECIFICATION Spec
CHECK_DEADLOCK FALSE
INVARIANTS
  TypeOK 
PROPERTIES
  ForkComplete LossOnlyKnown

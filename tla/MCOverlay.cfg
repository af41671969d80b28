CONSTANTS
  MaxNodes = 3
  MaxLoaded = 2
  Bufs = {b1, b2}
  DiskEntry <- MCEntry
  Clusters = {1, 2, 3, 4}
  Items <- MCItems
  Files <- MCFiles
  Handles = {h}
  BootFile <- MCBoot
  MaxSize = 2
  RenameToTaken = FALSE
SPECIFICATION Spec
INVARIANTS TypeOK TableSound 
PROPERTY TreeDeleted

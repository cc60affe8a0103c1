SPECIFICATION SyncSpec
CONSTANTS
  NSessions = 1
  Parent <- MCParent
  PageSize = 1
  MaxRev = 2
  MaxSwaps = 1
  MaxDrops = 1
CHECK_DEADLOCK FALSE
INVARIANT CopyIsCurrent
PROPERTY CatchesUp

CONSTANTS
  Threads = {t1, t2}
  Width = 2
  Depth = 1
  RandomHops = 0
  OneArray = FALSE
  MaxItems = 4
SPECIFICATION LockFreeSpec
INVARIANTS
  TypeOK
  CountsFollowList
  PutSearchInv
  PutWindowExact
  GetWindowFollows
PROPERTIES
  Termination

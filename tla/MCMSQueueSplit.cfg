\* The O0/DEBUG build: count and node of a descriptor are loaded separately.
CONSTANTS
  Threads = {p1, p2}
  MaxNodes = 3
  SplitReads = TRUE
  Null = Null
SPECIFICATION LockFreeSpec
PROPERTIES
  LinearizableAtLink
  HelpedTermination

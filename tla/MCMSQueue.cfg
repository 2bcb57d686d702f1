\* Three threads, two enqueues, -O3 build (descriptors copied by one load).
CONSTANTS
  Threads = {p1, p2, p3}
  MaxNodes = 2
  SplitReads = FALSE
  Null = Null
SPECIFICATION Spec
SYMMETRY Symmetry
INVARIANTS
  TypeOK
  FreedUnreachable
  SameVersionStillEmpty
PROPERTIES
  IsPartialQueue

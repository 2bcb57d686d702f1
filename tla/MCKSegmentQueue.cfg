CONSTANTS
  Threads = {t1, t2}
  SegmentSize = 1
  MaxSegments = 1
  MaxPuts = 2
  MaxGets = 2
SPECIFICATION FairSpec
PROPERTIES
  DeleteEnds
CHECK_DEADLOCK FALSE

CONSTANTS
  Threads = {t1, t2}
  BufferSize = 2
  RingSizes = {1, 2}
  CloseTries = 2
  MaxTickets = 4
  SegmentSize = 2
  MaxSegments = 2
  Width = 2
  Choices = {1, 2}
  Garbage = {0, 1}
  ArrayPuts = 3
  ArrayGets = 3
  RingPuts = 3
  RingGets = 2
  SegmentPuts = 4
  SegmentGets = 2
  ChoicePuts = 3
  ChoiceGets = 2
  StackPuts = 3
  StackGets = 3
SPECIFICATION SuiteSpec
SYMMETRY Symmetry
INVARIANTS
  ReturnedOnce
  FirstInFirstOut
  EmptyIsRight
  
  OutOfOrderInSegment
CHECK_DEADLOCK FALSE

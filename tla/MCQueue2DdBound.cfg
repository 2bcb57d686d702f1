CONSTANTS
  Threads = {t1, t2}
  Width = 2
  Depth = 1
  RandomHops = 2
  OneArray = FALSE
  MaxItems = 4
SPECIFICATION Spec
SYMMETRY Symmetry
PROPERTIES
  OutOfOrderBound

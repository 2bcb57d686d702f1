CONSTANTS
  Threads = {t1, t2}
  Width = 2
  Depth = 1
  RandomHops = 1
  OneArray = FALSE
  MaxItems = 4
  Unused = Unused
SPECIFICATION SuiteSpec
SYMMETRY Symmetry
CHECK_DEADLOCK FALSE
INVARIANTS
  WindowsHold
  SwingFinds
  NeverBelowZero
  CoupledAssert
  
  CoupledWork
  
  StackHeights
PROPERTIES
  InWindow

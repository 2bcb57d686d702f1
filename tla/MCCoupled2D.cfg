CONSTANTS
  Threads = {t1, t2}
  Width = 2
  Depth = 2
  RandomHops = 0
  MaxItems = 7
SPECIFICATION Spec
SYMMETRY Symmetry
INVARIANTS
  AsIfAtomic

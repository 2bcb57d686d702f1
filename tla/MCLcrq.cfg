CONSTANTS
  Threads = {t1, t2}
  RingSizes = {1}
  CloseTries = 2
  MaxPuts = 3
  MaxGets = 2
  MaxTickets = 4
SPECIFICATION Spec
SYMMETRY Symmetry
INVARIANTS
  EmptyJustified
CHECK_DEADLOCK FALSE

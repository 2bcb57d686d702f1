\* Two threads on two sub-queues, both sampled; only the dequeues of one thread
\* are scheduled fairly.  A run may stop where the bound on claimed places is met.
CONSTANTS
  Threads = {t1, t2}
  Width = 2
  D = 2
  MaxItems = 3
  MaxVersion = 2
SPECIFICATION VLockFreeSpec
CHECK_DEADLOCK FALSE
INVARIANTS
  TypeOK
  
  DoubleCollectInv
  ExternalCounts
PROPERTIES
  
  DequeueTerminates

SPECIFICATION Spec
CONSTANTS
  Threads = {t1, t2, t3}
  MaxSubmits = 2
INVARIANTS Fifo NoLostWakeup NothingAfterExit
PROPERTIES AcceptedIsConsumed
CHECK_DEADLOCK FALSE

SPECIFICATION Spec
CONSTANTS
  Callers = {c1, c2}
  RING_SIZE = 3
  LINE_CAPACITY = 2
  MaxBytes = 4
INVARIANTS CutAsReference EofIsFinal JoinedOnce
PROPERTIES RingIsLineQueue JoinReturns
CHECK_DEADLOCK FALSE

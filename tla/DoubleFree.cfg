SPECIFICATION Spec
CONSTANTS
  SLOT_COUNT = 1
  GENERATION_MAX = 3
  WARNING_SIZE = 2
  Threads = {t1}
  Owners = {1}
  Opens = {"LISTEN"}
  Requests = {"CLOSE"}
  Fds = {5}
  Sizes = {1}
  Addresses = {"none"}
  UvOutcomes = {"ok"}
  OutOfMemory = FALSE
  MaxOpens = 1
  MaxRequests = 1
  MaxSends = 0
  MaxEvents = 1
INVARIANTS NoDoubleFree
CHECK_DEADLOCK FALSE

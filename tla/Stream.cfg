SPECIFICATION Spec
CONSTANTS
  SLOT_COUNT = 1
  GENERATION_MAX = 3
  WARNING_SIZE = 2
  Threads = {t1}
  Owners = {1}
  Opens = {"CONNECT", "BIND"}
  Requests = {"START", "PAUSE", "SEND", "SEND_LOW", "CLOSE", "SHUTDOWN"}
  Fds = {5}
  Sizes = {1, 2}
  Addresses = {"none"}
  UvOutcomes = {"ok", "reject"}
  OutOfMemory = FALSE
  MaxOpens = 1
  MaxRequests = 2
  MaxSends = 2
  MaxEvents = 1
INVARIANTS ClosingIsClosed EndReportedOnce QueuedBytesExact BacklogReported BufferReleasedOnce WritesMoveOn
CHECK_DEADLOCK FALSE

SPECIFICATION ServerSpec
CONSTANTS
  SLOT_COUNT = 2
  GENERATION_MAX = 3
  WARNING_SIZE = 2
  Threads = {t1}
  Owners = {1}
  Opens = {"UDP", "BIND"}
  Requests = {"SEND", "UDP_SEND", "UDP_CONNECT", "CLOSE"}
  Fds = {5}
  Sizes = {1}
  Addresses = {"good"}
  UvOutcomes = {"ok", "reject", "discard"}
  OutOfMemory = TRUE
  MaxOpens = 1
  MaxRequests = 1
  MaxSends = 1
  MaxEvents = 1
  BufferTypes = {"MEMORY", "OBJECT", "RAWPOINTER"}
  MaxHanded = 2
INVARIANTS CallerBufferFreedOnce DialledHasTarget
CHECK_DEADLOCK FALSE

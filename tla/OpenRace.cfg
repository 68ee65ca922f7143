SPECIFICATION FairSpec
CONSTANTS
  SLOT_COUNT = 2
  GENERATION_MAX = 3
  WARNING_SIZE = 2
  Threads = {t1, t2}
  Owners = {1}
  Opens = {"CONNECT", "BIND"}
  Requests = {"CLOSE"}
  Fds = {5}
  Sizes = {1}
  Addresses = {"none"}
  UvOutcomes = {"ok", "reject"}
  OutOfMemory = FALSE
  MaxOpens = 2
  MaxRequests = 1
  MaxSends = 0
  MaxEvents = 1
INVARIANTS EntryCountExact DescriptorHeldOnce ExitAfterLastClose
PROPERTIES ExitCompletes
CHECK_DEADLOCK FALSE

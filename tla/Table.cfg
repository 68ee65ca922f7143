SPECIFICATION Spec
CONSTANTS
  SLOT_COUNT = 2
  GENERATION_MAX = 2
  WARNING_SIZE = 2
  Threads = {t1}
  Owners = {1}
  Opens = {"LISTEN", "UDP"}
  Requests = {"START", "NODELAY", "SEND", "UDP_SEND", "CLOSE"}
  Fds = {5}
  Sizes = {1}
  Addresses = {"none", "good", "bad"}
  UvOutcomes = {"ok", "reject", "discard"}
  OutOfMemory = FALSE
  MaxOpens = 1
  MaxRequests = 2
  MaxSends = 1
  MaxEvents = 1
INVARIANTS SlotIntegrity WrittenToAddressee AcceptedIsAnnounced
PROPERTIES ImplementsLife
CHECK_DEADLOCK FALSE

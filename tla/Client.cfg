SPECIFICATION FairSpec
CONSTANTS
  MaxId = 2
  ReceiveLimit = 2
  MaxBytes <- MCMaxBytes
  MaxParts = 2
  MaxSockets = 2
INVARIANTS
  HandlesExact RequestOutlivesUse TimeoutReported BytesInOrder
  ReadsWhileRoom SleepsOnlyIfNothingReady
PROPERTIES TimedConnectReturns DestroyReturns
CHECK_DEADLOCK FALSE

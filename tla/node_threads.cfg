SPECIFICATION Spec
CONSTANTS
  r1 = r1
  r2 = r2
  m1 = m1
  m2 = m2
  none = none
  EpochRequestProcessor = {r1, r2}
  MaxEpoch = 1
  MaxContractThreads = 2
  SnapshotTicks = 2
  TxStatusAddon = FALSE
  Message = {m1, m2}
  MessageSize <- MCMessageSize
  NoMessage = none
  BufferBytes = 5
  MaxMessageSize = 2
  QueueLength = 4
  LockThread = {1, 2, 3}
  OutgoingSlot = {1}
  IncomingSlot = {2}
INVARIANTS ThreadsInv RequestsParked FilesComplete ContractCallsComplete RestoredConsistent SlotsAccounted
PROPERTIES EpochEnds ImplementsFifo ImplementsSharedLock ClosingEnds
CHECK_DEADLOCK FALSE

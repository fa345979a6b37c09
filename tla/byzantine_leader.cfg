SPECIFICATION Spec
CONSTANTS
  a = a
  b = b
  x = x
  d1 = d1
  d2 = d2
  Node = {a, b}
  MainNode = {a, b}
  NumberOfComputors = 4
  QuorumSize = 3
  Byzantine = {2}
  Host <- MCHost
  Data = {d1, d2}
  BadTimelock = {d2}
  None = None
  Empty = Empty
  Invalidated = Invalidated
  Unknown = Unknown
  InitialTick = 1
  MaxTick = 3
  Offset = 3
  RequestProcessors = 1
  Forcing = {}
  Resending = {b}
  ByzantineVotes = {}
  ByzantineData <- TwoData
INVARIANTS ForeignDataNotExecuted TransactionsKnown VotesFollowState
PROPERTY ExecutedDataFixed
CHECK_DEADLOCK FALSE

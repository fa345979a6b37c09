SPECIFICATION Spec
CONSTANTS
  a = a
  b = b
  x = x
  d1 = d1
  d2 = d2
  Node = {a, b}
  MainNode = {a, b}
  NumberOfComputors = 4
  QuorumSize = 3
  Byzantine = {3}
  Host <- MCHost
  Data = {d1}
  BadTimelock = {}
  None = None
  Empty = Empty
  Invalidated = Invalidated
  Unknown = Unknown
  InitialTick = 0
  MaxTick = 3
  Offset = 1
  RequestProcessors = 1
  Forcing = {b}
  Resending = {}
  ByzantineVotes <- SplitVotes
  ByzantineData = {}
INVARIANTS FinalBacked VotedDataExecuted Agreement
CHECK_DEADLOCK FALSE

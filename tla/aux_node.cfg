SPECIFICATION Spec
CONSTANTS
  a = a
  b = b
  x = x
  d1 = d1
  d2 = d2
  Node = {a, x}
  MainNode = {a}
  NumberOfComputors = 2
  QuorumSize = 2
  Byzantine = {0}
  Host <- OneHost
  Data = {d1}
  BadTimelock = {}
  None = None
  Empty = Empty
  Invalidated = Invalidated
  Unknown = Unknown
  InitialTick = 0
  MaxTick = 4
  Offset = 4
  RequestProcessors = 1
  Forcing = {}
  Resending = {}
  ByzantineVotes <- MisleadingVotes
  ByzantineData <- LeaderData
INVARIANTS IInv HaltsOnlyMisled
CHECK_DEADLOCK FALSE

SPECIFICATION FairSpec
CONSTANTS
  a = a
  b = b
  x = x
  d1 = d1
  d2 = d2
  Node = {a, b}
  MainNode = {a, b}
  NumberOfComputors = 3
  QuorumSize = 2
  Byzantine = {}
  Host <- Host3
  Data = {d1}
  BadTimelock = {}
  None = None
  Empty = Empty
  Invalidated = Invalidated
  Unknown = Unknown
  InitialTick = 0
  MaxTick = 3
  Offset = 1
  RequestProcessors = 1
  Forcing = {}
  Resending = {}
  ByzantineVotes = {}
  ByzantineData = {}
INVARIANTS TargetAgreement HonestVotesUnique
PROPERTIES TargetFixed Progress
CHECK_DEADLOCK FALSE

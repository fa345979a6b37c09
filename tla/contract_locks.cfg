SPECIFICATION FairSpec
CONSTANTS
  ContractCount = 2
  RequestProcessor = {r1, r2}
  LocalsStacks = 3
  MaxDepth = 4
  Watched = {}
INVARIANTS IInv MutualExclusion StateStaysLocked NoCircularWait
PROPERTY WriterServed
CHECK_DEADLOCK FALSE

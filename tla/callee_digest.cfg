SPECIFICATION Spec
CONSTANTS
  ContractCount = 2
  RequestProcessor = {r1}
  LocalsStacks = 3
  MaxDepth = 3
  Watched = {1}
INVARIANT ChangesFlagged
CHECK_DEADLOCK FALSE

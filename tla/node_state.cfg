SPECIFICATION Spec
CONSTANTS
  none = none
  v1 = v1
  Pov = {"x", "z"}
  Value = {v1}
  Priority = {1, 2}
  NoValue = none
  Capacity = 4
  RebuildPopulation = 2
  MaxMarks = 1
  PovHome <- MCPovHome
  MapKey = {"a", "b", "c", "d"}
  MapValue = {1, 2}
  NoKey = none
  MapCapacity = 4
  KeyHome <- MCKeyHome
  Entity = {"a", "b", "c", "k"}
  NoEntity = none
  SpectrumCapacity = 4
  EntityCategoryCount = 4
  EntityHome <- MCEntityHome
  Genesis <- MCGenesis
  IpoContract = "k"
  ShareCount = 2
  MaxPrice = 2
  Amounts = {1}
  PoolTx = {"p", "q", "r", "s", "t"}
  TxTick <- MCTxTick
  TxPriority = {0, 1, 2}
  PoolTicks = 3
  MaxTxsPerTick = 2
  MaxPoolTick = 3
  Holder = {"zero", "a", "b"}
  ZeroKey = "zero"
  AssetName = {"gold", "SHARE"}
  ContractName = "SHARE"
  ManagingContract = {1, 2}
  Qx = 1
  AssetsCapacity = 8
  HolderHome <- MCHolderHome
  MaxShares = 2
  ContractShares = 2
  FirstComputors <- MCFirstComputors
  AlwaysKept = 2
  Solution <- MCSolution
  OwnComputor = {"c2"}
  MaxMiners = 5
  MaxOwnSolutions = 2
  Internal = 2
  External = 2
  PublicationOffset = 1
  SeedMargin = 1
  LastMiningTick = 5
  NumberOfComputors = 4
  Quorum = 3
  FaultyLeader = {3}
  FirstVoteTick = 8
  LastVoteTick = 17
  LastShareTick = 16
  MaxShareCount = 3
  ShareLimit = 2
  MinedComputor = {1}
  LastFeeTick = 17
  SlowComputor = {1}
  FirstReserve = 5
  IssuanceRate = 101
  MaxSupply = 205
  FirstSupply = {100, 105}
  Scaling = 10
  ScoreSample <- MCScoreSample
  DonationSample <- MCDonationSample
INVARIANTS TablesConsistent EpochAccounted
PROPERTIES ImplementsQueues ImplementsMap ImplementsLedger ImplementsPool ImplementsRegister
CHECK_DEADLOCK FALSE

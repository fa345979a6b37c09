SPECIFICATION Spec
CONSTANTS
  Account = {"a", "b"}
  Computors = 2
  MaxFunds = 4
  QxAsset = {"gold"}
  QxPrice = {1, 2}
  QxShares = {1}
  IssuanceFee = 1
  TransferFee = 1
  TradeFee <- MCTradeFee
  QxOrders = 2
  MaxPossessed = 2
  RoundEpochs = 2
  FirstEpoch = 2
  LastEpoch = 5
  MaxLocks = 3
  LockAmounts = {1, 2}
  MinLock = 1
  MaxLock = 2
  MaxBonus = 2
  RewardPercent <- MCRewardPercent
  BurnPercent <- MCBurnPercent
  Vault = {1}
  VaultAmounts = {1}
  VaultAsset = {"gold"}
  AssetTypes = 1
  MaxCoOwned = 1
  VaultFees <- MCVaultFees
  FirstFees <- MCFirstFees
  RevokeFee = 1
  VoteFee = 1
  VaultShares <- MCVaultShares
  VaultQuorum = 1
  MaxManaged = 1
  Boards <- MCBoards
  FirstPollEpoch = 1
  LastPollEpoch = 4
  LastTick = 5
  Holdings <- MCHoldings
  HolderMotions <- MCHolderMotions
  Ballots <- MCBallots
  QuorumMotions <- MCQuorumMotions
  MaxDonation = 2
  DonationSlots = 3
  GqSlots = {0}
  FundMotions <- MCFundMotions
  FundPlans <- MCFundPlans
  ProposalFee = 1
  MaxPlanEpochs = 3
  SubscriptionSlots = 1
  SwapAsset = {"silver"}
  SwapIssuer <- MCSwapIssuer
  IssuedShares = 4
  SwapIssuanceFee = 1
  SwapTransferFee = 1
  PoolFee = 1
  MaxPools = 1
  MaxLiquidityEntries = 3
  MinLiquidity = 1
  SwapFeeBase = 10
  SwapFeeRate = 3
  SwapFeeShare <- MCSwapFeeShare
  SwapRewards = {1, 4, 6}
  SwapAmounts = {1, 2}
  SwapLimits = {0, 2}
  BetSlots = 2
  MaxBets = 3
  BetDates <- MCBetDates
  BetOffers <- MCBetOffers
  Bettor = {"a"}
  BetWants = {2}
  BetFeeRate = 1
  HolderPart = 1000
  OperatorPart = 1000
  BurnPart = 1000
  BondLife = 1
  BondNames = 2
  LastBondEpoch = 2
  BondPrice = 2
  MinBonds = 2
  BondLimit = 2
  BondQueue = 2
  BondStakes = {1, 2}
  BondAmounts = {1}
  OrderPrices = {1, 2}
  QearnYields = {1}
  StakeFee <- MCStakeFee
  BondTradeFee <- MCBondTradeFee
  BondTransferFee = 1
  BondOrders = 1
  Friends = {"a"}
  Founders = {"b"}
  MaxRaffleMembers = 2
  MaxRaffleProposals = 1
  RegisterAmount = 2
  LogoutFee = 1
  ShareFee = 0
  RaffleParts <- MCRaffleParts
  DefaultEntry = 2
  EntryAmounts = {3}
  TokenEntries = {5}
  MaxTokenEntries = 2
  MaxQxmr = 1
  LastRaffleEpoch = 2
  TierStake <- MCTierStake
  TierWeight <- MCTierWeight
  TierFee <- MCTierFee
  TierWishes = {3}
  TierSteps = {4}
  ProjectFee = 100
  TokenFee = 1000
  ProjectDates <- MCProjectDates
  SalePlans <- MCSalePlans
  Investments = {30}
  MaxProjects = 1
  MaxProjectsPerUser = 2
  LastDate = 8
  MaxLaunchRevenue = 6
  MaxTickets = 2
  TicketPrice = 2
  NewPrices = {3}
  TicketRewards = {3, 4}
  FirstSchedule = {1}
  Schedules = {{2}}
  LotteryParts <- MCLotteryParts
  LastDay = 7
  DrawPrice = 1
  MaxDrawTickets = 3
  MaxRooms = 2
  MinDuel = 2
  DuelScale = 10
  FirstDuelFees <- MCFirstDuelFees
  DuelFees <- MCDuelFees
  FirstRoomHours = 1
  RoomHours = {2}
  DuelOffers <- MCDuelOffers
  DuelDeposits = {2}
  PollSlots = 1
  PollVoters = 2
  PollsPerEpoch = 1
  FirstUtilFees <- MCFirstUtilFees
  UtilFees <- MCUtilFees
  PollMinimums = {1, 2}
  MaxWealth = 2
  Gifts = {2}
  ShareholdersOf <- MCHoldersOf
  LastPoll = 2
INVARIANTS MoneyCovered RecordsAgree SharesDeliverable
PROPERTIES DoneesKept PoolsNotDrained
CHECK_DEADLOCK FALSE

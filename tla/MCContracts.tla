------------------------------- MODULE MCContracts -------------------------------
(***************************************************************************)
(* The contracts, each on a small instance.  They do not call each other:  *)
(* a behaviour is one of one contract, chosen at the start, and the others *)
(* keep their initial state.                                               *)
(***************************************************************************)
EXTENDS Qx, Qearn, MsVault, ProposalContracts, Qswap, Quottery,
        QBond, QRaffle, Nostromo, Lotteries, QUtil, TLC

VARIABLE contract

\* Constants that are operators or functions.
MCTradeFee(value) == (value * 3) \div 1000 + 1
MCRewardPercent(passed) == IF passed = 0 THEN 0 ELSE 50
MCBurnPercent(passed) == IF passed = 0 THEN 0 ELSE 50
MCFirstFees == [register |-> 1, release |-> 0, reset |-> 0, holding |-> 1, deposit |-> 0]
MCVaultFees == {MCFirstFees, [register |-> 0, release |-> 1, reset |-> 1, holding |-> 1, deposit |-> 1]}
MCVaultShares == ("a" :> 1) @@ ("b" :> 0)

MCSwapIssuer == [a \in SwapAsset |-> "a"]
MCSwapFeeShare == [shareholders |-> 40, invest |-> 20, qx |-> 20, burn |-> 10]

MCBetDates ==
  <<[year |-> 27, month |-> 12, day |-> 31, hour |-> 20], [year |-> 28, month |-> 2, day |-> 29, hour |-> 1],
    [year |-> 28, month |-> 3, day |-> 1, hour |-> 3], [year |-> 29, month |-> 3, day |-> 1, hour |-> 0]>>
MCBetOffers ==
  {[closes |-> 2, ends |-> 2, options |-> 2, places |-> 1, amount |-> 10, oracleFees |-> ("a" :> 500) @@ ("b" :> 1000)]}
MCBondTradeFee(value) == value \div 2
MCStakeFee(value) == 1
MCRaffleParts == [burn |-> 10, charity |-> 20, holders |-> 50, registers |-> 10, fee |-> 10]

MCTierStake == <<20, 100, 200, 800, 3200>>
MCTierWeight == <<55, 300, 750, 3050, 13750>>
MCTierFee == <<5, 4, 3, 2, 1>>
MCProjectDates == {<<0, 1>>}
MCSalePlans ==
  {[required |-> 40, threshold |-> 50, price |-> 20, sold |-> 3, tge |-> 40, steps |-> 2,
    phases |-> <<<<2, 3>>, <<3, 4>>, <<4, 5>>>>, listing |-> 5, cliff |-> 6, vesting |-> 8]}

MCLotteryParts == [team |-> 10, holders |-> 20, winner |-> 68, burn |-> 2]
MCFirstDuelFees == [dev |-> 1, burn |-> 3, holders |-> 5]
MCDuelFees == {[dev |-> 2, burn |-> 0, holders |-> 5]}
MCDuelOffers == {[stake |-> 2, raise |-> 2, most |-> 3], [stake |-> 2, raise |-> 0, most |-> 0]}

MCFirstUtilFees == [send |-> 1, create |-> 1, vote |-> 1, share |-> 1]
MCUtilFees == {MCFirstUtilFees, [send |-> 0, create |-> 2, vote |-> 1, share |-> 0]}
MCHoldersOf == <<1, 2>>

MCBoards == {<<"a", "b">>, <<"b", "c">>}
MCHoldings == {<<"a", "b">>, <<"a", "a">>}
MCHolderMotions ==
  {[class |-> "variable", options |-> 0, min |-> -3, max |-> 3], [class |-> "general", options |-> 2]}
MCBallots == {-100, -2, 1, 3}
MCQuorumMotions ==
  {[class |-> "transfer", options |-> 3, dest |-> "fund", amounts |-> <<0, 1>>],
   [class |-> "inEpoch", options |-> 2, dest |-> "fund", amounts |-> <<1>>, delay |-> 3],
   [class |-> "inEpoch", options |-> 2, dest |-> "watch", amounts |-> <<1>>, delay |-> 1]}
MCFundMotions == {[class |-> "transfer", options |-> 2, dest |-> d, amount |-> 1] : d \in {"x"}}
MCFundPlans ==
  {[weeks |-> 1, periods |-> 2, amount |-> 1, delay |-> 0],
   [weeks |-> 2, periods |-> 1, amount |-> 1, delay |-> 1],
   [weeks |-> 1, periods |-> 3, amount |-> 0, delay |-> 0]}

\* The state of the contracts, and the bounds on balance, epoch and tick.
qxOwn   == <<assetOrders, entityOrders, possessed, qxEarned, qxDistributed>>
pollOwn == <<pollVars, donation, fundVars>>
marketOwn == <<qxOwn, earnVars, vaultVars, swapOwn>>
gameOwn   == <<betOwn, bondOwn, raffleOwn>>
shopOwn   == <<launchOwn, lotteryOwn, drawOwn, duelOwn, utilOwn>>

Runs(name, Next, others, bound) ==
  contract = name /\ Next /\ UNCHANGED <<others, contract>> /\ funds' <= bound

Trades(name, Next, others, bound) == Runs(name, Next, <<pollOwn, gameOwn, shopOwn, others>>, bound)
Plays(name, Next, others, bound)  == Runs(name, Next, <<pollOwn, marketOwn, shopOwn, others>>, bound)

Sells(name, Next, others, bound)  == Runs(name, Next, <<pollOwn, marketOwn, gameOwn, others>>, bound)

Polls(name, Next, others, bound, epochs, ticks) ==
  /\ Runs(name, Next, <<marketOwn, gameOwn, shopOwn, others>>, bound)
  /\ pollEpoch' <= epochs /\ pollTick' <= ticks

Init ==
  /\ QxInit /\ EarnInit /\ VaultInit /\ DonationInit /\ FundTablesInit /\ SwapInit
  /\ BetInit /\ BondInit /\ RaffleInit /\ LaunchInit /\ LotteryInit /\ DrawInit /\ DuelInit /\ UtilInit
  /\ \/ /\ contract \in {"Qx", "Qearn", "MsVault", "Qswap", "Quottery", "QBond", "QRaffle",
                         "Nostromo", "RandomLottery", "Qdraw", "QDuel", "QUtil"}
        /\ PollInit({0}, {<<"a", "b">>})
     \/ contract = "Shareholders" /\ HolderInit
     \/ contract = "GeneralQuorumProposal" /\ GqInit
     \/ contract = "ComputorControlledFund" /\ FundInit

Next ==
  \/ Trades("Qx", QxNext, <<earnVars, vaultVars, swapOwn>>, 4)
  \/ Trades("Qearn", EarnNext, <<qxOwn, vaultVars, swapOwn>>, 4)
  \/ Trades("MsVault", VaultNext, <<qxOwn, earnVars, swapOwn>>, 2)
  \/ Trades("Qswap", SwapNext, <<qxOwn, earnVars, vaultVars>>, 9)
  \/ Plays("Quottery", BetNext, <<bondOwn, raffleOwn>>, 100000)
  \/ Plays("QBond", BondNext, <<betOwn, raffleOwn>>, 2)
  \/ Plays("QRaffle", RaffleNext, <<betOwn, bondOwn>>, 5)
  \/ Sells("Nostromo", LaunchNext, <<lotteryOwn, drawOwn, duelOwn, utilOwn>>, 100000)
  \/ Sells("RandomLottery", LotteryNext, <<launchOwn, drawOwn, duelOwn, utilOwn>>, 6)
  \/ Sells("Qdraw", DrawNext, <<launchOwn, lotteryOwn, duelOwn, utilOwn>>, 6)
  \/ Sells("QDuel", DuelNext, <<launchOwn, lotteryOwn, drawOwn, utilOwn>>, 6)
  \/ Sells("QUtil", UtilNext, <<launchOwn, lotteryOwn, drawOwn, duelOwn>>, 6)
  \/ Polls("Shareholders", HolderNext, <<funds, donation, fundVars>>, 0, 2, 4)
  \/ Polls("GeneralQuorumProposal", GqNext, <<funds, fundVars>>, 0, 3, 5)
  \/ Polls("ComputorControlledFund", FundNext, donation, 1, 4, 4)

Spec == Init /\ [][Next]_<<funds, marketOwn, gameOwn, shopOwn, pollOwn, contract>>

(***************************************************************************)
(* Properties                                                              *)
(***************************************************************************)

\* What a contract owes its users is covered by its balance: the bids and dividends of Qx,
\* the locked amounts and bonuses of Qearn, the pools and the fees of Qswap, the stakes of
\* Quottery's bets, the bids and queued stakes of QBond, what members and entrants of QRaffle
\* paid, the tiers and investments of Nostromo, the tickets and pots of the lotteries, the stakes and
\* deposits of duels; and QUtil keeps nothing.
MoneyCovered ==
  /\ contract = "Qx" => QxSolvent
  /\ contract = "Qearn" => EarnSolvent
  /\ contract = "Qswap" => SwapSolvent
  /\ contract = "Quottery" => BetsSolvent
  /\ contract = "QBond" => BondsSolvent
  /\ contract = "QRaffle" => RaffleSolvent
  /\ contract = "Nostromo" => LaunchSolvent
  /\ contract = "RandomLottery" => TicketsCovered
  /\ contract = "Qdraw" => PotCovered
  /\ contract = "QDuel" => DuelsCovered
  /\ contract = "QUtil" => NothingKept

\* What a contract records in two places agrees after every sequence of calls: the two
\* collections of Qx, the lockers and the rounds of Qearn, the requests of a vault and its
\* owners, the liquidity of a pool and its providers, the slots of bets, the bonds and the
\* stakes of their epoch, the counters of QRaffle, the projects and weights of Nostromo, the rooms and
\* users of duels, the voters of polls and their number, the votes on proposals and what was proposed,
\* the donations and the subscriptions that proposals lead to and the epochs.
RecordsAgree ==
  /\ contract = "Qx" => BooksAgree
  /\ contract = "Qearn" => LockersInRange
  /\ contract = "MsVault" => RequestsPending
  /\ contract = "Qswap" => SwapInv
  /\ contract = "Quottery" => BetSlotsAgree /\ DurationsRight
  /\ contract = "QBond" => BondsBacked /\ QueueHasRoom
  /\ contract = "QRaffle" => RaffleCountsAgree
  /\ contract = "Nostromo" => LaunchRecordsAgree
  /\ contract = "QDuel" => RoomsMatchUsers
  /\ contract = "QUtil" => VotersTogether
  /\ VotesAsMeant /\ MeansAgree /\ DonationsSorted
  /\ PlansMatch /\ SubscriptionsOnSchedule

\* Shares that are promised can be delivered: the asks of Qx, the assets of the vaults
\* and of the pools, the bonds on offer, what is entered in token raffles, the tokens of
\* a launch.
SharesDeliverable ==
  /\ contract = "Qx" => AsksDeliverable
  /\ contract = "MsVault" => VaultSharesCovered
  /\ contract = "Qswap" => PoolSharesHeld
  /\ contract = "QBond" => BondOffersHeld
  /\ contract = "QRaffle" => RaffleSharesHeld
  /\ contract = "Nostromo" => TokensSuffice
===============================================================================

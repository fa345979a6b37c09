---------------------------------- MODULE QBond ----------------------------------
(***************************************************************************)
(* The contract QBond: it collects stakes of an epoch, locks them in Qearn *)
(* and gives out bonds for them, which are traded and paid back when Qearn  *)
(* returns the stakes with their yield.  A bond of an epoch is a share of  *)
(* an asset; there are as many assets as epochs in which bonds are alive.  *)
(***************************************************************************)
EXTENDS Qpi

CONSTANTS
  BondLife,        \* epochs that Qearn locks, 52
  BondNames,       \* QBOND_FULL_CYCLE_EPOCHS_AMOUNT
  LastBondEpoch,   \* bound
  BondPrice,       \* QBOND_MBOND_PRICE
  MinBonds,        \* QBOND_MIN_MBONDS_TO_STAKE
  BondLimit,       \* QBOND_STAKE_LIMIT_PER_EPOCH
  BondQueue,       \* QBOND_MAX_QUEUE_SIZE
  BondStakes, BondAmounts, OrderPrices, QearnYields,   \* inputs
  StakeFee(_), BondTradeFee(_), BondTransferFee,
  Friends,         \* those the administrator frees of commission
  BondOrders       \* bound: orders of one kind for an epoch

ASSUME QBondAssumption ==
  /\ {BondLife, BondNames, LastBondEpoch, BondPrice, MinBonds, BondLimit, BondQueue} \subseteq Nat \ {0}
  /\ BondStakes \cup BondAmounts \cup OrderPrices \subseteq Nat \ {0}

VARIABLES
  bondEpoch, bondRunning,  \* qpi.epoch(), and whether it is between BEGIN_EPOCH and END_EPOCH
  staked,       \* _epochMbondInfoMap: epoch -> totalStaked
  stakeQueue,   \* _stakeQueue
  bonds,        \* asset -> account -> shares; the others are the contract's
  bondAsks, bondBids,   \* epoch -> queue of [owner, n, priority]
  commissionFree,       \* _commissionFreeAddresses
  bondIncome,           \* _qearnIncomeAmount
  bondEarned            \* _totalEarnedAmount - _distributedAmount

bondOwn == <<bondEpoch, bondRunning, staked, stakeQueue, bonds, bondAsks, bondBids,
             commissionFree, bondIncome, bondEarned>>

BondEpochs == 0 .. LastBondEpoch
BondName(e) == e % BondNames     \* _cyclicMbondCounter
Opened == 0 .. bondEpoch         \* the epochs with an entry
Alive == {e \in Opened : e + BondLife >= bondEpoch}   \* those whose bonds are not paid back
Holding(e, who) == bonds[BondName(e)][who]
OnOffer(asks, e, who) == SumOfSeq(SelectSeq(asks[e], LAMBDA o : o.owner = who), LAMBDA o : o.n)
Queued == SumOfSeq(stakeQueue, LAMBDA q : q.n)

(***************************************************************************)
(* Stakes                                                                  *)
(***************************************************************************)

\* The queue is staked as soon as it holds the minimum that Qearn takes.
StakeAll(queue) ==
  /\ staked' = [staked EXCEPT ![bondEpoch] = @ + SumOfSeq(queue, LAMBDA q : q.n)]
  /\ bonds' = [bonds EXCEPT ![BondName(bondEpoch)] =
                 [who \in Account |-> @[who] + SumOfSeq(SelectSeq(queue, LAMBDA q : q.staker = who), LAMBDA q : q.n)]]
  /\ stakeQueue' = <<>>

\* What does not fit into the limit of the epoch is returned, the fee on it is not.
Stake(who, n) ==
  LET fee == StakeFee(n * BondPrice)
      fits == Least(n, BondLimit - staked[bondEpoch] - Queued)
      queue == Append(stakeQueue, [staker |-> who, n |-> fits])
      in == funds + n * BondPrice + fee
      kept == PaidInTurn(in, <<IF who \in commissionFree THEN fee ELSE 0, (n - fits) * BondPrice>>)
  IN /\ bondRunning /\ staked[bondEpoch] + MinBonds <= BondLimit
     /\ bondEarned' = IF who \in commissionFree THEN bondEarned ELSE bondEarned + fee
     /\ IF Queued + n >= MinBonds
        THEN /\ StakeAll(queue)
             /\ funds' = Paid(kept, SumOfSeq(queue, LAMBDA q : q.n) * BondPrice)
        ELSE /\ stakeQueue' = queue /\ funds' = kept
             /\ UNCHANGED <<staked, bonds>>
     /\ UNCHANGED <<bondEpoch, bondRunning, bondAsks, bondBids, commissionFree, bondIncome>>

(***************************************************************************)
(* Trades.  A book is the orders of an epoch, its holders, and the money.  *)
(***************************************************************************)

BondBook(e) == [asks |-> bondAsks[e], bids |-> bondBids[e], held |-> bonds[BondName(e)],
                funds |-> funds, earned |-> bondEarned]

\* A seller who is free of commission gets what the others pay as a fee.
BondTraded(b, seller, buyer, price, n) ==
  LET fee == IF seller \in commissionFree THEN 0 ELSE BondTradeFee(n * price) IN
  [b EXCEPT !.held = [[@ EXCEPT ![seller] = @ - n] EXCEPT ![buyer] = @ + n],
            !.funds = Paid(@, n * price - fee), !.earned = @ + fee]

\* At most n bonds are taken from an order.
Cut(q, i, n) == IF q[i].n > n THEN [q EXCEPT ![i].n = @ - n] ELSE Removed(q, i)

\* n bonds that seller offers at p meet the bids, the best first.
AskMet(b0, seller, p, n0) ==
  LET met[k \in 0 .. BondOrders] ==
        IF k = 0 THEN [book |-> b0, left |-> n0]
        ELSE LET r == met[k - 1] IN
             IF r.left = 0 \/ r.book.bids = <<>> THEN r
             ELSE LET best == r.book.bids[1] n == Least(r.left, best.n) IN
                  IF p > best.priority THEN r
                  ELSE [book |-> [BondTraded(r.book, seller, best.owner, best.priority, n)
                                    EXCEPT !.bids = Cut(@, 1, n)],
                        left |-> r.left - n]
  IN met[BondOrders]

\* n bonds that buyer bids p for meet the asks; what an ask is cheaper goes back.
BidMet(b0, buyer, p, n0) ==
  LET met[k \in 0 .. BondOrders] ==
        IF k = 0 THEN [book |-> b0, left |-> n0]
        ELSE LET r == met[k - 1] IN
             IF r.left = 0 \/ r.book.asks = <<>> THEN r
             ELSE LET best == r.book.asks[1] n == Least(r.left, best.n) price == -best.priority IN
                  IF p < price THEN r
                  ELSE [book |-> [BondTraded(r.book, best.owner, buyer, price, n)
                                    EXCEPT !.asks = Cut(@, 1, n), !.funds = Paid(@, n * (p - price))],
                        left |-> r.left - n]
  IN met[BondOrders]

OwnOrders(q, who, priority) == {i \in DOMAIN q : q[i].owner = who /\ q[i].priority = priority}

\* What is left joins the owner's order of that priority, or becomes an order.
OrderAdded(q, who, priority, n) ==
  LET own == OwnOrders(q, who, priority) IN
  IF n = 0 THEN q
  ELSE IF own # {} THEN [q EXCEPT ![Min(own)].n = @ + n]
  ELSE Inserted(q, [owner |-> who, n |-> n, priority |-> priority])

Booked(e, b) ==
  /\ bondAsks' = [bondAsks EXCEPT ![e] = b.asks] /\ bondBids' = [bondBids EXCEPT ![e] = b.bids]
  /\ bonds' = [bonds EXCEPT ![BondName(e)] = b.held]
  /\ funds' = b.funds /\ bondEarned' = b.earned
  /\ Len(b.asks) <= BondOrders /\ Len(b.bids) <= BondOrders
  /\ UNCHANGED <<bondEpoch, bondRunning, staked, stakeQueue, commissionFree, bondIncome>>


Unreserved(e, who) == Holding(e, who) - OnOffer(bondAsks, e, who)

AddBondAsk(who, e, p, n) ==
  LET r == AskMet(BondBook(e), who, p, n) IN
  /\ bondRunning /\ Unreserved(e, who) >= n
  /\ Booked(e, [r.book EXCEPT !.asks = OrderAdded(@, who, -p, r.left)])

AddBondBid(who, e, p, n) ==
  LET r == BidMet([BondBook(e) EXCEPT !.funds = @ + n * p], who, p, n) IN
  /\ bondRunning
  /\ Booked(e, [r.book EXCEPT !.bids = OrderAdded(@, who, p, r.left)])

RemoveBondAsk(who, e, p, n) ==
  /\ bondRunning
  /\ \E i \in OwnOrders(bondAsks[e], who, -p) :
       Booked(e, [BondBook(e) EXCEPT !.asks = Cut(@, i, n)])

RemoveBondBid(who, e, p, n) ==
  /\ bondRunning
  /\ \E i \in OwnOrders(bondBids[e], who, p) :
       Booked(e, [BondBook(e) EXCEPT !.bids = Cut(@, i, n),
                                     !.funds = Paid(@, Least(n, bondBids[e][i].n) * p)])

TransferBonds(who, e, to, n) ==
  LET fee == IF who \in commissionFree THEN 0 ELSE BondTransferFee IN
  /\ bondRunning /\ Unreserved(e, who) >= n
  /\ Booked(e, [BondBook(e) EXCEPT !.held = [[@ EXCEPT ![who] = @ - n] EXCEPT ![to] = @ + n],
                                   !.funds = @ + fee, !.earned = @ + fee])

\* By the administrator.
UpdateCFA(who) ==
  /\ bondRunning
  /\ \/ commissionFree' = commissionFree \cup {who}
     \/ commissionFree' = commissionFree \ {who}
  /\ UNCHANGED <<funds, bondEpoch, bondRunning, staked, stakeQueue, bonds, bondAsks, bondBids,
                 bondIncome, bondEarned>>

(***************************************************************************)
(* Epochs                                                                  *)
(***************************************************************************)

\* Qearn's END_EPOCH: it returns what was staked BondLife epochs ago, with a yield, and
\* POST_INCOMING_TRANSFER records it.
QearnPays(yield) ==
  LET e == bondEpoch - BondLife IN
  IF e \in Opened /\ staked[e] > 0 THEN staked[e] * BondPrice + yield ELSE 0

\* END_EPOCH: the fees are given away and stakes that are still queued are returned.
BondEndEpoch(yield) ==
  /\ bondRunning /\ bondRunning' = FALSE
  /\ funds' = PaidInTurn(funds, <<bondEarned>> \o [i \in DOMAIN stakeQueue |-> stakeQueue[i].n * BondPrice])
              + QearnPays(yield)
  /\ bondIncome' = IF QearnPays(yield) > 0 THEN QearnPays(yield) ELSE bondIncome
  /\ bondEarned' = 0 /\ stakeQueue' = <<>>
  /\ UNCHANGED <<bondEpoch, staked, bonds, bondAsks, bondBids, commissionFree>>

\* The bonds of epoch e are paid back, their bids returned and their asks dropped.
PaidBack(e) ==
  LET holders == SetToSeq(Account)
      each == BondPrice + (bondIncome - staked[e] * BondPrice) \div staked[e]
  IN /\ funds' = PaidInTurn(funds, [i \in DOMAIN holders |-> each * Holding(e, holders[i])]
                                   \o [i \in DOMAIN bondBids[e] |-> bondBids[e][i].n * bondBids[e][i].priority])
     /\ bonds' = [bonds EXCEPT ![BondName(e)] = [who \in Account |-> 0]]
     /\ bondAsks' = [bondAsks EXCEPT ![e] = <<>>] /\ bondBids' = [bondBids EXCEPT ![e] = <<>>]
     /\ bondIncome' = 0

BondBeginEpoch ==
  LET e == bondEpoch - BondLife IN   \* 53 epochs before the one that begins
  /\ ~bondRunning /\ bondRunning' = TRUE
  /\ bondEpoch < LastBondEpoch /\ bondEpoch' = bondEpoch + 1
  /\ IF bondIncome > 0 /\ e \in Opened THEN PaidBack(e)
     ELSE UNCHANGED <<funds, bonds, bondAsks, bondBids, bondIncome>>
  /\ stakeQueue' = <<>>
  /\ UNCHANGED <<staked, commissionFree, bondEarned>>

BondInit ==
  /\ bondEpoch = 0 /\ bondRunning = TRUE
  /\ staked = [e \in BondEpochs |-> 0] /\ stakeQueue = <<>>
  /\ bonds = [n \in 0 .. BondNames - 1 |-> [who \in Account |-> 0]]
  /\ bondAsks = [e \in BondEpochs |-> <<>>] /\ bondBids = [e \in BondEpochs |-> <<>>]
  /\ commissionFree = {} /\ bondIncome = 0 /\ bondEarned = 0

\* The calls name an epoch whose bonds are alive.
BondNext ==
  \/ \E who \in Account :
       \/ \E n \in BondStakes : Stake(who, n)
       \/ \E e \in Alive, n \in BondAmounts :
            \/ \E to \in Account : TransferBonds(who, e, to, n)
            \/ \E p \in OrderPrices : \/ AddBondAsk(who, e, p, n) \/ AddBondBid(who, e, p, n)
                                      \/ RemoveBondAsk(who, e, p, n) \/ RemoveBondBid(who, e, p, n)
  \/ \E who \in Friends : UpdateCFA(who)
  \/ \E yield \in QearnYields : BondEndEpoch(yield)
  \/ BondBeginEpoch

(***************************************************************************)
(* Properties                                                              *)
(***************************************************************************)

\* Bids, queued stakes, fees and what Qearn has returned are on the contract's balance.
BondsSolvent ==
  funds >= Queued * BondPrice + bondEarned + bondIncome
           + SumOf(BondEpochs, LAMBDA e : SumOfSeq(bondBids[e], LAMBDA o : o.n * o.priority))

\* The bonds of an asset are those of the one epoch whose stakes are not yet paid back, and
\* as many as were staked: no asset is used again while its bonds are alive.
BondsBacked ==
  \A e \in Alive :
    SumOf(Account, LAMBDA who : Holding(e, who)) = staked[e]

\* The stakes that wait are fewer than Qearn's minimum, so the queue is never full.
QueueHasRoom ==
  /\ Len(stakeQueue) < BondQueue /\ Queued < MinBonds
  /\ \A i \in DOMAIN stakeQueue : stakeQueue[i].n > 0
  /\ staked[bondEpoch] + Queued <= BondLimit

\* Everyone holds the bonds they offer, and no ask meets a bid.
BondOffersHeld ==
  \A e \in Alive :
    /\ \A who \in Account : OnOffer(bondAsks, e, who) <= Holding(e, who)
    /\ bondAsks[e] # <<>> /\ bondBids[e] # <<>> => -bondAsks[e][1].priority > bondBids[e][1].priority
===============================================================================

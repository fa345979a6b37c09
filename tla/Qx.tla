----------------------------------- MODULE Qx -----------------------------------
(***************************************************************************)
(* The exchange for asset shares.  Every order is in two collections: in   *)
(* the queue of its asset, which is matched, and in the queue of its       *)
(* owner.  A bid is an order of priority +price, an ask one of priority    *)
(* -price.  A bid leaves its money with the contract; an ask leaves its    *)
(* shares with their owner, and the contract counts them as reserved.      *)
(***************************************************************************)
EXTENDS Qpi

CONSTANTS
  QxAsset,
  QxPrice, QxShares,   \* the prices and numbers of shares of orders
  IssuanceFee, TransferFee,
  TradeFee(_),         \* the fee of a trade of the given value
  MaxPossessed,        \* bound: the shares that are acquired of an asset
  QxOrders             \* the capacity of the collections

ASSUME QxAssumption ==
  /\ QxPrice \subseteq Nat \ {0} /\ QxShares \subseteq Nat \ {0}
  /\ IssuanceFee \in Nat /\ TransferFee \in Nat
  /\ MaxPossessed \in Nat /\ QxOrders \in Nat

VARIABLES
  assetOrders,   \* asset -> queue of [entity, shares, priority]
  entityOrders,  \* account -> queue of [asset, shares, priority]
  possessed,     \* asset -> account -> shares under the management of the contract
  qxEarned,      \* _earnedAmount
  qxDistributed  \* _distributedAmount

qxVars == <<funds, assetOrders, entityOrders, possessed, qxEarned, qxDistributed>>

Orders  == UNCHANGED <<assetOrders, entityOrders>>
Income  == UNCHANGED <<qxEarned, qxDistributed>>

\* _NumberOfReservedShares: the asks of an account.
Reserved(a, e) ==
  LET q == entityOrders[e]
  IN SumOf({n \in FromHead(q, 0) : q[n].asset = a}, LAMBDA n : q[n].shares)

Available(a, e) == possessed[a][e] - Reserved(a, e)

(***************************************************************************)
(* Matching.  A book is the state of one asset while an order is matched.  *)
(***************************************************************************)

Book(a) ==
  [queue |-> assetOrders[a], owners |-> entityOrders, shares |-> possessed[a],
   funds |-> funds, earned |-> qxEarned]

\* n shares leave the order at position i of the queue, and the same order of its owner.
TakenFrom(b, a, i, n) ==
  LET x == b.queue[i]
      own == b.owners[x.entity]
      j == Min({k \in FromHead(own, x.priority) : own[k].asset = a})
  IN IF x.shares <= n
     THEN [b EXCEPT !.queue = Removed(@, i), !.owners[x.entity] = Removed(@, j)]
     ELSE [b EXCEPT !.queue[i].shares = @ - n, !.owners[x.entity][j].shares = @ - n]

\* The seller is paid, less the fee, and the shares change hands.
Sold(b, seller, buyer, price, n) ==
  LET fee == TradeFee(price * n) IN
  [b EXCEPT !.earned = @ + fee, !.funds = Paid(@, price * n - fee),
            !.shares = [@ EXCEPT ![seller] = @ - n, ![buyer] = @ + n]]

\* The shares left of an ask at price p of e after it has met the bids.
MatchedAsk(a, e, p, n) ==
  LET step[k \in 0 .. QxOrders] ==
        IF k = 0 THEN [book |-> Book(a), left |-> n]
        ELSE LET r == step[k - 1] q == r.book.queue IN
             IF r.left = 0 \/ q = << >> THEN r
             ELSE IF q[1].priority < p THEN r
             ELSE LET m == Least(q[1].shares, r.left) IN
                  [book |-> Sold(TakenFrom(r.book, a, 1, m), e, q[1].entity, q[1].priority, m),
                   left |-> r.left - m]
  IN step[QxOrders]

\* The shares left of a bid at price p of e after it has met the asks; what they were
\* cheaper is given back.
MatchedBid(a, e, p, n) ==
  LET step[k \in 0 .. QxOrders] ==
        IF k = 0 THEN [book |-> [Book(a) EXCEPT !.funds = @ + p * n], left |-> n]
        ELSE LET r == step[k - 1] q == r.book.queue asks == FromHead(q, 0) IN
             IF r.left = 0 \/ asks = {} THEN r
             ELSE LET i == Min(asks) price == -q[i].priority m == Least(q[i].shares, r.left)
                      b == Sold(TakenFrom(r.book, a, i, m), q[i].entity, e, price, m)
                  IN IF price > p THEN r
                     ELSE [book |-> [b EXCEPT !.funds = Paid(@, (p - price) * m)],
                           left |-> r.left - m]
  IN step[QxOrders]

\* What is left becomes an order, unless the collections are full.
Rest(b, a, e, priority, n) ==
  LET full == SumOf(QxAsset, LAMBDA c : Len(IF c = a THEN b.queue ELSE assetOrders[c])) >= QxOrders
  IN IF n = 0 \/ full THEN b
     ELSE [b EXCEPT
             !.queue = Inserted(@, [entity |-> e, shares |-> n, priority |-> priority]),
             !.owners[e] = Inserted(@, [asset |-> a, shares |-> n, priority |-> priority])]

Settle(b, a) ==
  /\ assetOrders' = [assetOrders EXCEPT ![a] = b.queue]
  /\ entityOrders' = b.owners
  /\ possessed' = [possessed EXCEPT ![a] = b.shares]
  /\ funds' = b.funds
  /\ qxEarned' = b.earned
  /\ UNCHANGED qxDistributed

\* The order of e for a at exactly this priority.
OwnOrder(a, e, priority) ==
  {n \in DOMAIN entityOrders[e] :
     entityOrders[e][n].priority = priority /\ entityOrders[e][n].asset = a}

\* Where the order of e is in the queue of the asset: from the head of the priority on for
\* asks, from its tail back for bids.
AskIn(a, e, priority) ==
  Min({n \in FromHead(assetOrders[a], priority) : assetOrders[a][n].entity = e})
BidIn(a, e, priority) ==
  Max({n \in ToTail(assetOrders[a], priority) : assetOrders[a][n].entity = e})

Increase(a, e, i, j, n) ==
  /\ entityOrders' = [entityOrders EXCEPT ![e][i].shares = @ + n]
  /\ assetOrders' = [assetOrders EXCEPT ![a][j].shares = @ + n]

\* Mutant: the shares of the account are compared without those it already offers.
AddToAskOrderUnreserved ==
  \E a \in QxAsset, e \in Account, p \in QxPrice, n \in QxShares :
    /\ possessed[a][e] >= n
    /\ IF OwnOrder(a, e, -p) # {}
       THEN /\ Increase(a, e, Min(OwnOrder(a, e, -p)), AskIn(a, e, -p), n)
            /\ UNCHANGED <<possessed, funds>> /\ Income
       ELSE LET r == MatchedAsk(a, e, p, n) IN Settle(Rest(r.book, a, e, -p, r.left), a)

AddToAskOrder ==
  \E a \in QxAsset, e \in Account, p \in QxPrice, n \in QxShares :
    /\ Available(a, e) >= n
    /\ IF OwnOrder(a, e, -p) # {}
       THEN /\ Increase(a, e, Min(OwnOrder(a, e, -p)), AskIn(a, e, -p), n)
            /\ UNCHANGED <<possessed, funds>> /\ Income
       ELSE LET r == MatchedAsk(a, e, p, n) IN Settle(Rest(r.book, a, e, -p, r.left), a)

AddToBidOrder ==
  \E a \in QxAsset, e \in Account, p \in QxPrice, n \in QxShares :
    /\ IF OwnOrder(a, e, p) # {}
       THEN /\ Increase(a, e, Max(OwnOrder(a, e, p)), BidIn(a, e, p), n)
            /\ funds' = funds + p * n
            /\ UNCHANGED possessed /\ Income
       ELSE LET r == MatchedBid(a, e, p, n) IN Settle(Rest(r.book, a, e, p, r.left), a)
    /\ Bounded

\* n shares of the order of e at this priority, which is the i-th in the queue of the asset.
Withdraw(a, e, priority, i, n) ==
  LET j == CHOOSE k \in OwnOrder(a, e, priority) : TRUE
      fewer(q, k) == IF q[k].shares > n THEN [q EXCEPT ![k].shares = @ - n] ELSE Removed(q, k)
  IN
  /\ entityOrders[e][j].shares >= n
  /\ entityOrders' = [entityOrders EXCEPT ![e] = fewer(@, j)]
  /\ assetOrders' = [assetOrders EXCEPT ![a] = fewer(@, i)]
  /\ UNCHANGED possessed /\ Income

RemoveFromAskOrder ==
  \E a \in QxAsset, e \in Account, p \in QxPrice, n \in QxShares :
    /\ OwnOrder(a, e, -p) # {}
    /\ Withdraw(a, e, -p, AskIn(a, e, -p), n)
    /\ UNCHANGED funds

RemoveFromBidOrder ==
  \E a \in QxAsset, e \in Account, p \in QxPrice, n \in QxShares :
    /\ OwnOrder(a, e, p) # {}
    /\ Withdraw(a, e, p, BidIn(a, e, p), n)
    /\ funds' = Paid(funds, p * n)

(***************************************************************************)
(* Shares                                                                  *)
(***************************************************************************)

\* The fee is kept whether or not the call succeeds, what is paid beyond it goes back.
TakeFee(fee) ==
  /\ funds' = funds + fee
  /\ qxEarned' = qxEarned + fee
  /\ UNCHANGED qxDistributed
  /\ Orders
  /\ Bounded

\* qpi.issueAsset fails when the asset exists, whoever manages its shares.
QxIssueAsset ==
  \E a \in QxAsset, e \in Account, n \in QxShares :
    /\ TakeFee(IssuanceFee)
    /\ \/ UNCHANGED possessed
       \/ /\ \A x \in Account : possessed[a][x] = 0
          /\ possessed' = [possessed EXCEPT ![a][e] = n]

TransferShareOwnershipAndPossession ==
  \E a \in QxAsset, e, to \in Account, n \in QxShares :
    /\ TakeFee(TransferFee)
    /\ possessed' =
         IF e # to /\ Available(a, e) >= n
         THEN [possessed EXCEPT ![a] = [@ EXCEPT ![e] = @ - n, ![to] = @ + n]] ELSE possessed

\* The other contract may refuse.
TransferShareManagementRights ==
  \E a \in QxAsset, e \in Account, n \in QxShares :
    /\ Available(a, e) >= n
    /\ possessed' = [possessed EXCEPT ![a][e] = @ - n]
    /\ UNCHANGED funds /\ Orders /\ Income

\* Rights come from another contract, which pays the fee (PRE_ACQUIRE_SHARES) by a transfer
\* that POST_INCOMING_TRANSFER counts as earned.
AcquireShares ==
  \E a \in QxAsset, e \in Account, n \in QxShares :
    /\ TakeFee(TransferFee)
    /\ SumOf(Account, LAMBDA x : possessed[a][x]) + n <= MaxPossessed
    /\ possessed' = [possessed EXCEPT ![a][e] = @ + n]

\* POST_INCOMING_TRANSFER: a transaction is sent back, a transfer of a contract is earned,
\* a refund or a dividend is neither.
QxIncomingTransfer ==
  \/ /\ TakeFee(1)
     /\ UNCHANGED possessed
  \/ /\ funds' = funds + 1 /\ Bounded
     /\ UNCHANGED possessed /\ Orders /\ Income

QxEndTick ==
  LET perShare == (qxEarned - qxDistributed) \div Computors IN
  /\ perShare > 0 /\ CanPay(funds, perShare * Computors)
  /\ funds' = Distributed(funds, perShare)
  \* Both counters only grow; their difference is what matters.
  /\ qxEarned' = qxEarned - perShare * Computors
  /\ UNCHANGED <<qxDistributed, possessed>> /\ Orders

QxInit ==
  /\ funds = 0
  /\ assetOrders = [a \in QxAsset |-> << >>]
  /\ entityOrders = [e \in Account |-> << >>]
  /\ possessed = [a \in QxAsset |-> [e \in Account |-> 0]]
  /\ qxEarned = 0 /\ qxDistributed = 0

QxNext ==
  \/ AddToAskOrder \/ AddToBidOrder \/ RemoveFromAskOrder \/ RemoveFromBidOrder
  \/ QxIssueAsset \/ TransferShareOwnershipAndPossession \/ TransferShareManagementRights
  \/ AcquireShares \/ QxIncomingTransfer \/ QxEndTick

QxSpec == QxInit /\ [][QxNext]_qxVars

(***************************************************************************)
(* Properties                                                              *)
(***************************************************************************)

\* What the contract owes: the bids, and the dividends it has not paid.
QxOwed ==
  SumOf(QxAsset, LAMBDA a :
    SumOf({n \in DOMAIN assetOrders[a] : assetOrders[a][n].priority > 0},
          LAMBDA n : assetOrders[a][n].priority * assetOrders[a][n].shares))
  + (qxEarned - qxDistributed)

\* Every bid and every dividend can be paid.
QxSolvent == QxOwed <= funds

\* An ask can always be delivered: what an account offers of an asset it possesses, however
\* it was traded, transferred or handed to another contract meanwhile.
AsksDeliverable == \A a \in QxAsset, e \in Account : Available(a, e) >= 0

\* The two collections hold the same orders ("Impossible for the corresponding asset order
\* to not exist"), at most one of each account for an asset at a price, and no bid meets an
\* ask that it could have taken.
BooksAgree ==
  /\ \A a \in QxAsset, e \in Account :
       LET mine  == {n \in DOMAIN assetOrders[a] : assetOrders[a][n].entity = e}
           owned == {n \in DOMAIN entityOrders[e] : entityOrders[e][n].asset = a}
       IN /\ {<<assetOrders[a][n].priority, assetOrders[a][n].shares>> : n \in mine}
               = {<<entityOrders[e][n].priority, entityOrders[e][n].shares>> : n \in owned}
          /\ Cardinality({assetOrders[a][n].priority : n \in mine}) = Cardinality(mine)
          /\ Cardinality(owned) = Cardinality(mine)
  /\ \A a \in QxAsset : \A n, m \in DOMAIN assetOrders[a] :
       assetOrders[a][n].priority > 0 /\ assetOrders[a][m].priority < 0
         => assetOrders[a][n].priority < -assetOrders[a][m].priority
===============================================================================

-------------------------------- MODULE Spectrum --------------------------------
(***************************************************************************)
(* The spectrum, the table of all entities and their balances, under the   *)
(* transactions of the tick processor, and the initial offering (IPO) of a *)
(* contract whose bids are paid from it.                                   *)
(*                                                                         *)
(* An entity is at the first free slot from its home slot on.  A balance   *)
(* that falls to zero keeps its slot until the table is reorganised, which *)
(* happens when it is filled to three quarters (after dust is burned) and  *)
(* at the end of an epoch.  Reorganising moves entities to other slots.    *)
(***************************************************************************)
EXTENDS Integers, FiniteSetsExt

CONSTANTS
  Entity, NoEntity,
  SpectrumCapacity,   \* SPECTRUM_CAPACITY, a power of two
  EntityCategoryCount,
  EntityHome,         \* the slot where the search for an entity begins
  Genesis,            \* the balances at the beginning
  IpoContract,        \* the entity of the contract that is in its IPO
  ShareCount,         \* NUMBER_OF_COMPUTORS, the shares that are offered
  MaxPrice,           \* bound: the highest price of a bid
  Amounts             \* the amounts that are transferred

ASSUME SpectrumAssumption ==
  /\ SpectrumCapacity \in Nat \ {0} /\ SpectrumCapacity % 2 = 0
  /\ EntityCategoryCount \in Nat /\ ShareCount \in Nat \ {0} /\ MaxPrice \in Nat
  /\ EntityHome \in [Entity -> 0 .. SpectrumCapacity - 1]
  /\ Genesis \in [Entity -> Nat] /\ IpoContract \in Entity
  /\ Amounts \subseteq Nat /\ NoEntity \notin Entity
  /\ IsFiniteSet(Entity)
  /\ Cardinality({k \in Entity : Genesis[k] > 0}) < SpectrumCapacity

VARIABLES
  spectrum,      \* the table
  spectrumInfo,  \* numberOfEntities and totalAmount
  ipo,           \* the bids, highest price first; the state of the contract until it begins
  ipoOver,       \* the epoch of the IPO has ended
  feeReserve,    \* what the IPO brought to the contract's fee reserve
  job,           \* what the tick processor is doing
  refunds        \* what is to be given back to each: releasedPublicKeys, releasedAmounts

spectrumVars == <<spectrum, spectrumInfo, ipo, ipoOver, feeReserve, job, refunds>>

Place      == 0 .. SpectrumCapacity - 1
EmptyPlace == [key |-> NoEntity, balance |-> 0]

(***************************************************************************)
(* The table                                                               *)
(***************************************************************************)

At(k, n) == (EntityHome[k] + n) % SpectrumCapacity

\* The slot of k, or the free one where it would go.
PlaceOf(sp, k) ==
  At(k, Min({n \in Place : sp[At(k, n)].key \in {k, NoEntity}}))

SpectrumIndex(k) ==
  IF spectrum[PlaceOf(spectrum, k)].key = k THEN PlaceOf(spectrum, k) ELSE -1

SumOver(f, S) == MapThenSumSet(LAMBDA x : f[x], S)

Used(sp) == {i \in Place : sp[i].key # NoEntity}

\* updateSpectrumInfo
InfoOf(sp) ==
  [numberOfEntities |-> Cardinality(Used(sp)),
   totalAmount |-> SumOver([i \in Place |-> sp[i].balance], Place)]

\* An entity that has something goes to the first free slot of its search.
Entered(sp, e) == IF e.balance = 0 THEN sp ELSE [sp EXCEPT ![PlaceOf(sp, e.key)] = e]

\* The table in which the first n of a list are inserted one after the other.
Filled(list, n) ==
  LET insert[i \in 0 .. n] ==
        IF i = 0 THEN [j \in Place |-> EmptyPlace] ELSE Entered(insert[i - 1], list[i])
  IN insert[n]

\* reorganizeSpectrum: insert the entities again, by old slot.
Reorganized(sp) == Filled([i \in 1 .. SpectrumCapacity |-> sp[i - 1]], SpectrumCapacity)

\* The categories of balances by powers of two: entityCategoryPopulations
CategoryOf(b) == Cardinality({c \in 1 .. EntityCategoryCount - 1 : 2^c <= b})

Dust(sp) ==
  LET held  == {i \in Place : sp[i].balance > 0}
      cat   == [i \in held |-> CategoryOf(sp[i].balance)]
      above(c) == Cardinality({i \in held : cat[i] >= c})
      equal(c) == Cardinality({i \in held : cat[i] = c})
      large == {c \in {cat[i] : i \in held} : above(c) >= SpectrumCapacity \div 2}
      limit == CHOOSE c \in large : \A d \in large : d <= c
      \* Every second one of those that are left counts from the first.
      rank(i) == Cardinality({j \in held : cat[j] = limit /\ j <= i})
  IN IF large = {} THEN {}
     ELSE IF equal(limit) = above(limit)
     THEN {i \in held : cat[i] < limit \/ (cat[i] = limit /\ rank(i) % 2 = 1)}
     ELSE {i \in held : cat[i] <= limit}

WithoutDust(sp) ==
  [i \in Place |-> IF i \in Dust(sp) THEN [sp[i] EXCEPT !.balance = 0] ELSE sp[i]]

Full == spectrumInfo.numberOfEntities >= (SpectrumCapacity \div 2) + (SpectrumCapacity \div 4)

\* increaseEnergy
IncreaseEnergy(k, a) ==
  LET sp   == IF Full THEN Reorganized(WithoutDust(spectrum)) ELSE spectrum
      info == IF Full THEN InfoOf(sp) ELSE spectrumInfo
      i    == PlaceOf(sp, k)
  IN
  /\ spectrum' = [sp EXCEPT ![i] = [key |-> k, balance |-> @.balance + a]]
  /\ spectrumInfo' =
       [numberOfEntities |-> info.numberOfEntities + (IF sp[i].key = k THEN 0 ELSE 1),
        totalAmount |-> info.totalAmount + a]

\* decreaseEnergy: the index is not checked.
DecreaseEnergy(i, a) ==
  /\ spectrum' = [spectrum EXCEPT ![i].balance = @ - a]
  /\ spectrumInfo' = [spectrumInfo EXCEPT !.totalAmount = @ - a]

(***************************************************************************)
(* Transactions                                                            *)
(***************************************************************************)

Idle == [step |-> "idle"]

Bid(price, quantity) == [price |-> price, quantity |-> quantity]
NoBid == Bid(0, 0)

\* Before processTickTransaction calls increaseEnergy: the index of the source is found
\* and its balance is debited.  The index is used again for a bid; moved is a history: the credit
\* in between has reorganised the table.
StartTransaction(src, dst, a, bid) ==
  LET i == SpectrumIndex(src) IN
  /\ job = Idle
  /\ i >= 0
  /\ spectrum[i].balance >= a
  /\ DecreaseEnergy(i, a)
  /\ job' = [step |-> "credit", source |-> src, destination |-> dst, amount |-> a,
             index |-> i, bid |-> bid, moved |-> FALSE]
  /\ UNCHANGED <<ipo, ipoOver, feeReserve, refunds>>

Transfer ==
  \E src \in Entity, dst \in Entity, a \in Amounts : StartTransaction(src, dst, a, NoBid)

\* A bid is a transaction of amount zero to the contract in its IPO epoch.
SendBid ==
  \E src \in Entity, price \in 1 .. MaxPrice, quantity \in 1 .. ShareCount :
    /\ ~ipoOver
    /\ StartTransaction(src, IpoContract, 0, Bid(price, quantity))

CreditDestination ==
  /\ job.step = "credit"
  /\ IncreaseEnergy(job.destination, job.amount)
  /\ job' = IF job.bid = NoBid THEN Idle ELSE [job EXCEPT !.step = "bid", !.moved = Full]
  /\ UNCHANGED <<ipo, ipoOver, feeReserve, refunds>>

(***************************************************************************)
(* The IPO                                                                 *)
(***************************************************************************)

NoBidder == [key |-> NoEntity, price |-> 0]

\* A refund is added to the one of the same entity.
Released(r, k, a) == [r EXCEPT ![k] = @ + a]

\* Mutant: the bid that is replaced is not refunded.
BidForShareWithoutRefund(b, k, price) ==
  LET lowest == b.bids[ShareCount]
      n == Cardinality({j \in 1 .. ShareCount - 1 : b.bids[j].price >= price})
  IN
  IF price <= lowest.price
  THEN [b EXCEPT !.released = Released(@, k, price)]
  ELSE [b EXCEPT !.bids = [j \in 1 .. ShareCount |->
                             IF j <= n THEN b.bids[j]
                             ELSE IF j = n + 1 THEN [key |-> k, price |-> price]
                             ELSE b.bids[j - 1]]]

\* A share is offered to the bidder k: it takes the place of the lowest bid and moves up
\* past the bids below it.  The lower of the two is released.
BidForShare(b, k, price) ==
  LET lowest == b.bids[ShareCount]
      n == Cardinality({j \in 1 .. ShareCount - 1 : b.bids[j].price >= price})
  IN
  IF price <= lowest.price
  THEN [b EXCEPT !.released = Released(@, k, price)]
  ELSE [bids |-> [j \in 1 .. ShareCount |->
                    IF j <= n THEN b.bids[j]
                    ELSE IF j = n + 1 THEN [key |-> k, price |-> price]
                    ELSE b.bids[j - 1]],
        released |-> Released(b.released, lowest.key, lowest.price)]

NoRefunds == [k \in Entity |-> 0]

\* bidInContractIPO: the bid is paid, or nothing happens.
BidInContractIPO ==
  LET cost == job.bid.price * job.bid.quantity IN
  /\ job.step = "bid"
  /\ IF spectrum[job.index].balance >= cost
     THEN /\ DecreaseEnergy(job.index, cost)
          /\ job' = [step |-> "offer", source |-> job.source, price |-> job.bid.price,
                     left |-> job.bid.quantity]
          /\ refunds' = NoRefunds
     ELSE job' = Idle /\ UNCHANGED <<spectrum, spectrumInfo, refunds>>
  /\ UNCHANGED <<ipo, ipoOver, feeReserve>>

\* One turn of its loop.
OfferShare ==
  LET after == BidForShare([bids |-> ipo, released |-> refunds], job.source, job.price) IN
  /\ job.step = "offer"
  /\ ipo' = after.bids
  /\ refunds' = after.released
  /\ job' = IF job.left = 1 THEN [step |-> "refund"] ELSE [job EXCEPT !.left = @ - 1]
  /\ UNCHANGED <<spectrum, spectrumInfo, ipoOver, feeReserve>>

\* Refunds that are not zero are paid.  Their order is left open.
Refund ==
  /\ job.step \in {"refund", "finish"}
  /\ \E k \in Entity :
       /\ refunds[k] > 0
       /\ IncreaseEnergy(k, refunds[k])
       /\ refunds' = [refunds EXCEPT ![k] = 0]
  /\ UNCHANGED <<ipo, ipoOver, feeReserve, job>>

EndBid ==
  /\ job.step = "refund" /\ refunds = NoRefunds
  /\ job' = Idle
  /\ UNCHANGED <<spectrum, spectrumInfo, ipo, ipoOver, feeReserve, refunds>>

\* finishIPOs: every share is sold at the lowest price that got one, or the IPO fails, when
\* a share is left or the asset cannot be issued.  What was bid beyond is released.
FinishIPO ==
  \E issued \in BOOLEAN :
    LET final  == IF issued THEN ipo[ShareCount].price ELSE 0
        beyond == [n \in 1 .. ShareCount |-> ipo[n].price - final]
    IN
    /\ job = Idle
    /\ ~ipoOver
    /\ ipoOver' = TRUE
    /\ refunds' = [k \in Entity |-> SumOver(beyond, {n \in 1 .. ShareCount :
                                                      ipo[n].key = k /\ ipo[n].price > final})]
    /\ feeReserve' = final * ShareCount
    /\ job' = [step |-> "finish"]
    /\ ipo' = [n \in 1 .. ShareCount |-> NoBidder]
    /\ UNCHANGED <<spectrum, spectrumInfo>>

\* The end of the epoch reorganises the table.
ReorganizeSpectrum ==
  /\ job.step = "finish" /\ refunds = NoRefunds
  /\ job' = Idle
  /\ spectrum' = Reorganized(spectrum)
  /\ spectrumInfo' = InfoOf(Reorganized(spectrum))
  /\ UNCHANGED <<ipo, ipoOver, feeReserve, refunds>>

\* The table that is loaded at the beginning.
GenesisSpectrum ==
  LET n == Cardinality(Entity)
      order == CHOOSE s \in [1 .. n -> Entity] : \A k \in Entity : \E i \in 1 .. n : s[i] = k
  IN Filled([i \in 1 .. n |-> [key |-> order[i], balance |-> Genesis[order[i]]]], n)

SpectrumInit ==
  /\ spectrum = GenesisSpectrum
  /\ spectrumInfo = InfoOf(spectrum)
  /\ ipo = [n \in 1 .. ShareCount |-> NoBidder]
  /\ ipoOver = FALSE
  /\ feeReserve = 0
  /\ job = Idle
  /\ refunds = NoRefunds

SpectrumNext ==
  \/ Transfer \/ SendBid \/ CreditDestination \/ BidInContractIPO \/ OfferShare
  \/ Refund \/ EndBid \/ FinishIPO \/ ReorganizeSpectrum

SpectrumSpec == SpectrumInit /\ [][SpectrumNext]_spectrumVars

(***************************************************************************)
(* Properties                                                              *)
(***************************************************************************)

SpectrumTypeOK ==
  /\ spectrum \in [Place -> [key : Entity \cup {NoEntity}, balance : Nat]]
  /\ spectrumInfo \in [numberOfEntities : 0 .. SpectrumCapacity, totalAmount : Nat]
  /\ \A n \in 1 .. ShareCount : ipo[n] \in [key : Entity \cup {NoEntity}, price : Nat]
  /\ job.step \in {"idle", "credit", "bid", "offer", "refund", "finish"}

BalanceOf(k) == IF SpectrumIndex(k) = -1 THEN 0 ELSE spectrum[SpectrumIndex(k)].balance

Balances == [k \in Entity |-> BalanceOf(k)]

\* What transactions, bids, refunds and the fee reserve hold.
Held ==
  (IF job.step = "credit" THEN job.amount ELSE 0)
    + (IF job.step = "offer" THEN job.left * job.price ELSE 0)
    + SumOver([n \in 1 .. ShareCount |-> ipo[n].price], 1 .. ShareCount)
    + SumOver(refunds, Entity)
    + feeReserve

Accounts == INSTANCE Ledger WITH
  Account <- Entity, AccountLimit <- SpectrumCapacity \div 2, balance <- Balances, held <- Held,
  MaxAmount <- SumOver(Genesis, Entity), Magnitudes <- EntityCategoryCount - 1

\* Only the source of a transaction or bid is debited; other balances fall as dust alone, that is
\* with a credit.  Where the index of a bidder is stale (moved) the code does not promise it.
PaidBySource ==
  \A k \in Entity : Balances'[k] < Balances[k] =>
    \/ job.step \in {"credit", "refund", "finish"}
    \/ job.step = "bid" /\ job.moved
    \/ job'.source = k

\* The table is a ledger: an entity that has something is found, however often the table
\* was reorganised; no transaction, bid or refund creates or loses money; only dust is
\* burned, from the smallest balances on, until less than half of the table is used; and no
\* one pays for another, unless the credit of a bid has reorganised the table.
ImplementsLedger ==
  [][UNCHANGED spectrumVars \/ (Accounts!LedgerNext /\ PaidBySource)]_<<Balances, Held>>

\* The totals are those of the table, and a search for an unknown entity ends.
SpectrumCounted ==
  /\ spectrumInfo = InfoOf(spectrum)
  /\ spectrumInfo.numberOfEntities < SpectrumCapacity

\* A bid is paid by its bidder: when bidInContractIPO debits the slot that was looked up at
\* the beginning of the transaction, it is still the slot of the source
\* (ASSERT(spectrumIndex == ::spectrumIndex(sourcePublicKey)), ipo.h).
BidPaidByBidder == job.step = "bid" => SpectrumIndex(job.source) = job.index

\* It is so at least while the credit of the transaction has not reorganised the table.
PaidUnlessMoved == job.step = "bid" /\ ~job.moved => SpectrumIndex(job.source) = job.index

(***************************************************************************)
(* The invariant that the proofs use                                       *)
(***************************************************************************)

\* An entity is where a search for it ends, and a free slot has no balance.
TableOK(sp) ==
  /\ sp \in [Place -> [key : Entity \cup {NoEntity}, balance : Nat]]
  /\ \A i \in Place : sp[i].key = NoEntity => sp[i].balance = 0
  /\ \A i \in Used(sp) : PlaceOf(sp, sp[i].key) = i

JobOK ==
  \/ job = Idle
  \/ /\ job \in [step : {"credit", "bid"}, source : Entity, destination : Entity, amount : Nat,
                  index : Place, bid : [price : Nat, quantity : Nat], moved : BOOLEAN]
     /\ job.bid = NoBid => job.step = "credit"
     /\ job.bid # NoBid => job.bid.price > 0 /\ job.bid.quantity > 0
     /\ job.moved => job.step = "bid"
  \/ job \in [step : {"offer"}, source : Entity, price : Nat \ {0}, left : Nat \ {0}]
  \/ job \in [step : {"refund", "finish"}]

\* The bids are sorted, and what was bid or is to be given back belongs to somebody.
BidsOK ==
  /\ ipo \in [1 .. ShareCount -> [key : Entity \cup {NoEntity}, price : Nat]]
  /\ \A n \in 1 .. ShareCount : ipo[n].key = NoEntity => ipo[n].price = 0
  /\ \A m, n \in 1 .. ShareCount : m <= n => ipo[m].price >= ipo[n].price
  /\ refunds \in [Entity -> Nat]
  /\ job.step \in {"idle", "credit", "bid"} => refunds = NoRefunds

\* A transaction knows the slot of its source until a credit moves it.
BidderKnown ==
  job.step \in {"credit", "bid"} /\ job.bid # NoBid /\ ~job.moved =>
    spectrum[job.index].key = job.source

SpectrumInv ==
  /\ TableOK(spectrum)
  /\ SpectrumCounted
  /\ JobOK
  /\ BidsOK
  /\ BidderKnown
  /\ feeReserve \in Nat /\ (~ipoOver => feeReserve = 0)
  /\ spectrumInfo.totalAmount + Held <= SumOver(Genesis, Entity)
===============================================================================

--------------------------------- MODULE Quottery ---------------------------------
(***************************************************************************)
(* The contract Quottery: bets with options and a limited number of places *)
(* on each, the votes of oracle providers on the option that won, the      *)
(* settlement, and the array of slots that the bets are kept in.           *)
(***************************************************************************)
EXTENDS Qpi

CONSTANTS
  BetSlots,        \* QUOTTERY_MAX_BET
  MaxBets,         \* bound: bets issued
  BetDates,        \* the dates that time takes, each [year, month, day, hour]
  BetOffers,       \* [closes, ends, options, places, amount, oracleFees] that are issued
  Bettor,          \* those of Account who join bets
  BetWants,        \* places asked for
  BetFeeRate,      \* QUOTTERY_FEE_PER_SLOT_PER_HOUR
  HolderPart, OperatorPart, BurnPart   \* fees of the settlement, of BetBase
BetBase == 10000

ASSUME QuotteryAssumption ==
  /\ BetSlots \in Nat \ {0} /\ {MaxBets, BetFeeRate, HolderPart, OperatorPart, BurnPart} \subseteq Nat
  /\ BetWants \subseteq Nat \ {0}

VARIABLES
  bet,        \* slot -> the bet kept there, or NoBet
  occupied,   \* mIsOccupied
  betsIssued, \* mCurrentBetID
  betFees,    \* mEarnedAmountForShareHolder - mPaidAmountForShareHolder
  betNow      \* the date, as a place in BetDates

betOwn  == <<bet, occupied, betsIssued, betFees, betNow>>
BetSlot == 0 .. BetSlots - 1
NoBet   == [id |-> -1]
Bets    == {s \in BetSlot : bet[s] # NoBet}
Staked(b) == SumOf(DOMAIN b.bettors, LAMBDA o : Len(b.bettors[o]))

(***************************************************************************)
(* Dates                                                                   *)
(***************************************************************************)

\* packQuotteryDate, by which dates are compared
Packed(d) == (((d.year - 24) * 16 + d.month) * 32 + d.day) * 32 + d.hour
After(i, j) == Packed(BetDates[i]) > Packed(BetDates[j])

AccumulatedDay(month) == <<0, 31, 59, 90, 120, 151, 181, 212, 243, 273, 304, 334>>[month]

\* diffDateInSecond, in hours; nothing when b does not lie after a.
HoursBetween(i, j) ==
  LET a == BetDates[i] b == BetDates[j]
      LeapDay(d) == IF d.year % 4 = 0 /\ d.month > 2 THEN 1 ELSE 0
      dayA == AccumulatedDay(a.month) + a.day + LeapDay(a)
      dayB == AccumulatedDay(b.month) + b.day + (b.year - a.year) * 365 + LeapDay(b)
              + Cardinality({y \in a.year .. b.year - 1 : y % 4 = 0})
  IN IF After(j, i) THEN (dayB - dayA) * 24 + b.hour - a.hour ELSE 0

(***************************************************************************)
(* Bets                                                                    *)
(***************************************************************************)

\* checkAndCleanMemorySlots: the condition on the tick holds for every settled bet.
CleanedSlots == {s \in BetSlot : occupied[s] /\ bet[s].settled}

BetFee(offer) == HoursBetween(betNow, offer.ends) * offer.places * offer.options * BetFeeRate

NewBet(offer) ==
  [id |-> betsIssued, offer |-> offer, settled |-> FALSE,
   bettors |-> [o \in 1 .. offer.options |-> <<>>], votes |-> [p \in DOMAIN offer.oracleFees |-> 0]]

\* The first free slot from the one of the bet's number on.
FreeSlot(taken) ==
  LET distance(s) == (s - betsIssued) % BetSlots
  IN {s \in BetSlot \ taken : \A t \in BetSlot \ taken : distance(s) <= distance(t)}


\* The slot that is marked as occupied is that of the bet's number.
MarkedOccupied(taken) == [s \in BetSlot |-> s \in taken \/ s = betsIssued % BetSlots]

IssueBet(offer) ==
  LET kept == {s \in BetSlot : occupied[s]} \ CleanedSlots
      cleaned == [s \in BetSlot |-> IF s \in CleanedSlots THEN NoBet ELSE bet[s]]
  IN /\ ~After(betNow, offer.closes) /\ ~After(offer.closes, offer.ends)
     /\ offer.options >= 2 /\ offer.places > 0
     /\ betsIssued < MaxBets /\ betsIssued' = betsIssued + 1
     /\ IF kept = BetSlot
        THEN bet' = cleaned /\ occupied' = [s \in BetSlot |-> s \in kept] /\ UNCHANGED <<funds, betFees>>
        ELSE /\ \E s \in FreeSlot(kept) : bet' = [cleaned EXCEPT ![s] = NewBet(offer)]
             /\ occupied' = MarkedOccupied(kept)
             /\ funds' = funds + BetFee(offer) /\ betFees' = betFees + BetFee(offer)
     /\ UNCHANGED betNow

\* As many places as are left; the rest of the reward is returned.
JoinBet(who, s, option, wanted) ==
  LET b == bet[s]
      places == Least(b.offer.places - Len(b.bettors[option]), wanted)
  IN /\ occupied[s] /\ ~After(betNow, b.offer.closes)
     /\ option \in DOMAIN b.bettors /\ places > 0
     /\ bet' = [bet EXCEPT ![s].bettors[option] = @ \o [n \in 1 .. places |-> who]]
     /\ funds' = funds + b.offer.amount * places
     /\ UNCHANGED <<occupied, betsIssued, betFees, betNow>>

\* The number of votes that decide: two thirds of the oracle providers.
RequiredVotes(b) == (2 * Cardinality(DOMAIN b.votes) + 2) \div 3
Won(b) == {o \in 1 .. b.offer.options : Cardinality({p \in DOMAIN b.votes : b.votes[p] = o}) >= RequiredVotes(b)}

FeeOf(amount, part) == (amount * part) \div BetBase


\* What the winners share is left over when the fees are taken from what was lost.
WinnersShare(b, o, lost, fees) ==
  IF b.bettors[o] = <<>> THEN 0 ELSE (lost - fees) \div Len(b.bettors[o])

\* tryFinalizeBet with a winning option: the fees, the winners, and the rest is burnt.
Settled(s, b, o) ==
  LET lost == (Staked(b) - Len(b.bettors[o])) * b.offer.amount
      oracles == SetToSeq(DOMAIN b.votes)
      oracleFees == [n \in DOMAIN oracles |-> FeeOf(lost, b.offer.oracleFees[oracles[n]])]
      others == <<FeeOf(lost, OperatorPart), FeeOf(lost, BurnPart)>>
      fees == SumOfSeq(oracleFees \o others, LAMBDA x : x) + FeeOf(lost, HolderPart)
      prize == b.offer.amount + WinnersShare(b, o, lost, fees)
      prizes == [n \in DOMAIN b.bettors[o] |-> prize]
      rest == Staked(b) * b.offer.amount - fees - prize * Len(prizes)
  IN /\ funds' = PaidInTurn(funds, oracleFees \o others \o prizes \o
                              IF rest > 0 THEN <<rest>> ELSE <<>>)
     /\ betFees' = betFees + FeeOf(lost, HolderPart)
     /\ bet' = [bet EXCEPT ![s] = [b EXCEPT !.settled = TRUE]]

\* publishResult: an oracle provider may change its vote until the bet is settled.
PublishResult(p, s, option) ==
  LET b == [bet[s] EXCEPT !.votes[p] = option]
  IN /\ occupied[s] /\ After(betNow, b.offer.ends) /\ ~b.settled
     /\ p \in DOMAIN b.votes
     /\ IF Won(b) = {} THEN bet' = [bet EXCEPT ![s] = b] /\ UNCHANGED <<funds, betFees>>
        ELSE Settled(s, b, Min(Won(b)))
     /\ UNCHANGED <<occupied, betsIssued, betNow>>

\* cancelBet by the game operator, who cancels bets that the oracle providers do not settle.
CancelBet(s) ==
  LET b == bet[s] IN
  /\ occupied[s] /\ ~b.settled /\ After(betNow, b.offer.ends)
  /\ HoursBetween(b.offer.ends, betNow) \div 24 >= 2
  /\ funds' = PaidInTurn(funds, [n \in 1 .. Staked(b) |-> b.offer.amount])
  /\ bet' = [bet EXCEPT ![s] = NoBet] /\ occupied' = [occupied EXCEPT ![s] = FALSE]
  /\ UNCHANGED <<betsIssued, betFees, betNow>>

BetEndEpoch ==
  LET each == betFees \div Computors IN
  /\ each > 0 /\ CanPay(funds, each * Computors)
  /\ funds' = Distributed(funds, each) /\ betFees' = betFees - each * Computors
  /\ UNCHANGED <<bet, occupied, betsIssued, betNow>>

BetTimePasses ==
  /\ betNow < Len(BetDates) /\ betNow' = betNow + 1
  /\ UNCHANGED <<funds, bet, occupied, betsIssued, betFees>>

BetInit ==
  /\ bet = [s \in BetSlot |-> NoBet] /\ occupied = [s \in BetSlot |-> FALSE]
  /\ betsIssued = 0 /\ betFees = 0 /\ betNow = 1

BetNext ==
  \/ \E offer \in BetOffers : IssueBet(offer)
  \/ \E s \in Bets, option \in 1 .. 2 :
       \/ \E p \in Account : PublishResult(p, s, option)
       \/ \E who \in Bettor, n \in BetWants : JoinBet(who, s, option, n)
  \/ \E s \in Bets : CancelBet(s)
  \/ BetEndEpoch \/ BetTimePasses

(***************************************************************************)
(* Properties                                                              *)
(***************************************************************************)

\* The stakes of the bets that are not settled and the fees not yet distributed are on the
\* contract's balance.
BetsSolvent ==
  funds >= betFees + SumOf({s \in Bets : ~bet[s].settled}, LAMBDA s : Staked(bet[s]) * bet[s].offer.amount)

\* An occupied slot holds a bet, a bet with stakes is in an occupied slot, no option has more
\* bettors than places, and no two slots hold the same bet.
BetSlotsAgree ==
  /\ \A s \in BetSlot : occupied[s] => bet[s] # NoBet
  /\ \A s \in Bets : /\ Staked(bet[s]) > 0 => occupied[s]
                     /\ \A o \in DOMAIN bet[s].bettors : Len(bet[s].bettors[o]) <= bet[s].offer.places
                     /\ \A t \in Bets : bet[s].id = bet[t].id => s = t

\* The days of a date counted from the lengths of the years and months before it.
MonthDays(year) == <<31, IF year % 4 = 0 THEN 29 ELSE 28, 31, 30, 31, 30, 31, 31, 30, 31, 30, 31>>
CalendarDay(d) ==
  SumOf(24 .. d.year - 1, LAMBDA y : SumOf(1 .. 12, LAMBDA n : MonthDays(y)[n]))
  + SumOf(1 .. d.month - 1, LAMBDA n : MonthDays(d.year)[n]) + d.day

\* The duration of a bet is that of the calendar.
DurationsRight ==
  \A j \in DOMAIN BetDates : \A i \in 1 .. j - 1 :
    HoursBetween(i, j) = (CalendarDay(BetDates[j]) - CalendarDay(BetDates[i])) * 24
                         + BetDates[j].hour - BetDates[i].hour
===============================================================================

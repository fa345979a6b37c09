-------------------------------- MODULE Lotteries --------------------------------
(***************************************************************************)
(* The contracts of chance: RandomLottery (tickets of an epoch, drawn on   *)
(* scheduled days), Qdraw (a pot drawn every hour) and QDuel (rooms for    *)
(* two players whose stakes go on to the next room).  Random numbers are   *)
(* a free choice of the winner.                                            *)
(***************************************************************************)
EXTENDS Qpi

CONSTANTS
  \* RandomLottery
  MaxTickets, TicketPrice, NewPrices,   \* RL_MAX_NUMBER_OF_PLAYERS, RL_TICKET_PRICE, input of SetPrice
  TicketRewards,            \* input: what is paid for tickets
  FirstSchedule, Schedules, \* weekdays with a draw, 0 is Wednesday: at first, and input of SetSchedule
  LotteryParts,             \* [team, holders, winner, burn] -> percent
  LastDay,                  \* bound
  \* Qdraw
  DrawPrice, MaxDrawTickets,
  \* QDuel
  MaxRooms, MinDuel,        \* QDUEL_MAX_NUMBER_OF_ROOMS, minimumDuelAmount
  DuelScale, FirstDuelFees, DuelFees,   \* QDUEL_PERCENT_SCALE; inputs of SetPercentFees, [dev, burn, holders]
  FirstRoomHours, RoomHours,            \* QDUEL_TTL_HOURS; inputs of SetTTLHours
  DuelOffers,               \* inputs of CreateRoom: [stake, raise, most], most = 0 for no limit
  DuelDeposits              \* inputs: what is deposited beyond the stake

ASSUME LotteriesAssumption ==
  /\ MaxTickets \in Nat \ {0} /\ {TicketPrice} \cup NewPrices \subseteq Nat \ {0}
  /\ DrawPrice \in Nat /\ MaxDrawTickets \in Nat \ {0, 1}
  /\ \A p \in DuelOffers : p.stake >= MinDuel /\ (p.most = 0 \/ p.most >= p.stake)
  /\ \A f \in DuelFees \cup {FirstDuelFees} : f.dev + f.burn + f.holders < DuelScale

(***************************************************************************)
(* RandomLottery                                                           *)
(***************************************************************************)

InitDay == -1   \* RL_DEFAULT_INIT_TIME, the date before the first tick of an epoch
NoDay   == -2   \* lastDrawDateStamp = 0

VARIABLES
  selling,      \* currentState has SELLING
  players,      \* a ticket each
  ticketPrice, schedule,
  queuedPrice, queuedSchedule,   \* nexEpochData: 0 and {} when nothing is queued
  lastDraw,     \* lastDrawDateStamp: a day, InitDay or NoDay
  lotteryDay    \* the date of the tick: a day, a Wednesday when it is 0 modulo 7, or InitDay

lotteryOwn == <<selling, players, ticketPrice, schedule, queuedPrice, queuedSchedule, lastDraw, lotteryDay>>
tariffVars == <<ticketPrice, schedule, queuedPrice, queuedSchedule>>

\* As many tickets as are paid for and left; the rest of the payment goes back.
BuyTicket(who, reward) ==
  LET bought == Least(reward \div ticketPrice, MaxTickets - Len(players)) IN
  /\ selling /\ reward >= ticketPrice /\ Len(players) < MaxTickets
  /\ players' = players \o [n \in 1 .. bought |-> who]
  /\ funds' = Paid(funds + reward, reward - bought * ticketPrice)
  /\ UNCHANGED <<selling, tariffVars, lastDraw, lotteryDay>>

SetPrice(price) ==
  /\ queuedPrice' = price
  /\ UNCHANGED <<funds, selling, players, ticketPrice, schedule, queuedSchedule, lastDraw, lotteryDay>>

SetSchedule(days) ==
  /\ queuedSchedule' = days
  /\ UNCHANGED <<funds, selling, players, ticketPrice, schedule, queuedPrice, lastDraw, lotteryDay>>

Wednesday(d) == d % 7 = 0
Percent(k)   == (funds * LotteryParts[k]) \div 100

\* Tickets of one player only are paid back; else the whole balance is divided.
Draw ==
  IF Cardinality(ToSet(players)) < 2 THEN PaidInTurn(funds, [n \in DOMAIN players |-> ticketPrice])
  ELSE PaidInTurn(funds, <<Percent("team"), (Percent("holders") \div Computors) * Computors,
                           Percent("winner"), Percent("burn")>>)

\* BEGIN_TICK at or after the hour of the draw.
DrawTick ==
  \/ /\ lotteryDay = InitDay
     /\ selling' = FALSE /\ lastDraw' = InitDay
     /\ UNCHANGED <<funds, players, tariffVars, lotteryDay>>
  \/ LET today == lotteryDay
         begins == lastDraw = InitDay
         last == IF ~begins THEN lastDraw ELSE IF Wednesday(today) THEN today ELSE NoDay
         draws == last # today /\ (Wednesday(today) \/ today % 7 \in schedule)
     IN /\ today # InitDay
        /\ selling' = IF draws THEN ~Wednesday(today) ELSE selling \/ begins
        /\ lastDraw' = IF draws THEN today ELSE last
        /\ players' = IF draws THEN <<>> ELSE players
        /\ funds' = IF draws THEN Draw ELSE funds
        /\ UNCHANGED <<tariffVars, lotteryDay>>

\* END_EPOCH, and BEGIN_EPOCH at a date that may not be known yet.  Tickets not drawn are dropped.
LotteryEpochEnds ==
  \E day \in {lotteryDay, InitDay} :
    /\ lotteryDay' = day /\ lastDraw' = day /\ selling' = (day # InitDay) /\ players' = <<>>
    /\ ticketPrice' = (IF queuedPrice # 0 THEN queuedPrice ELSE ticketPrice) /\ queuedPrice' = 0
    /\ schedule' = (IF queuedSchedule # {} THEN queuedSchedule ELSE schedule) /\ queuedSchedule' = {}
    /\ UNCHANGED funds

\* The next day, or the first tick with a date.
LotteryDayPasses ==
  /\ \/ lotteryDay = InitDay /\ lotteryDay' \in 0 .. LastDay
     \/ lotteryDay # InitDay /\ lotteryDay < LastDay /\ lotteryDay' = lotteryDay + 1
  /\ UNCHANGED <<funds, selling, players, tariffVars, lastDraw>>

LotteryInit ==
  /\ selling = FALSE /\ players = <<>> /\ ticketPrice = TicketPrice /\ schedule = FirstSchedule
  /\ queuedPrice = 0 /\ queuedSchedule = {} /\ lastDraw = NoDay /\ lotteryDay = 0

LotteryNext ==
  \/ \E who \in Account, reward \in TicketRewards : BuyTicket(who, reward)
  \/ \E price \in NewPrices : SetPrice(price)
  \/ \E days \in Schedules : SetSchedule(days)
  \/ DrawTick
  \/ LotteryEpochEnds
  \/ LotteryDayPasses

\* The tickets can be paid back at the price they were bought for, and without sale there
\* are none.
TicketsCovered ==
  /\ funds >= Len(players) * ticketPrice
  /\ ~selling => players = <<>>

(***************************************************************************)
(* Qdraw                                                                   *)
(***************************************************************************)

VARIABLES
  drawTickets,   \* _participants
  pot,           \* _pot
  hourDrawn      \* _lastDrawHour is the hour of the tick

drawOwn == <<drawTickets, pot, hourDrawn>>

BuyDrawTickets(who, count) ==
  /\ Len(drawTickets) + count <= MaxDrawTickets
  /\ drawTickets' = drawTickets \o [n \in 1 .. count |-> who]
  /\ pot' = pot + count * DrawPrice /\ funds' = funds + count * DrawPrice
  /\ UNCHANGED hourDrawn

\* All tickets sold, and to one: a price is burnt, one is won and the owner gets the others.
Monopoly == Len(drawTickets) = MaxDrawTickets /\ Cardinality(ToSet(drawTickets)) = 1

\* BEGIN_TICK
HourlyDraw ==
  /\ ~hourDrawn /\ hourDrawn' = TRUE
  /\ funds' = IF Monopoly THEN PaidInTurn(funds, <<DrawPrice, DrawPrice, pot - DrawPrice - DrawPrice>>)
              ELSE Paid(funds, pot)
  /\ drawTickets' = <<>> /\ pot' = 0

HourPasses == hourDrawn /\ hourDrawn' = FALSE /\ UNCHANGED <<funds, drawTickets, pot>>

DrawInit == drawTickets = <<>> /\ pot = 0 /\ hourDrawn = TRUE

DrawNext ==
  \/ \E who \in Account, count \in 1 .. MaxDrawTickets : BuyDrawTickets(who, count)
  \/ HourlyDraw
  \/ HourPasses

\* The pot is what was paid for the tickets, and on the balance.
PotCovered == funds >= pot /\ pot = Len(drawTickets) * DrawPrice

(***************************************************************************)
(* QDuel                                                                   *)
(***************************************************************************)

Room  == 1 .. MaxRooms
NoRoom == [owner |-> "none"]
NoUser == [room |-> 0]

VARIABLES
  rooms,      \* room -> [owner, allowed, amount, timer, since: the hours since lastUpdate]
  duelists,   \* users: who -> [room, allowed, deposit, locked, stake, raise, most]
  duelFees, roomHours,   \* the fees in units of DuelScale; ttlHours
  duelLocked, firstTick  \* currentState is LOCKED

duelOwn == <<rooms, duelists, duelFees, roomHours, duelLocked, firstTick>>
ruleVars == <<duelFees, roomHours, duelLocked, firstTick>>

FreeRooms(r) == {n \in Room : r[n] = NoRoom}

\* CreateRoomRecord: the id is a new one.
RoomCreated(r, who, allowed, amount) ==
  [r EXCEPT ![CHOOSE n \in FreeRooms(r) : TRUE] =
     [owner |-> who, allowed |-> allowed, amount |-> amount, timer |-> roomHours, since |-> 0]]
RoomOf(r, who) == CHOOSE n \in Room : r[n] # NoRoom /\ r[n].owner = who

CreateRoom(who, allowed, offer, deposit) ==
  LET r == RoomCreated(rooms, who, allowed, offer.stake) IN
  /\ ~duelLocked /\ duelists[who] = NoUser /\ FreeRooms(rooms) # {}
  /\ rooms' = r /\ funds' = funds + offer.stake + deposit
  /\ duelists' = [duelists EXCEPT ![who] =
       [room |-> RoomOf(r, who), allowed |-> allowed, deposit |-> deposit, locked |-> offer.stake,
        stake |-> offer.stake, raise |-> offer.raise, most |-> offer.most]]
  /\ UNCHANGED ruleVars

\* computeNextStake
NextStake(u) ==
  LET raised == IF u.raise <= 1 THEN u.stake
                ELSE IF u.most > 0 /\ u.raise > u.most \div u.stake THEN u.most ELSE u.stake * u.raise
  IN IF u.most > 0 THEN Least(raised, u.most) ELSE raised

\* FinalizeRoom: the room goes, and its owner, with what is left, waits in a new one.
Finalized(s, n, includeLocked) ==
  LET who == s.rooms[n].owner
      u == s.users[who]
      available == u.deposit + IF includeLocked THEN u.locked ELSE 0
      stake == Least(NextStake(u), available)
      without == [s.rooms EXCEPT ![n] = NoRoom]
      created == RoomCreated(without, who, u.allowed, stake)
  IN IF stake < MinDuel
     THEN [rooms |-> without, users |-> [s.users EXCEPT ![who] = NoUser], funds |-> Paid(s.funds, available)]
     ELSE [rooms |-> created, funds |-> s.funds,
           users |-> [s.users EXCEPT ![who] = [@ EXCEPT !.room = RoomOf(created, who),
                        !.deposit = available - stake, !.locked = stake, !.stake = stake]]]

DuelState == [rooms |-> rooms, users |-> duelists, funds |-> funds]
Becomes(s) == rooms' = s.rooms /\ duelists' = s.users /\ funds' = s.funds

DuelFee(k, amount) == (amount * duelFees[k]) \div DuelScale

\* One of the two wins what the fees leave of both stakes.
ConnectToRoom(who, n) ==
  LET amount == 2 * rooms[n].amount
      holders == (DuelFee("holders", amount) \div Computors) * Computors
      winner == amount - DuelFee("dev", amount) - DuelFee("burn", amount) - holders
      paid == PaidInTurn(funds + rooms[n].amount,
                         <<winner, DuelFee("dev", amount), DuelFee("burn", amount), holders>>)
  IN /\ ~duelLocked /\ rooms[n].allowed \in {"any", who}
     /\ Becomes(Finalized([DuelState EXCEPT !.funds = paid], n, FALSE))
     /\ UNCHANGED ruleVars

SetPercentFees(fees) ==
  duelFees' = fees /\ UNCHANGED <<funds, rooms, duelists, roomHours, duelLocked, firstTick>>

SetTTLHours(hours) ==
  roomHours' = hours /\ UNCHANGED <<funds, rooms, duelists, duelFees, duelLocked, firstTick>>

DuelDeposit(who, amount) ==
  /\ duelists[who] # NoUser
  /\ duelists' = [duelists EXCEPT ![who].deposit = @ + amount] /\ funds' = funds + amount
  /\ UNCHANGED <<rooms, ruleVars>>

DuelWithdraw(who, amount) ==
  /\ duelists[who] # NoUser /\ amount <= duelists[who].deposit
  /\ duelists' = [duelists EXCEPT ![who].deposit = @ - amount] /\ funds' = Paid(funds, amount)
  /\ UNCHANGED <<rooms, ruleVars>>

\* END_TICK: rooms whose time is over are finalized, the timers of the others go on.  At the
\* first tick of an epoch the time since the last one does not count.
Updated(s, n) ==
  LET room == s.rooms[n]
      elapsed == IF firstTick THEN 0 ELSE room.since
  IN IF room = NoRoom THEN s
     ELSE IF elapsed >= room.timer THEN Finalized(s, n, TRUE)
     ELSE [s EXCEPT !.rooms[n] = [room EXCEPT !.timer = @ - elapsed, !.since = 0]]

DuelEndTick ==
  /\ duelLocked' = FALSE /\ firstTick' = FALSE
  /\ Becomes(FoldLeft(Updated, DuelState, [n \in Room |-> n]))
  /\ UNCHANGED <<duelFees, roomHours>>

DuelBeginEpoch ==
  duelLocked' = TRUE /\ firstTick' = TRUE /\ UNCHANGED <<funds, rooms, duelists, duelFees, roomHours>>

DuelHourPasses ==
  /\ \E n \in Room : rooms[n] # NoRoom
  /\ \A n \in Room : rooms[n] # NoRoom => rooms[n].since < rooms[n].timer
  /\ rooms' = [n \in Room |-> IF rooms[n] = NoRoom THEN NoRoom ELSE [rooms[n] EXCEPT !.since = @ + 1]]
  /\ UNCHANGED <<funds, duelists, ruleVars>>

DuelInit ==
  /\ rooms = [n \in Room |-> NoRoom] /\ duelists = [who \in Account |-> NoUser]
  /\ duelFees = FirstDuelFees /\ roomHours = FirstRoomHours /\ duelLocked = TRUE /\ firstTick = TRUE

DuelNext ==
  \/ \E who \in Account :
       \/ \E allowed \in Account \cup {"any"}, offer \in DuelOffers, deposit \in DuelDeposits \cup {0} :
            CreateRoom(who, allowed, offer, deposit)
       \/ \E n \in Room \ FreeRooms(rooms) : ConnectToRoom(who, n)
       \/ \E amount \in DuelDeposits : DuelDeposit(who, amount) \/ DuelWithdraw(who, amount)
  \/ \E fees \in DuelFees : SetPercentFees(fees)
  \/ \E hours \in RoomHours : SetTTLHours(hours)
  \/ DuelEndTick
  \/ DuelBeginEpoch
  \/ DuelHourPasses

\* Every user waits in a room with the locked stake, every room has its user.
RoomsMatchUsers ==
  /\ \A who \in Account : duelists[who] # NoUser =>
       LET u == duelists[who] IN rooms[u.room] # NoRoom /\ rooms[u.room].owner = who /\ rooms[u.room].amount = u.locked
  /\ \A n \in Room : rooms[n] # NoRoom => duelists[rooms[n].owner] # NoUser /\ duelists[rooms[n].owner].room = n

\* Deposits and stakes are on the balance.
DuelsCovered ==
  funds >= SumOf({who \in Account : duelists[who] # NoUser}, LAMBDA who : duelists[who].deposit + duelists[who].locked)
===============================================================================

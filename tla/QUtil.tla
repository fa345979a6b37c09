--------------------------------- MODULE QUtil ---------------------------------
(***************************************************************************)
(* The contract QUtil: polls whose voters count with what they own, and    *)
(* helpers that pass on or burn what they are paid.                        *)
(***************************************************************************)
EXTENDS Qpi

CONSTANTS
  PollSlots, PollVoters,   \* QUTIL_MAX_POLL, QUTIL_MAX_VOTERS_PER_POLL
  PollsPerEpoch,           \* QUTIL_MAX_NEW_POLL
  FirstUtilFees, UtilFees, \* [send, create, vote, share] -> fee, at first, and as shareholders may choose them
  PollMinimums, MaxWealth, \* inputs: min_amount, and what a voter owns
  Gifts,                   \* inputs: the amounts sent to many
  ShareholdersOf,          \* the shares of each possessor of an asset
  LastPoll                 \* bound: current_poll_id

ASSUME QUtilAssumption ==
  /\ {PollSlots, PollVoters, PollsPerEpoch} \subseteq Nat \ {0} /\ LastPoll \in Nat
  /\ ShareholdersOf # <<>> /\ \A n \in DOMAIN ShareholdersOf : ShareholdersOf[n] \in Nat \ {0}

VARIABLES
  polls,      \* slot -> [id, active, creator, min]
  voters,     \* slot -> its places, each Nobody or [who, amount, option]
  voterCount, \* voter_counts
  nextPoll, newPolls,   \* current_poll_id, new_polls_this_epoch
  utilFees,
  wealth      \* who -> balance, or the largest number of shares of an asset of the poll

utilOwn  == <<polls, voters, voterCount, nextPoll, newPolls, utilFees, wealth>>
pollBook == <<polls, voters, voterCount, nextPoll, newPolls>>

PollSlot == 0 .. PollSlots - 1
Nobody   == [who |-> "none", amount |-> 0, option |-> 0]
NoPoll   == [id |-> 0, active |-> FALSE, creator |-> "none", min |-> 0]

(***************************************************************************)
(* Polls                                                                   *)
(***************************************************************************)

\* A new poll takes the slot of an older one.
CreatePoll(who, min) ==
  LET slot == nextPoll % PollSlots IN
  /\ newPolls < PollsPerEpoch /\ nextPoll < LastPoll
  /\ polls' = [polls EXCEPT ![slot] = [id |-> nextPoll, active |-> TRUE, creator |-> who, min |-> min]]
  /\ voters' = [voters EXCEPT ![slot] = [n \in 1 .. PollVoters |-> Nobody]]
  /\ voterCount' = [voterCount EXCEPT ![slot] = 0]
  /\ nextPoll' = nextPoll + 1 /\ newPolls' = newPolls + 1
  /\ funds' = Paid(funds + utilFees.create, utilFees.create)
  /\ UNCHANGED <<utilFees, wealth>>

\* The voter's own place or the first free one; 0 when there is none.
PlaceOf(list, who) ==
  LET fits == {n \in DOMAIN list : list[n].who = who \/ list[n] = Nobody}
  IN IF fits = {} THEN 0 ELSE Min(fits)

VotersSwapped(list, i, j) == [list EXCEPT ![i] = list[j], ![j] = list[i]]

\* The last place up to `end`, but not before i, that is taken.
LastTaken(list, i, end) == Max({i} \cup {n \in i .. end : list[n] # Nobody})

\* The loop of Vote from place i on: who does not own the minimum any more loses the vote and
\* the last voter comes to that place; the votes of the others do not exceed what they own.
RECURSIVE VotersCompacted(_, _, _, _)
VotersCompacted(list, i, end, min) ==
  LET without == [list EXCEPT ![i] = Nobody]
      last == LastTaken(without, i, end)
  IN IF i > end THEN list
     ELSE IF list[i] # Nobody /\ wealth[list[i].who] >= min
     THEN VotersCompacted([list EXCEPT ![i].amount = Least(@, wealth[list[i].who])], i + 1, end, min)
     ELSE IF last > i THEN VotersCompacted(VotersSwapped(without, i, last), i, last - 1, min)
     ELSE VotersCompacted(without, i + 1, last, min)

Vote(who, id, amount, option) ==
  LET slot == id % PollSlots
      place == PlaceOf(voters[slot], who)
      count == voterCount[slot] + IF voters[slot][place] = Nobody THEN 1 ELSE 0
      list == VotersCompacted([voters[slot] EXCEPT ![place] = [who |-> who, amount |-> amount, option |-> option]],
                        1, count, polls[slot].min)
  IN /\ polls[slot].id = id /\ polls[slot].active
     /\ wealth[who] >= polls[slot].min /\ wealth[who] >= amount
     /\ place # 0
     /\ voters' = [voters EXCEPT ![slot] = list]
     /\ voterCount' = [voterCount EXCEPT ![slot] =
          Cardinality({n \in 1 .. PollVoters : n <= count /\ list[n] # Nobody})]
     /\ funds' = Paid(funds + utilFees.vote, utilFees.vote)
     /\ UNCHANGED <<polls, nextPoll, newPolls, utilFees, wealth>>

CancelPoll(id) ==
  LET slot == id % PollSlots IN
  /\ polls[slot].id = id /\ polls[slot].active
  /\ polls' = [polls EXCEPT ![slot].active = FALSE]
  /\ funds' = Paid(funds + utilFees.create, utilFees.create)
  /\ UNCHANGED <<voters, voterCount, nextPoll, newPolls, utilFees, wealth>>

\* END_EPOCH, with the fees that the shareholders have accepted.
UtilEndEpoch ==
  /\ polls' = [s \in PollSlot |-> [polls[s] EXCEPT !.active = FALSE]] /\ newPolls' = 0
  /\ utilFees' \in UtilFees
  /\ UNCHANGED <<funds, voters, voterCount, nextPoll, wealth>>

\* Balances and shares change outside of the contract.
WealthChanges(who, n) == wealth' = [wealth EXCEPT ![who] = n] /\ UNCHANGED <<funds, pollBook, utilFees>>

(***************************************************************************)
(* Payments                                                                *)
(***************************************************************************)

\* What comes in with a call, and goes out in payments.
PassedOn(reward, payments) ==
  funds' = PaidInTurn(funds + reward, payments) /\ UNCHANGED <<pollBook, utilFees, wealth>>

\* The reward is exactly what is sent and the fee, or goes back.
SendToManyV1(reward, gifts) ==
  PassedOn(reward, IF reward = FoldLeft(LAMBDA a, b : a + b, utilFees.send, gifts)
                   THEN Append(gifts, utilFees.send) ELSE <<reward>>)

\* One qu each, and the change.
SendToManyBenchmark(reward, transfers) ==
  PassedOn(reward, IF reward < transfers THEN <<reward>>
                   ELSE Append([n \in 1 .. transfers |-> 1], reward - transfers))

BurnQubic(reward, amount) ==
  PassedOn(reward, IF reward < amount THEN <<reward>> ELSE <<reward - amount, amount>>)

DistributeQuToShareholders(reward) ==
  LET total == FoldLeft(LAMBDA a, b : a + b, 0, ShareholdersOf)
      fees == Len(ShareholdersOf) * utilFees.share
      each == IF reward < fees THEN 0 ELSE (reward - fees) \div total
  IN PassedOn(reward,
       IF each = 0 THEN <<reward>>
       ELSE [n \in DOMAIN ShareholdersOf |-> ShareholdersOf[n] * each] \o <<fees, reward - total * each - fees>>)

UtilInit ==
  /\ polls = [s \in PollSlot |-> NoPoll] /\ voters = [s \in PollSlot |-> [n \in 1 .. PollVoters |-> Nobody]]
  /\ voterCount = [s \in PollSlot |-> 0] /\ nextPoll = 0 /\ newPolls = 0
  /\ utilFees = FirstUtilFees /\ wealth = [who \in Account |-> MaxWealth]

UtilNext ==
  \/ \E who \in Account :
       \/ \E min \in PollMinimums : CreatePoll(who, min)
       \/ \E id \in 0 .. LastPoll, amount \in 1 .. MaxWealth, option \in {0, 1} : Vote(who, id, amount, option)
       \/ \E n \in 0 .. MaxWealth : WealthChanges(who, n)
  \/ \E id \in 0 .. LastPoll : CancelPoll(id)
  \/ UtilEndEpoch
  \/ \E reward \in Gifts :
       \/ \E a, b \in Gifts : SendToManyV1(reward, <<a, b>>)
       \/ \E n \in Gifts : SendToManyBenchmark(reward, n) \/ BurnQubic(reward, n)
       \/ DistributeQuToShareholders(reward)

(***************************************************************************)
(* Properties                                                              *)
(***************************************************************************)

\* Whatever comes in with a call has left when the call ends.
NothingKept == funds = 0

\* The voters of a poll stand together at the front of its places, as many as are counted,
\* each of them once.
VotersTogether ==
  \A s \in PollSlot :
    /\ \A n \in 1 .. PollVoters : voters[s][n] # Nobody <=> n <= voterCount[s]
    /\ \A n, m \in 1 .. voterCount[s] : voters[s][n].who = voters[s][m].who => n = m
===============================================================================

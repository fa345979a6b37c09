---------------------------------- MODULE Qearn ----------------------------------
(***************************************************************************)
(* Locking of funds for a round of RoundEpochs epochs.  What a contract     *)
(* owns beyond the rounds that run becomes the bonus of a new one.  The     *)
(* lockers of all rounds share one array, each round a range of it; ranges *)
(* are compacted at the end of an epoch and when the array is full.         *)
(***************************************************************************)
EXTENDS Qpi

CONSTANTS
  RoundEpochs,         \* 52
  FirstEpoch,          \* QEARN_INITIAL_EPOCH
  LastEpoch,           \* bound
  MaxLocks,            \* QEARN_MAX_LOCKS
  LockAmounts,         \* amounts of lock and unlock
  MinLock, MaxLock, MaxBonus,
  RewardPercent(_),    \* QEARN_EARLY_UNLOCKING_PERCENT of the epochs passed
  BurnPercent(_)       \* QEARN_BURN_PERCENT

ASSUME QearnAssumption ==
  /\ {RoundEpochs, FirstEpoch, LastEpoch, MaxLocks, MinLock, MaxLock, MaxBonus} \subseteq Nat
  /\ RoundEpochs > 0 /\ FirstEpoch >= RoundEpochs /\ MinLock > 0
  /\ LockAmounts \subseteq Nat

VARIABLES
  earnEpoch,    \* qpi.epoch()
  earnRunning,  \* between BEGIN_EPOCH and END_EPOCH
  round,        \* _currentRoundInfo
  range,        \* _epochIndex: the slots first .. next - 1
  locker        \* slot -> [owner, amount, epoch]

earnVars == <<earnEpoch, earnRunning, round, range, locker>>

EarnEpoch == 0 .. LastEpoch + 1
LockSlot  == 0 .. MaxLocks - 1
Vacant    == [owner |-> "none", amount |-> 0, epoch |-> 0]

Greatest(a, b) == IF a < b THEN b ELSE a

LockersOf(e, l) == {s \in range[e].first .. range[e].next - 1 : l[s] # Vacant}

(***************************************************************************)
(* Compaction                                                              *)
(***************************************************************************)

\* The lockers of slots st .. en - 1 from st on: the last one fills the first gap.  When a
\* gap remains behind the last one, the range keeps one vacant slot.
Compacted(l, st, en) ==
  LET full == {s \in st .. en - 1 : l[s] # Vacant}
      stop == st + Cardinality(full)
      gaps == st .. stop - 1 \ full
      late == full \ (st .. stop - 1)
      filler(g) == CHOOSE s \in late :
                     Cardinality({h \in gaps : h < g}) = Cardinality({t \in late : t > s})
      limit == IF late = {} THEN en ELSE Min(late)
  IN [locker |-> [s \in LockSlot |->
                    IF s \in gaps THEN l[filler(s)] ELSE IF s \in late THEN Vacant ELSE l[s]],
      stop |-> IF stop < limit THEN stop + 1 ELSE stop]

\* _RemoveGapsInLockerArray: each range begins where the one before it ends.
GapsRemoved(l, r) ==
  LET start == Greatest(earnEpoch - RoundEpochs, FirstEpoch)
      after[e \in start - 1 .. earnEpoch] ==
        IF e < start THEN [locker |-> l, range |-> r, stop |-> 0]
        ELSE LET p == after[e - 1]
                 c == Compacted(p.locker, p.stop, r[e].next)
             IN [locker |-> c.locker, stop |-> c.stop,
                 range |-> [p.range EXCEPT ![e] = [first |-> p.stop, next |-> c.stop]]]
      done == after[earnEpoch]
  IN [done EXCEPT !.range[earnEpoch + 1] = [first |-> done.stop, next |-> done.stop]]

(***************************************************************************)
(* Procedures                                                              *)
(***************************************************************************)

Owned(u, e) == {s \in LockersOf(e, locker) : locker[s].owner = u}

Lock ==
  \E u \in Account, n \in LockAmounts :
    LET e == earnEpoch IN
    /\ earnRunning /\ n >= MinLock
    /\ IF Owned(u, e) # {}
       THEN LET s == Min(Owned(u, e)) IN
            /\ locker[s].amount + n <= MaxLock
            /\ locker' = [locker EXCEPT ![s].amount = @ + n]
            /\ round' = [round EXCEPT ![e].locked = @ + n]
            /\ funds' = funds + n
            /\ UNCHANGED range
       ELSE LET full == range[e].next >= MaxLocks - 1
                g == IF full THEN GapsRemoved(locker, range)
                     ELSE [locker |-> locker, range |-> range]
                s == g.range[e].next
            IN IF s >= MaxLocks - 1 \/ n > MaxLock
               THEN /\ locker' = g.locker /\ range' = g.range
                    /\ UNCHANGED <<round, funds>>
               ELSE /\ locker' = [g.locker EXCEPT ![s] = [owner |-> u, amount |-> n, epoch |-> e]]
                    /\ range' = [g.range EXCEPT ![e].next = s + 1]
                    /\ round' = [round EXCEPT ![e].locked = @ + n]
                    /\ funds' = funds + n
    /\ Bounded
    /\ UNCHANGED <<earnEpoch, earnRunning>>

Scale == 10000000

\* The bonus that belongs to n of the locked amount, in hundredths of the scale, and percents
\* of it.
BonusPart(r, n) == IF r.locked = 0 THEN 0 ELSE (((r.bonus * Scale) \div r.locked) * n) \div 100
PercentOf(part, percent) == (part * percent) \div Scale

\* An epoch that has just begun counts no passed epochs: no reward, nothing is burned.
PassedEpochs(e) == earnEpoch - e - 1

\* Mutant: what is burned stays in the bonus of the round.
UnlockKeepingBurned ==
  \E u \in Account, n \in LockAmounts, e \in FirstEpoch .. earnEpoch :
    /\ earnRunning /\ n >= MinLock
    /\ Owned(u, e) # {}
    /\ LET s == Min(Owned(u, e))
           own == locker[s].amount
           out == IF own - n < MinLock THEN own ELSE n
           part == BonusPart(round[e], out)
           reward == IF e = earnEpoch THEN 0 ELSE PercentOf(part, RewardPercent(PassedEpochs(e)))
           burned == IF e = earnEpoch THEN 0 ELSE PercentOf(part, BurnPercent(PassedEpochs(e)))
           left == [locked |-> round[e].locked - out, bonus |-> round[e].bonus - reward]
       IN /\ own >= n
          /\ locker' = [locker EXCEPT ![s] = IF own = out THEN Vacant ELSE [@ EXCEPT !.amount = own - out]]
          /\ round' = [round EXCEPT ![e] = left]
          /\ funds' = Paid(Paid(funds, out + reward), burned)
    /\ UNCHANGED <<earnEpoch, earnRunning, range>>

\* What would be left below the minimum is unlocked too.  When nobody is left in a round, its
\* bonus is burned.
Unlock ==
  \E u \in Account, n \in LockAmounts, e \in FirstEpoch .. earnEpoch :
    /\ earnRunning /\ n >= MinLock
    /\ Owned(u, e) # {}
    /\ LET s == Min(Owned(u, e))
           own == locker[s].amount
           out == IF own - n < MinLock THEN own ELSE n
           part == BonusPart(round[e], out)
           reward == IF e = earnEpoch THEN 0 ELSE PercentOf(part, RewardPercent(PassedEpochs(e)))
           burned == IF e = earnEpoch THEN 0 ELSE PercentOf(part, BurnPercent(PassedEpochs(e)))
           left == [locked |-> round[e].locked - out, bonus |-> round[e].bonus - reward - burned]
           over == left.locked = 0 /\ e # earnEpoch
       IN /\ own >= n
          /\ locker' = [locker EXCEPT ![s] = IF own = out THEN Vacant ELSE [@ EXCEPT !.amount = own - out]]
          /\ round' = [round EXCEPT ![e] = IF over THEN [locked |-> 0, bonus |-> 0] ELSE left]
          /\ LET paid == Paid(Paid(funds, out + reward), burned)
             IN funds' = IF over THEN Paid(paid, left.bonus) ELSE paid
    /\ UNCHANGED <<earnEpoch, earnRunning, range>>

\* A transfer to the contract feeds the bonus of the next epoch.
EarnIncomingTransfer ==
  /\ funds' = funds + 1
  /\ Bounded
  /\ UNCHANGED earnVars

Claims(e) == round[e].locked + round[e].bonus

EarnBeginEpoch ==
  /\ ~earnRunning
  /\ LET free == funds - SumOf(earnEpoch - RoundEpochs .. earnEpoch - 1, Claims)
         bonus == Least(free, MaxBonus)
     IN /\ round' = [round EXCEPT ![earnEpoch] = [locked |-> 0, bonus |-> bonus]]
        /\ funds' = Paid(funds, free - bonus)
  /\ earnRunning' = TRUE
  /\ UNCHANGED <<earnEpoch, range, locker>>

\* The round that began RoundEpochs ago is paid; its record of amounts stays.
EarnEndEpoch ==
  LET e == earnEpoch - RoundEpochs
      rate == IF round[e].locked = 0 THEN 0 ELSE (round[e].bonus * Scale) \div round[e].locked
      reward(s) == (locker[s].amount * rate) \div Scale
      rewards == SumOf(LockersOf(e, locker), reward)
      g == GapsRemoved([s \in LockSlot |-> IF s \in LockersOf(e, locker) THEN Vacant ELSE locker[s]],
                       [range EXCEPT ![e] = [first |-> 0, next |-> 0]])
  IN
  /\ earnRunning /\ earnEpoch < LastEpoch
  /\ funds' = Paid(Paid(funds, rewards + SumOf(LockersOf(e, locker), LAMBDA s : locker[s].amount)),
                   round[e].bonus - rewards)
  /\ locker' = g.locker /\ range' = g.range
  /\ earnEpoch' = earnEpoch + 1
  /\ earnRunning' = FALSE
  /\ UNCHANGED round

EarnInit ==
  /\ funds = 0
  /\ earnEpoch = FirstEpoch /\ earnRunning = FALSE
  /\ round = [e \in EarnEpoch |-> [locked |-> 0, bonus |-> 0]]
  /\ range = [e \in EarnEpoch |-> [first |-> 0, next |-> 0]]
  /\ locker = [s \in LockSlot |-> Vacant]

EarnNext ==
  Lock \/ Unlock \/ EarnIncomingTransfer \/ EarnBeginEpoch \/ EarnEndEpoch

EarnSpec == EarnInit /\ [][EarnNext]_<<funds, earnVars>>

(***************************************************************************)
(* Properties                                                              *)
(***************************************************************************)

\* The rounds that still have to be paid.
OpenRounds ==
  IF earnRunning THEN earnEpoch - RoundEpochs .. earnEpoch
  ELSE earnEpoch - RoundEpochs .. earnEpoch - 1

\* The balance covers what is locked in the open rounds and their bonuses.
EarnSolvent == funds >= SumOf(OpenRounds, Claims)

\* The lockers of an open round are in its range and nowhere else, one for each owner; they
\* add up to its locked amount; and ranges follow one another in the array.
LockersInRange ==
  /\ \A s \in LockSlot : locker[s] # Vacant =>
       /\ locker[s].epoch \in OpenRounds
       /\ \A e \in OpenRounds : s \in LockersOf(e, locker) <=> e = locker[s].epoch
  /\ \A e \in OpenRounds :
       /\ round[e].locked = SumOf(LockersOf(e, locker), LAMBDA s : locker[s].amount)
       /\ \A s, t \in LockersOf(e, locker) : locker[s].owner = locker[t].owner => s = t
       /\ range[e].first <= range[e].next
       /\ e + 1 \in OpenRounds => range[e].next <= range[e + 1].first
===============================================================================

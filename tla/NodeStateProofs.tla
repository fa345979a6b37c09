---------------------------- MODULE NodeStateProofs ----------------------------
(***************************************************************************)
(* Proofs about the accounts of an epoch.  Votes, shares of custom mining  *)
(* and execution fees are counted once and for what was reported, whatever *)
(* faulty leaders report; and an epoch issues its rate or nothing.  With   *)
(* the ranking of miners (TablesProofs), they hold of every run of         *)
(* MCNodeState.                                                            *)
(***************************************************************************)
EXTENDS MCNodeState, TablesProofs, SumTheorems, TLAPS

-----------------------------------------------------------------------------
(***************************************************************************)
(* Division and ticks                                                      *)
(***************************************************************************)

\* The next number has the next remainder, and the same quotient unless the remainder was the last.
LEMMA NextNumber ==
  ASSUME NEW n \in Nat \ {0}, NEW a \in Int
  PROVE  /\ a % n = n - 1 => (a + 1) % n = 0 /\ (a + 1) \div n = (a \div n) + 1
         /\ a % n # n - 1 => (a + 1) % n = (a % n) + 1 /\ (a + 1) \div n = a \div n
<1> DEFINE p == a \div n
           s == a % n
<1>1. p \in Int /\ s \in 0 .. n - 1 /\ a = n * p + s
  BY Divided
<1> HIDE DEF p, s
<1>2. ASSUME s = n - 1 PROVE (a + 1) % n = 0 /\ (a + 1) \div n = p + 1
  <2>1. n * (p + 1) = n * p + n /\ n * p \in Int
    BY <1>1
  <2>2. a + 1 = n * (p + 1) + 0 /\ p + 1 \in Int /\ 0 \in 0 .. n - 1 /\ a + 1 \in Int
    BY <1>1, <1>2, <2>1
  <2>3. \A q \in Int : \A r \in 0 .. n - 1 : \A b \in Int :
          b = n * q + r => b \div n = q /\ b % n = r
    BY Quotient
  <2> QED
    BY <2>2, <2>3
<1>3. ASSUME s # n - 1 PROVE (a + 1) % n = s + 1 /\ (a + 1) \div n = p
  <2>1. a + 1 = n * p + (s + 1) /\ s + 1 \in 0 .. n - 1 /\ a + 1 \in Int
    BY <1>1, <1>3
  <2> QED
    BY <1>1, <2>1, Quotient
<1> QED
  BY <1>2, <1>3, Zenon DEF p, s

\* Among n numbers in a row no two have the same remainder, the next one has that of the first,
\* and each remainder occurs.
LEMMA Remainders ==
  ASSUME NEW n \in Nat \ {0}, NEW a \in Int
  PROVE  /\ \A b \in a + 1 .. a + n - 1 : a % n # b % n
         /\ (a + n) % n = a % n
         /\ \A r \in 0 .. n - 1 : \E b \in a .. a + n - 1 : b % n = r
<1> DEFINE p == a \div n
           s == a % n
<1>1. p \in Int /\ s \in 0 .. n - 1 /\ a = n * p + s /\ n * p \in Int /\ n * (p + 1) = n * p + n
  BY Divided
<1>2. ASSUME NEW b \in a + 1 .. a + n - 1, b % n = s PROVE FALSE
  <2> DEFINE q == b \div n
  <2>1. q \in Int /\ b = n * q + s
    BY <1>2, Divided
  <2> HIDE DEF p, q, s
  <2>2. n * (q - p) = n * q - n * p /\ n * q \in Int /\ q - p \in Int
    BY <1>1, <2>1
  <2>3. n * (q - p) \in 1 .. n - 1
    BY <1>1, <2>1, <2>2
  <2>4. q - p >= 1 => n * (q - p) >= n
    BY <2>2, Multiples
  <2>5. q - p <= -1 => n * (q - p) <= -n
    BY <2>2, Multiples
  <2>6. q - p = 0 => n * (q - p) = 0
    BY <2>2
  <2> QED
    BY <2>2, <2>3, <2>4, <2>5, <2>6
<1> HIDE DEF p, s
<1>3. (a + n) % n = s
  <2>1. a + n = n * (p + 1) + s /\ a + n \in Int /\ p + 1 \in Int
    BY <1>1
  <2> QED
    BY <1>1, <2>1, Quotient
<1>4. ASSUME NEW r \in 0 .. n - 1 PROVE \E b \in a .. a + n - 1 : b % n = r
  <2>1. CASE r >= s
    <3>1. a + (r - s) = n * p + r /\ a + (r - s) \in a .. a + n - 1
      BY <1>1, <2>1
    <3>2. (a + (r - s)) % n = r
      BY <1>1, <3>1, Quotient
    <3> QED
      BY <3>1, <3>2
  <2>2. CASE r < s
    <3>1. a + (r + n - s) = n * (p + 1) + r /\ a + (r + n - s) \in a .. a + n - 1 /\ p + 1 \in Int
      BY <1>1, <2>2
    <3>2. (a + (r + n - s)) % n = r
      BY <1>1, <3>1, Quotient
    <3> QED
      BY <3>1, <3>2
  <2> QED
    BY <1>1, <2>1, <2>2
<1> QED
  BY <1>2, <1>3, <1>4 DEF s

-----------------------------------------------------------------------------
(***************************************************************************)
(* Votes                                                                   *)
(***************************************************************************)

\* The facts about the ticks of leaders and the slots of the ring that a step needs.
LEMMA LeadersTicks ==
  ASSUME NEW t \in Nat
  PROVE  /\ LeaderOf(t) \in ComputorIndex
         /\ \A u \in t + 1 .. t + NumberOfComputors - 1 : LeaderOf(u) # LeaderOf(t)
         /\ LeaderOf(t + 1) # LeaderOf(t)
         /\ LeaderOf(t + NumberOfComputors) = LeaderOf(t)
         /\ \A c \in ComputorIndex : \E u \in t .. t + NumberOfComputors - 1 : LeaderOf(u) = c
<1>1. NumberOfComputors \in Nat \ {0} /\ NumberOfComputors >= 2
  BY AccountingAssumption
<1>2. t + 1 \in t + 1 .. t + NumberOfComputors - 1
  BY <1>1
<1>3. t % NumberOfComputors \in 0 .. NumberOfComputors - 1
  BY <1>1, Divided
<1> DEFINE n == NumberOfComputors
<1>4. /\ \A u \in t + 1 .. t + n - 1 : t % n # u % n
      /\ (t + n) % n = t % n
      /\ \A r \in 0 .. n - 1 : \E u \in t .. t + n - 1 : u % n = r
  <2>1. t \in Int
    OBVIOUS
  <2> QED
    BY <1>1, <2>1, Remainders, Zenon
<1>5. t % n # (t + 1) % n
  BY <1>2, <1>4
<1> QED
  BY <1>3, <1>4, <1>5, Zenon DEF LeaderOf, ComputorIndex

\* Ticks that are less than the length of the ring apart have different slots.
LEMMA SlotsApart ==
  ASSUME NEW t \in Nat
  PROVE  /\ VoteSlot(t) \in 0 .. 2 * NumberOfComputors - 1
         /\ \A u \in t - (2 * NumberOfComputors - 1) .. t - 1 : u >= 0 => VoteSlot(u) # VoteSlot(t)
<1> DEFINE n == 2 * NumberOfComputors
<1>1. n \in Nat \ {0}
  BY AccountingAssumption
<1> HIDE DEF n
<1>2. t % n \in 0 .. n - 1
  BY <1>1, Divided
<1>3. ASSUME NEW u \in t - (n - 1) .. t - 1 PROVE u % n # t % n
  <2>1. u \in Int /\ t \in u + 1 .. u + n - 1
    BY <1>1
  <2> QED
    BY <1>1, <2>1, Remainders
<1> QED
  BY <1>2, <1>3 DEF VoteSlot, n

\* What the node reports of the votes is what is in the ring and was not reported.
LEMMA PacketIsUnreported ==
  ASSUME VoteInv, NEW leader \in ComputorIndex
  PROVE  \A c \in ComputorIndex \ {leader} :
           NewVotesPacket(leader, voteTick)[c]
             = Cardinality(Unreported(c, voteTick - (NumberOfComputors - 1)))
<1> SUFFICES ASSUME NEW c \in ComputorIndex \ {leader}
             PROVE  {t \in VoteWindow(voteTick) : voteRing[VoteSlot(t)][c] = t}
                      = Unreported(c, voteTick - (NumberOfComputors - 1))
  BY DEF NewVotesPacket
<1>1. voteTick \in Nat /\ NumberOfComputors \in Nat \ {0, 1}
  BY AccountingAssumption DEF VoteInv, VoteTypeOK
<1>2. voteRing[VoteSlot(voteTick)][c] < voteTick
  <2>1. DOMAIN voteRing = 0 .. 2 * NumberOfComputors - 1
    BY DEF VoteInv, VoteTypeOK
  <2> QED
    BY <1>1, <2>1, SlotsApart DEF VoteInv
<1>3. voteRing[VoteSlot(voteTick)][c] # voteTick
  <2>1. voteRing[VoteSlot(voteTick)][c] \in Nat
    BY <1>1, SlotsApart DEF VoteInv, VoteTypeOK
  <2> QED
    BY <1>1, <1>2, <2>1
<1> DEFINE low == voteTick - (NumberOfComputors - 1)
<1>4. low \in Int /\ low <= voteTick
  BY <1>1
<1>5. VoteWindow(voteTick) = low .. voteTick
  BY DEF VoteWindow
<1> HIDE DEF low
<1>6. \A t : t \in low .. voteTick <=> t \in low .. voteTick - 1 \/ t = voteTick
  BY <1>1, <1>4
<1> QED
  BY <1>3, <1>5, <1>6 DEF Unreported, low

\* The packets of the window are numbers.
LEMMA PacketTyped ==
  ASSUME VoteInv, NEW leader \in ComputorIndex
  PROVE  \A packet \in VotesSent(leader, voteTick) : packet \in [ComputorIndex -> Nat]
<1>1. NumberOfComputors \in Nat \ {0, 1} /\ voteTick \in Nat
  BY AccountingAssumption DEF VoteInv, VoteTypeOK
<1>2. NewVotesPacket(leader, voteTick) \in [ComputorIndex -> Nat]
  <2>1. \A c \in ComputorIndex :
          Cardinality({t \in VoteWindow(voteTick) : voteRing[VoteSlot(t)][c] = t}) \in Nat
    <3>1. IsFiniteSet(VoteWindow(voteTick))
      BY <1>1, FS_Interval DEF VoteWindow
    <3>2. \A c : IsFiniteSet({t \in VoteWindow(voteTick) : voteRing[VoteSlot(t)][c] = t})
      BY <3>1, FS_Subset
    <3> QED
      BY <3>2, FS_CardinalityType
  <2> QED
    BY <2>1 DEF NewVotesPacket
<1>3. \A packet \in FaultyVotes(leader) : packet \in [ComputorIndex -> Nat]
  BY <1>1 DEF FaultyVotes
<1> QED
  BY <1>2, <1>3 DEF VotesSent

\* The votes that a leader has not reported after a tick: those before, and the one of the tick.
LEMMA UnreportedGrows ==
  ASSUME VoteInv, CountVotes, NEW c \in ComputorIndex, NEW low \in Int,
         low >= voteTick - (NumberOfComputors - 1)
  PROVE  /\ Cardinality(Unreported(c, low)) \in Nat /\ Cardinality(Unreported(c, low)') \in Nat
         /\ castVotes[c] \in Nat /\ castVotes'[c] \in Nat /\ castVotes'[c] >= castVotes[c]
         /\ Cardinality(Unreported(c, low)') - Cardinality(Unreported(c, low))
              <= castVotes'[c] - castVotes[c]
         /\ low = voteTick + 1 => Cardinality(Unreported(c, low)') = 0
<1>1. /\ voteTick \in Nat /\ NumberOfComputors \in Nat \ {0, 1} /\ voteTick' = voteTick + 1
      /\ castVotes \in [ComputorIndex -> Nat] /\ voteTick >= 2 * NumberOfComputors
      /\ voteRing \in [0 .. 2 * NumberOfComputors - 1 -> [ComputorIndex -> Nat]]
  <2>1. /\ voteTick' = voteTick + 1 /\ castVotes \in [ComputorIndex -> Nat]
        /\ voteRing \in [0 .. 2 * NumberOfComputors - 1 -> [ComputorIndex -> Nat]]
    BY DEF VoteInv, VoteTypeOK, CountVotes
  <2>2. voteTick \in FirstVoteTick .. LastVoteTick
    BY DEF VoteInv, VoteTypeOK
  <2>3. /\ FirstVoteTick \in Nat /\ LastVoteTick \in Nat /\ FirstVoteTick >= 2 * NumberOfComputors
        /\ NumberOfComputors \in Nat \ {0, 1}
    BY AccountingAssumption
  <2> QED
    BY <2>1, <2>2, <2>3
<1>2. PICK missing \in {{}, {NumberOfComputors - 1}} :
        /\ voteRing' = [voteRing EXCEPT ![VoteSlot(voteTick)] =
                          [d \in ComputorIndex |-> IF d \in missing THEN @[d] ELSE voteTick]]
        /\ castVotes' = [d \in ComputorIndex |-> castVotes[d] + IF d \in missing THEN 0 ELSE 1]
  BY DEF CountVotes
<1> DEFINE slot == VoteSlot(voteTick)
           old == Unreported(c, low)
           new == Unreported(c, low)'
<1>3. slot \in 0 .. 2 * NumberOfComputors - 1
  BY <1>1, SlotsApart
<1>4. /\ voteRing'[slot][c] = IF c \in missing THEN voteRing[slot][c] ELSE voteTick
      /\ \A s \in 0 .. 2 * NumberOfComputors - 1 : s # slot => voteRing'[s] = voteRing[s]
  BY <1>1, <1>2, <1>3
<1>5. castVotes'[c] = castVotes[c] + IF c \in missing THEN 0 ELSE 1
  BY <1>2
<1>6. voteRing[slot][c] # voteTick
  <2>1. voteRing[slot][c] < voteTick /\ voteRing[slot][c] \in Nat
    BY <1>1, <1>3 DEF VoteInv
  <2> QED
    BY <1>1, <2>1
<1>7. \A t \in low .. voteTick - 1 : VoteSlot(t) # slot /\ VoteSlot(t) \in 0 .. 2 * NumberOfComputors - 1
  <2> SUFFICES ASSUME NEW t \in low .. voteTick - 1
               PROVE  VoteSlot(t) # slot /\ VoteSlot(t) \in 0 .. 2 * NumberOfComputors - 1
    OBVIOUS
  <2>1. t \in voteTick - (2 * NumberOfComputors - 1) .. voteTick - 1 /\ t \in Nat
    BY <1>1
  <2>2. /\ \A u \in voteTick - (2 * NumberOfComputors - 1) .. voteTick - 1 :
             u >= 0 => VoteSlot(u) # VoteSlot(voteTick)
        /\ VoteSlot(t) \in 0 .. 2 * NumberOfComputors - 1
    BY <1>1, <2>1, SlotsApart
  <2> QED
    BY <2>1, <2>2
<1>8. old = {t \in low .. voteTick - 1 : voteRing[VoteSlot(t)][c] = t}
  BY DEF Unreported
<1>9. new = {t \in low .. voteTick : voteRing'[VoteSlot(t)][c] = t}
  <2>1. voteTick' - 1 = voteTick
    BY <1>1
  <2> QED
    BY <2>1 DEF Unreported, VoteSlot
<1> HIDE DEF old, new
<1>10. new = {t \in low .. voteTick - 1 : voteRing'[VoteSlot(t)][c] = t}
             \cup {t \in {voteTick} : low <= voteTick /\ voteRing'[slot][c] = voteTick}
  <2>1. \A t : t \in low .. voteTick <=> t \in low .. voteTick - 1 \/ (t = voteTick /\ low <= voteTick)
    BY <1>1
  <2> QED
    BY <1>9, <2>1 DEF slot
<1>11. {t \in low .. voteTick - 1 : voteRing'[VoteSlot(t)][c] = t} = old
  BY <1>4, <1>7, <1>8
<1> HIDE DEF slot
<1>12. IsFiniteSet(old) /\ voteTick \notin old
  <2>1. IsFiniteSet(low .. voteTick - 1)
    BY <1>1, FS_Interval
  <2>2. old \subseteq low .. voteTick - 1
    BY <1>8
  <2>3. IsFiniteSet(old)
    BY <2>1, <2>2, FS_Subset
  <2>4. voteTick \notin low .. voteTick - 1
    BY <1>1
  <2> QED
    BY <2>2, <2>3, <2>4
<1>13. Cardinality(old) \in Nat
  BY <1>12, FS_CardinalityType
<1>14. IsFiniteSet(old \cup {voteTick}) /\ Cardinality(old \cup {voteTick}) = Cardinality(old) + 1
  BY <1>12, FS_AddElement
<1>15. new = old \/ (c \notin missing /\ new = old \cup {voteTick})
  BY <1>4, <1>6, <1>10, <1>11
<1>16. low = voteTick + 1 => new = {}
  BY <1>1, <1>9
<1>17. Cardinality({}) = 0
  BY FS_EmptySet
<1>18. castVotes[c] \in Nat
  BY <1>1
<1>19. /\ Cardinality(new) \in Nat
       /\ low = voteTick + 1 => Cardinality(new) = 0
       /\ Cardinality(new) <= Cardinality(old) + IF c \in missing THEN 0 ELSE 1
  <2>1. CASE new = old
    BY <1>13, <1>16, <1>17, <2>1
  <2>2. CASE c \notin missing /\ new = old \cup {voteTick}
    BY <1>13, <1>14, <1>16, <1>17, <2>2
  <2> QED
    BY <1>15, <2>1, <2>2
<1>20. /\ castVotes'[c] \in Nat /\ castVotes'[c] >= castVotes[c]
       /\ Cardinality(new) - Cardinality(old) <= castVotes'[c] - castVotes[c]
  BY <1>5, <1>13, <1>18, <1>19
<1> QED
  BY <1>13, <1>18, <1>19, <1>20 DEF old, new

\* Where the packet of the leader goes: into the count or nowhere.
LEMMA PacketCounted ==
  ASSUME VoteInv, CountVotes
  PROVE  \A leader, c \in ComputorIndex :
           \/ accumulatedVoteCount'[leader][c] = accumulatedVoteCount[leader][c]
           \/ /\ leader = LeaderOf(voteTick)
              /\ accumulatedVoteCount'[leader][c] = accumulatedVoteCount[leader][c] + voteTxs[voteTick][c]
              /\ voteTxs[voteTick][c] <= NumberOfComputors
              /\ leader = c => voteTxs[voteTick][c] = 0
<1>1. accumulatedVoteCount \in [ComputorIndex -> [ComputorIndex -> Nat]]
  BY DEF VoteInv, VoteTypeOK
<1>2. PICK included \in BOOLEAN :
        accumulatedVoteCount' =
          IF included /\ ValidVotesPacket(voteTxs[voteTick], LeaderOf(voteTick))
          THEN [accumulatedVoteCount EXCEPT ![LeaderOf(voteTick)] = Plus(@, voteTxs[voteTick])]
          ELSE accumulatedVoteCount
  BY DEF CountVotes
<1>3. CASE included /\ ValidVotesPacket(voteTxs[voteTick], LeaderOf(voteTick))
  BY <1>1, <1>2, <1>3 DEF ValidVotesPacket, Plus
<1>4. CASE ~(included /\ ValidVotesPacket(voteTxs[voteTick], LeaderOf(voteTick)))
  BY <1>2, <1>4
<1> QED
  BY <1>3, <1>4

\* The packets of this tick and the next are there.
LEMMA PacketsThere ==
  ASSUME VoteInv
  PROVE  /\ voteTick \in Nat
         /\ voteTxs[voteTick] \in [ComputorIndex -> Nat]
         /\ voteTxs[voteTick + 1] \in [ComputorIndex -> Nat]
<1>1. voteTxs \in [FirstVoteTick .. LastVoteTick + 2 -> [ComputorIndex -> Nat]]
  BY DEF VoteInv, VoteTypeOK, PublicationOffset2
<1>2. voteTick \in FirstVoteTick .. LastVoteTick
  BY DEF VoteInv, VoteTypeOK
<1>3. FirstVoteTick \in Nat /\ LastVoteTick \in Nat
  BY AccountingAssumption
<1>4. /\ voteTick \in Nat
      /\ voteTick \in FirstVoteTick .. LastVoteTick + 2
      /\ voteTick + 1 \in FirstVoteTick .. LastVoteTick + 2
  BY <1>2, <1>3
<1> QED
  BY <1>1, <1>4

\* The types of the votes.
LEMMA VoteTypes ==
  ASSUME VoteInv, CountVotes
  PROVE  /\ VoteTypeOK'
         /\ \A slot \in DOMAIN voteRing', c \in ComputorIndex : voteRing'[slot][c] < voteTick'
<1>1. /\ voteTick \in FirstVoteTick .. LastVoteTick /\ voteTick < LastVoteTick
      /\ voteTick' = voteTick + 1 /\ voteTick \in Nat
      /\ FirstVoteTick \in Nat /\ LastVoteTick \in Nat
  BY AccountingAssumption DEF VoteInv, VoteTypeOK, CountVotes
<1>2. accumulatedVoteCount' \in [ComputorIndex -> [ComputorIndex -> Nat]]
  <2>1. /\ accumulatedVoteCount \in [ComputorIndex -> [ComputorIndex -> Nat]]
        /\ voteTxs[voteTick] \in [ComputorIndex -> Nat]
    BY PacketsThere DEF VoteInv, VoteTypeOK
  <2>2. Plus(accumulatedVoteCount[LeaderOf(voteTick)], voteTxs[voteTick]) \in [ComputorIndex -> Nat]
    <3>1. accumulatedVoteCount[LeaderOf(voteTick)] \in [ComputorIndex -> Nat]
      BY <1>1, <2>1, LeadersTicks
    <3>2. \A c \in ComputorIndex :
            accumulatedVoteCount[LeaderOf(voteTick)][c] + voteTxs[voteTick][c] \in Nat
      BY <2>1, <3>1
    <3> QED
      BY <3>2 DEF Plus
  <2> QED
    BY <2>1, <2>2 DEF CountVotes
<1>3. voteTxs' \in [FirstVoteTick .. LastVoteTick + PublicationOffset2 -> [ComputorIndex -> Nat]]
  <2>1. PICK packet \in VotesSent(LeaderOf(voteTick + PublicationOffset2), voteTick) :
          voteTxs' = [voteTxs EXCEPT ![voteTick + PublicationOffset2] = packet, ![voteTick] = NoReport]
    BY DEF CountVotes
  <2>2. LeaderOf(voteTick + PublicationOffset2) \in ComputorIndex
    BY <1>1, LeadersTicks DEF PublicationOffset2
  <2>3. packet \in [ComputorIndex -> Nat] /\ NoReport \in [ComputorIndex -> Nat]
    BY <2>2, PacketTyped DEF NoReport
  <2> QED
    BY <2>1, <2>3 DEF VoteInv, VoteTypeOK
<1>4. /\ voteRing' \in [0 .. 2 * NumberOfComputors - 1 -> [ComputorIndex -> Nat]]
      /\ castVotes' \in [ComputorIndex -> Nat]
      /\ \A slot \in 0 .. 2 * NumberOfComputors - 1, c \in ComputorIndex : voteRing'[slot][c] < voteTick'
  <2>1. PICK missing \in {{}, {NumberOfComputors - 1}} :
          /\ voteRing' = [voteRing EXCEPT ![VoteSlot(voteTick)] =
                            [d \in ComputorIndex |-> IF d \in missing THEN @[d] ELSE voteTick]]
          /\ castVotes' = [d \in ComputorIndex |-> castVotes[d] + IF d \in missing THEN 0 ELSE 1]
    BY DEF CountVotes
  <2>2. /\ voteRing \in [0 .. 2 * NumberOfComputors - 1 -> [ComputorIndex -> Nat]]
        /\ castVotes \in [ComputorIndex -> Nat]
        /\ \A slot \in 0 .. 2 * NumberOfComputors - 1, c \in ComputorIndex : voteRing[slot][c] < voteTick
    BY DEF VoteInv, VoteTypeOK
  <2>3. VoteSlot(voteTick) \in 0 .. 2 * NumberOfComputors - 1
    BY <1>1, SlotsApart
  <2> DEFINE cast == [d \in ComputorIndex |->
                        IF d \in missing THEN voteRing[VoteSlot(voteTick)][d] ELSE voteTick]
  <2>4. cast \in [ComputorIndex -> Nat] /\ \A c \in ComputorIndex : cast[c] < voteTick'
    BY <1>1, <2>2, <2>3
  <2>5. voteRing' = [voteRing EXCEPT ![VoteSlot(voteTick)] = cast]
    BY <2>1, <2>2, <2>3
  <2> HIDE DEF cast
  <2>6. voteRing' \in [0 .. 2 * NumberOfComputors - 1 -> [ComputorIndex -> Nat]]
    BY <2>2, <2>4, <2>5
  <2>7. ASSUME NEW slot \in 0 .. 2 * NumberOfComputors - 1, NEW c \in ComputorIndex
        PROVE  voteRing'[slot][c] < voteTick'
    <3>1. voteRing'[slot] = IF slot = VoteSlot(voteTick) THEN cast ELSE voteRing[slot]
      BY <2>2, <2>5
    <3>2. voteRing[slot][c] < voteTick /\ voteRing[slot][c] \in Nat
      BY <2>2
    <3> QED
      BY <1>1, <2>4, <3>1, <3>2
  <2>8. castVotes' \in [ComputorIndex -> Nat]
    BY <2>1, <2>2
  <2> QED
    BY <2>6, <2>7, <2>8
<1> QED
  BY <1>1, <1>2, <1>3, <1>4 DEF VoteTypeOK

\* What is on the way to an honest leader after a tick.
LEMMA OnTheWayAfter ==
  ASSUME VoteInv, CountVotes, NEW leader \in ComputorIndex, NEW c \in ComputorIndex,
         NEW count \in OnTheWay(leader, c)'
  PROVE  \/ leader = LeaderOf(voteTick + 1) /\ count = voteTxs[voteTick + 1][c]
         \/ /\ leader = LeaderOf(voteTick + PublicationOffset2)
            /\ \E packet \in VotesSent(leader, voteTick) : count = packet[c]
<1>1. /\ voteTick \in FirstVoteTick .. LastVoteTick /\ voteTick < LastVoteTick
      /\ voteTick' = voteTick + 1 /\ voteTick \in Nat
      /\ FirstVoteTick \in Nat /\ LastVoteTick \in Nat
  BY AccountingAssumption DEF VoteInv, VoteTypeOK, CountVotes
<1>2. PICK packet \in VotesSent(LeaderOf(voteTick + PublicationOffset2), voteTick) :
        voteTxs' = [voteTxs EXCEPT ![voteTick + PublicationOffset2] = packet, ![voteTick] = NoReport]
  BY DEF CountVotes
<1>3. DOMAIN voteTxs = FirstVoteTick .. LastVoteTick + 2
  BY DEF VoteInv, VoteTypeOK, PublicationOffset2
<1>4. voteTxs'[voteTick + 1] = voteTxs[voteTick + 1] /\ voteTxs'[voteTick + 2] = packet
  <2>1. voteTick + 1 \in DOMAIN voteTxs /\ voteTick + 2 \in DOMAIN voteTxs
    BY <1>1, <1>3
  <2>2. voteTick + 1 # voteTick /\ voteTick + 1 # voteTick + 2 /\ voteTick + 2 # voteTick
    BY <1>1
  <2> QED
    BY <1>2, <2>1, <2>2 DEF PublicationOffset2
<1>5. PICK t \in voteTick' .. voteTick' + 1 : LeaderOf(t) = leader /\ count = voteTxs'[t][c]
  BY DEF OnTheWay, LeaderOf
<1>6. t = voteTick + 1 \/ t = voteTick + 2
  BY <1>1
<1> QED
  BY <1>2, <1>4, <1>5, <1>6 DEF PublicationOffset2

\* What an honest leader has counted, has published and has not reported stay different votes.
LEMMA HonestCountsKept ==
  ASSUME VoteInv, CountVotes,
         NEW leader \in ComputorIndex \ FaultyLeader, NEW c \in ComputorIndex \ {leader},
         NEW next \in voteTick + 1 .. voteTick + NumberOfComputors,
         LeaderOf(next + PublicationOffset2) = leader,
         NEW count \in OnTheWay(leader, c)' \cup {0}
  PROVE  accumulatedVoteCount'[leader][c] + count
           + Cardinality(Unreported(c, next - (NumberOfComputors - 1))') <= castVotes'[c]
<1>1. /\ voteTick \in Nat /\ NumberOfComputors \in Nat \ {0, 1} /\ voteTick' = voteTick + 1
      /\ voteTick \in FirstVoteTick .. LastVoteTick /\ voteTick < LastVoteTick
  BY AccountingAssumption DEF VoteInv, VoteTypeOK, CountVotes
<1> DEFINE low == next - (NumberOfComputors - 1)
           acc == accumulatedVoteCount[leader][c]
           now == voteTxs[voteTick][c]
           coming == voteTxs[voteTick + 1][c]
<1>2. acc \in Nat /\ now \in Nat /\ coming \in Nat
  <2>1. accumulatedVoteCount[leader][c] \in Nat
    BY DEF VoteInv, VoteTypeOK
  <2> QED
    BY <2>1, PacketsThere
<1>3. accumulatedVoteCount'[leader][c] = acc
        \/ (leader = LeaderOf(voteTick) /\ accumulatedVoteCount'[leader][c] = acc + now)
  BY PacketCounted
<1>4. /\ LeaderOf(voteTick + 1) # LeaderOf(voteTick)
      /\ LeaderOf(voteTick + 1) # LeaderOf(voteTick + 2)
  <2>1. LeaderOf((voteTick + 1) + 1) # LeaderOf(voteTick + 1)
    BY <1>1, LeadersTicks
  <2>2. (voteTick + 1) + 1 = voteTick + 2
    BY <1>1
  <2> QED
    BY <1>1, <2>1, <2>2, LeadersTicks
<1>5. /\ leader = LeaderOf(voteTick) => now \in OnTheWay(leader, c)
      /\ leader = LeaderOf(voteTick + 1) => coming \in OnTheWay(leader, c)
  <2>1. voteTick \in voteTick .. voteTick + 1 /\ voteTick + 1 \in voteTick .. voteTick + 1
    BY <1>1
  <2> QED
    BY <2>1 DEF OnTheWay
<1>6. low \in Int /\ low >= voteTick - (NumberOfComputors - 1)
  BY <1>1
<1> DEFINE before == Cardinality(Unreported(c, low))
           after == Cardinality(Unreported(c, low)')
<1>7. /\ before \in Nat /\ after \in Nat /\ castVotes[c] \in Nat /\ castVotes'[c] \in Nat
      /\ castVotes'[c] >= castVotes[c] /\ after - before <= castVotes'[c] - castVotes[c]
      /\ low = voteTick + 1 => after = 0
  BY <1>6, UnreportedGrows
<1>8. CASE next <= voteTick + NumberOfComputors - 1
  <2>1. next \in voteTick .. voteTick + NumberOfComputors - 1
    BY <1>1, <1>8
  <2>2. \A old \in OnTheWay(leader, c) \cup {0} : acc + old + before <= castVotes[c]
    BY <2>1 DEF VoteInv
  <2>3. leader # LeaderOf(voteTick + 2)
    <3>1. voteTick + 2 \in Nat /\ next + 2 \in voteTick + 2 + 1 .. voteTick + 2 + NumberOfComputors - 1
      BY <1>1, <1>8
    <3> QED
      BY <3>1, LeadersTicks DEF PublicationOffset2
  <2>4. count = 0 \/ (leader = LeaderOf(voteTick + 1) /\ count = coming)
    BY <2>3, OnTheWayAfter DEF PublicationOffset2
  <2>5. \E old \in OnTheWay(leader, c) \cup {0} :
          /\ old \in Nat
          /\ accumulatedVoteCount'[leader][c] + count = acc + old
    <3>1. CASE count = 0
      BY <1>2, <1>3, <1>5, <3>1
    <3>2. CASE leader = LeaderOf(voteTick + 1) /\ count = coming
      <4>1. accumulatedVoteCount'[leader][c] = acc
        BY <1>3, <1>4, <3>2
      <4> QED
        BY <1>2, <1>5, <3>2, <4>1
    <3> QED
      BY <2>4, <3>1, <3>2
  <2>6. PICK old \in OnTheWay(leader, c) \cup {0} :
          old \in Nat /\ accumulatedVoteCount'[leader][c] + count = acc + old
    BY <2>5
  <2>7. acc + old + before <= castVotes[c]
    BY <2>2
  <2> HIDE DEF acc, before, after, low
  <2>8. (acc + old) + after <= castVotes'[c]
    BY <1>2, <1>7, <2>6, <2>7
  <2> QED
    BY <2>6, <2>8 DEF after, low
<1>9. CASE next = voteTick + NumberOfComputors
  <2>1. low = voteTick + 1
    BY <1>1, <1>9
  <2>2. leader = LeaderOf(voteTick + 2)
    <3>1. voteTick + 2 \in Nat /\ next + 2 = voteTick + 2 + NumberOfComputors
      BY <1>1, <1>9
    <3> QED
      BY <3>1, LeadersTicks DEF PublicationOffset2
  <2> DEFINE packet == NewVotesPacket(leader, voteTick)
             start == voteTick - (NumberOfComputors - 1)
             unreported == Cardinality(Unreported(c, start))
  <2>3. packet[c] = unreported
    BY PacketIsUnreported
  <2>4. unreported \in Nat
    <3>1. start \in Int /\ start >= voteTick - (NumberOfComputors - 1)
      BY <1>1
    <3> QED
      BY <3>1, UnreportedGrows
  <2>5. \A old \in OnTheWay(leader, c) \cup {0} : acc + old + unreported <= castVotes[c]
    <3>1. voteTick \in voteTick .. voteTick + NumberOfComputors - 1
      BY <1>1
    <3> QED
      BY <2>2, <3>1 DEF VoteInv, PublicationOffset2
  <2>6. count = 0 \/ count = packet[c]
    <3>1. leader # LeaderOf(voteTick + 1)
      BY <1>4, <2>2
    <3>2. VotesSent(leader, voteTick) = {packet}
      BY DEF VotesSent
    <3>3. ASSUME count \in OnTheWay(leader, c)' PROVE count = packet[c]
      <4>1. \E sent \in VotesSent(leader, voteTick) : count = sent[c]
        BY <3>1, <3>3, OnTheWayAfter
      <4> QED
        BY <3>2, <4>1
    <3>4. count \in OnTheWay(leader, c)' \/ count = 0
      OBVIOUS
    <3> HIDE DEF packet
    <3> QED
      BY <3>3, <3>4
  <2>7. \E old \in OnTheWay(leader, c) \cup {0} :
          old \in Nat /\ accumulatedVoteCount'[leader][c] = acc + old
    <3>1. CASE accumulatedVoteCount'[leader][c] = acc
      <4>1. acc = acc + 0 /\ 0 \in Nat
        BY <1>2
      <4> QED
        BY <3>1, <4>1
    <3>2. CASE leader = LeaderOf(voteTick) /\ accumulatedVoteCount'[leader][c] = acc + now
      BY <1>2, <1>5, <3>2
    <3> QED
      BY <1>3, <3>1, <3>2
  <2>8. PICK old \in OnTheWay(leader, c) \cup {0} :
          old \in Nat /\ accumulatedVoteCount'[leader][c] = acc + old
    BY <2>7
  <2>9. acc + old + unreported <= castVotes[c]
    BY <2>5
  <2>10. count \in Nat /\ count <= unreported
    BY <2>3, <2>4, <2>6
  <2>11. after = 0
    BY <1>7, <2>1
  <2> HIDE DEF acc, after, low, unreported, packet
  <2>12. (acc + old) + count + after <= castVotes'[c]
    BY <1>2, <1>7, <2>4, <2>8, <2>9, <2>10, <2>11
  <2> QED
    BY <2>8, <2>12 DEF after, low
<1>10. next <= voteTick + NumberOfComputors - 1 \/ next = voteTick + NumberOfComputors
  BY <1>1
<1> QED
  BY <1>8, <1>9, <1>10

\* A vote is counted by every other leader at most once, whatever faulty leaders claim.
LEMMA CountedOnceKept ==
  ASSUME VoteInv, CountVotes
  PROVE  VotesCountedOnce'
<1>1. /\ voteTick \in Nat /\ NumberOfComputors \in Nat \ {0, 1} /\ voteTick' = voteTick + 1
      /\ FirstVoteTick \in Nat /\ FirstVoteTick <= voteTick
  BY AccountingAssumption DEF VoteInv, VoteTypeOK, CountVotes
<1> SUFFICES ASSUME NEW leader \in ComputorIndex, NEW c \in ComputorIndex
             PROVE  accumulatedVoteCount'[leader][c] <=
                      CASE leader = c -> 0
                        [] leader # c /\ leader \notin FaultyLeader -> castVotes'[c]
                        [] OTHER -> NumberOfComputors *
                             Cardinality({t \in FirstVoteTick .. voteTick' - 1 : LeaderOf(t) = leader})
  BY DEF VotesCountedOnce, LeaderOf
<1> DEFINE acc == accumulatedVoteCount[leader][c]
           now == voteTxs[voteTick][c]
<1>2. acc \in Nat /\ now \in Nat
  BY PacketsThere DEF VoteInv, VoteTypeOK
<1>3. acc <= CASE leader = c -> 0
               [] leader # c /\ leader \notin FaultyLeader -> castVotes[c]
               [] OTHER -> NumberOfComputors *
                    Cardinality({t \in FirstVoteTick .. voteTick - 1 : LeaderOf(t) = leader})
  BY DEF VoteInv, VotesCountedOnce
<1>4. \/ accumulatedVoteCount'[leader][c] = acc
      \/ /\ leader = LeaderOf(voteTick) /\ accumulatedVoteCount'[leader][c] = acc + now
         /\ now <= NumberOfComputors
         /\ leader = c => now = 0
  BY PacketCounted
<1>5. CASE leader = c
  <2>1. acc <= 0
    BY <1>3, <1>5
  <2>2. accumulatedVoteCount'[leader][c] = acc
    BY <1>2, <1>4, <1>5
  <2> QED
    BY <1>5, <2>1, <2>2
<1>6. CASE leader # c /\ leader \notin FaultyLeader
  <2>1. PICK u \in voteTick + 3 .. voteTick + 3 + NumberOfComputors - 1 : LeaderOf(u) = leader
    <3>1. voteTick + 3 \in Nat
      BY <1>1
    <3> QED
      BY <3>1, LeadersTicks
  <2> DEFINE next == u - 2
             rest == Cardinality(Unreported(c, next - (NumberOfComputors - 1))')
  <2>2. next \in voteTick + 1 .. voteTick + NumberOfComputors
    BY <1>1
  <2>3. LeaderOf(next + PublicationOffset2) = leader
    <3>1. next + 2 = u
      BY <1>1
    <3> QED
      BY <2>1, <3>1 DEF PublicationOffset2
  <2>4. next - (NumberOfComputors - 1) \in Int
        /\ next - (NumberOfComputors - 1) >= voteTick - (NumberOfComputors - 1)
    BY <1>1, <2>2
  <2>5. rest \in Nat /\ castVotes'[c] \in Nat
    BY <2>4, UnreportedGrows
  <2>6. leader \in ComputorIndex \ FaultyLeader /\ c \in ComputorIndex \ {leader}
        /\ 0 \in OnTheWay(leader, c)' \cup {0}
    BY <1>6
  <2> HIDE DEF next
  <2>7. accumulatedVoteCount'[leader][c] + 0 + rest <= castVotes'[c]
    BY <2>2, <2>3, <2>6, HonestCountsKept
  <2>8. accumulatedVoteCount'[leader][c] \in Nat
    BY VoteTypes DEF VoteTypeOK
  <2> HIDE DEF rest
  <2>9. accumulatedVoteCount'[leader][c] <= castVotes'[c]
    BY <2>5, <2>7, <2>8
  <2> QED
    BY <1>6, <2>9
<1>7. CASE leader # c /\ leader \in FaultyLeader
  <2> DEFINE led == {t \in FirstVoteTick .. voteTick - 1 : LeaderOf(t) = leader}
             after == {t \in FirstVoteTick .. voteTick' - 1 : LeaderOf(t) = leader}
  <2>1. after = led \cup {t \in {voteTick} : LeaderOf(t) = leader}
    <3>1. \A t : t \in FirstVoteTick .. voteTick' - 1 <=> t \in FirstVoteTick .. voteTick - 1 \/ t = voteTick
      BY <1>1
    <3> QED
      BY <3>1
  <2>2. IsFiniteSet(led) /\ voteTick \notin led
    <3>1. led \subseteq FirstVoteTick .. voteTick - 1
      OBVIOUS
    <3>2. IsFiniteSet(FirstVoteTick .. voteTick - 1)
      BY <1>1, FS_Interval
    <3>3. voteTick \notin FirstVoteTick .. voteTick - 1
      BY <1>1
    <3> QED
      BY <3>1, <3>2, <3>3, FS_Subset
  <2> DEFINE k == Cardinality(led)
             m == Cardinality(after)
  <2>3. acc <= NumberOfComputors * k
    BY <1>3, <1>7
  <2> HIDE DEF led, after
  <2>4. k \in Nat
    BY <2>2, FS_CardinalityType
  <2>5. CASE leader = LeaderOf(voteTick)
    <3>1. after = led \cup {voteTick}
      BY <2>1, <2>5
    <3>2. m = k + 1
      BY <2>2, <3>1, FS_AddElement
    <3>3. NumberOfComputors * (k + 1) = NumberOfComputors * k + NumberOfComputors
          /\ NumberOfComputors * k \in Int
      BY <1>1, <2>4
    <3>4. accumulatedVoteCount'[leader][c] <= acc + NumberOfComputors
          /\ accumulatedVoteCount'[leader][c] \in Int
      BY <1>1, <1>2, <1>4
    <3> HIDE DEF acc, k, m
    <3>5. accumulatedVoteCount'[leader][c] <= NumberOfComputors * (k + 1)
      BY <1>1, <1>2, <2>3, <3>3, <3>4 DEF acc
    <3> QED
      BY <1>7, <3>2, <3>5 DEF m, after
  <2>6. CASE leader # LeaderOf(voteTick)
    <3>1. after = led
      BY <2>1, <2>6
    <3>2. accumulatedVoteCount'[leader][c] = acc
      BY <1>4, <2>6
    <3> QED
      BY <1>7, <2>3, <3>1, <3>2 DEF after
  <2> QED
    BY <2>5, <2>6
<1> QED
  BY <1>5, <1>6, <1>7

\* Every tick keeps the invariant of the votes.
LEMMA VoteInvStep == VoteInv /\ [CountVotes]_voteVars => VoteInv'
<1>1. ASSUME VoteInv, CountVotes PROVE VoteInv'
  <2>1. ASSUME NEW leader \in ComputorIndex \ FaultyLeader, NEW c \in ComputorIndex \ {leader},
               NEW next \in voteTick' .. voteTick' + NumberOfComputors - 1,
               LeaderOf(next + PublicationOffset2) = leader,
               NEW count \in OnTheWay(leader, c)' \cup {0}
        PROVE  accumulatedVoteCount'[leader][c] + count
                 + Cardinality(Unreported(c, next - (NumberOfComputors - 1))') <= castVotes'[c]
    <3>1. next \in voteTick + 1 .. voteTick + NumberOfComputors
      <4>1. voteTick' = voteTick + 1 /\ voteTick \in Nat /\ NumberOfComputors \in Nat
        BY <1>1, PacketsThere, AccountingAssumption DEF CountVotes
      <4> QED
        BY <4>1
    <3> QED
      BY <1>1, <2>1, <3>1, HonestCountsKept
  <2>2. /\ VoteTypeOK' /\ VotesCountedOnce'
        /\ \A slot \in DOMAIN voteRing', c \in ComputorIndex : voteRing'[slot][c] < voteTick'
    BY <1>1, VoteTypes, CountedOnceKept
  <2> QED
    BY <2>1, <2>2 DEF VoteInv, LeaderOf
<1>2. ASSUME VoteInv, UNCHANGED voteVars PROVE VoteInv'
  <2>1. /\ voteTick' = voteTick /\ voteRing' = voteRing /\ voteTxs' = voteTxs
        /\ accumulatedVoteCount' = accumulatedVoteCount /\ castVotes' = castVotes
    BY <1>2 DEF voteVars
  <2>2. VoteTypeOK' /\ VotesCountedOnce'
    BY <1>2, <2>1 DEF VoteInv, VoteTypeOK, VotesCountedOnce, LeaderOf
  <2>3. /\ \A leader, c : OnTheWay(leader, c)' = OnTheWay(leader, c)
        /\ \A c, first : Unreported(c, first)' = Unreported(c, first)
    BY <2>1 DEF OnTheWay, Unreported, LeaderOf, VoteSlot
  <2> QED
    BY <1>2, <2>1, <2>2, <2>3 DEF VoteInv, LeaderOf
<1> QED
  BY <1>1, <1>2

\* At the beginning nothing is counted.
LEMMA VoteInvInit == VoteInit => VoteInv
<1> SUFFICES ASSUME VoteInit PROVE VoteInv
  OBVIOUS
<1>1. /\ NumberOfComputors \in Nat \ {0, 1} /\ FirstVoteTick \in Nat /\ LastVoteTick \in Nat
      /\ FirstVoteTick >= 2 * NumberOfComputors /\ LastVoteTick >= FirstVoteTick
  BY AccountingAssumption
<1>2. NoReport \in [ComputorIndex -> Nat] /\ \A c \in ComputorIndex : NoReport[c] = 0
  BY DEF NoReport
<1>3. VoteTypeOK
  BY <1>1, <1>2 DEF VoteInit, VoteTypeOK
<1>4. \A slot \in DOMAIN voteRing, c \in ComputorIndex : voteRing[slot][c] < voteTick
  BY <1>1, <1>2 DEF VoteInit
<1>5. VotesCountedOnce
  <2>1. FirstVoteTick .. voteTick - 1 = {}
    BY <1>1 DEF VoteInit
  <2>2. \A leader : {t \in FirstVoteTick .. voteTick - 1 : LeaderOf(t) = leader} = {}
    BY <2>1
  <2>3. NumberOfComputors * Cardinality({}) = 0
    BY <1>1, FS_EmptySet
  <2>4. \A leader, c \in ComputorIndex : accumulatedVoteCount[leader][c] = 0 /\ castVotes[c] = 0
    BY <1>2 DEF VoteInit
  <2> SUFFICES ASSUME NEW leader \in ComputorIndex, NEW c \in ComputorIndex
               PROVE  0 <= CASE leader = c -> 0
                             [] leader # c /\ leader \notin FaultyLeader -> 0
                             [] OTHER -> NumberOfComputors *
                                  Cardinality({t \in FirstVoteTick .. voteTick - 1 : LeaderOf(t) = leader})
    BY <2>4 DEF VotesCountedOnce
  <2>5. NumberOfComputors * Cardinality({t \in FirstVoteTick .. voteTick - 1 : LeaderOf(t) = leader}) = 0
    BY <2>2, <2>3
  <2> QED
    BY <2>5
<1>6. ASSUME NEW leader \in ComputorIndex, NEW c \in ComputorIndex,
             NEW next \in voteTick .. voteTick + NumberOfComputors - 1,
             NEW count \in OnTheWay(leader, c) \cup {0}
      PROVE  accumulatedVoteCount[leader][c] + count
               + Cardinality(Unreported(c, next - (NumberOfComputors - 1))) <= castVotes[c]
  <2>1. voteTick = FirstVoteTick /\ voteTick \in Nat
    BY <1>1 DEF VoteInit
  <2>2. count = 0
    <3>1. voteTxs[voteTick] = NoReport /\ voteTxs[voteTick + 1] = NoReport
      BY <1>1 DEF VoteInit, PublicationOffset2
    <3>2. \A t \in voteTick .. voteTick + 1 : t = voteTick \/ t = voteTick + 1
      BY <2>1
    <3> QED
      BY <1>2, <3>1, <3>2 DEF OnTheWay
  <2>3. Unreported(c, next - (NumberOfComputors - 1)) = {}
    <3>1. ASSUME NEW t \in next - (NumberOfComputors - 1) .. voteTick - 1 PROVE voteRing[VoteSlot(t)][c] # t
      <4>1. t \in Nat /\ t > 0
        BY <1>1, <2>1
      <4>2. VoteSlot(t) \in 0 .. 2 * NumberOfComputors - 1
        BY <4>1, SlotsApart
      <4>3. voteRing[VoteSlot(t)] = NoReport
        BY <4>2 DEF VoteInit
      <4> QED
        BY <1>2, <4>1, <4>3
    <3> QED
      BY <3>1 DEF Unreported
  <2>4. accumulatedVoteCount[leader][c] = 0 /\ castVotes[c] = 0
    BY <1>2 DEF VoteInit
  <2> QED
    BY <2>2, <2>3, <2>4, FS_EmptySet
<1> QED
  BY <1>3, <1>4, <1>5, <1>6 DEF VoteInv

\* What a leader counts, publishes and has yet to report are different votes, in every reachable
\* state.
THEOREM VoteInvariance == VoteSpec => []VoteInv
BY VoteInvInit, VoteInvStep, PTL DEF VoteSpec

-----------------------------------------------------------------------------
(***************************************************************************)
(* Shares of custom mining                                                 *)
(***************************************************************************)

\* The computors are finitely many, and a sum over them is one of SumTheorems.
LEMMA Computors ==
  /\ NumberOfComputors \in Nat /\ NumberOfComputors >= 2
  /\ IsFiniteSet(ComputorIndex) /\ Cardinality(ComputorIndex) = NumberOfComputors
  /\ \A c \in ComputorIndex : IsFiniteSet(ComputorIndex \ {c})
                              /\ Cardinality(ComputorIndex \ {c}) = NumberOfComputors - 1
  /\ \A f : Total(f) = Summed(f, ComputorIndex)
<1>1. NumberOfComputors \in Nat /\ NumberOfComputors >= 2
  BY AccountingAssumption
<1>2. IsFiniteSet(ComputorIndex) /\ Cardinality(ComputorIndex) = NumberOfComputors
  <2>1. 0 \in Int /\ NumberOfComputors - 1 \in Int
    BY <1>1
  <2>2. IsFiniteSet(0 .. NumberOfComputors - 1)
        /\ Cardinality(0 .. NumberOfComputors - 1) =
             IF 0 > NumberOfComputors - 1 THEN 0 ELSE NumberOfComputors - 1 - 0 + 1
    BY <2>1, FS_Interval
  <2> QED
    BY <1>1, <2>2 DEF ComputorIndex
<1>3. ASSUME NEW c \in ComputorIndex
      PROVE  IsFiniteSet(ComputorIndex \ {c}) /\ Cardinality(ComputorIndex \ {c}) = NumberOfComputors - 1
  BY <1>2, FS_RemoveElement
<1>4. \A f : Total(f) = Summed(f, ComputorIndex)
  BY DEF Total, Summed
<1> QED
  BY <1>1, <1>2, <1>3, <1>4

\* A total changes with one of its terms.
LEMMA TotalChange ==
  ASSUME NEW f, NEW g, NEW x \in ComputorIndex,
         \A own \in ComputorIndex : f[own] \in Int, g[x] \in Int,
         \A own \in ComputorIndex \ {x} : g[own] = f[own]
  PROVE  Total(g) = Total(f) + (g[x] - f[x])
<1>1. IsFiniteSet(ComputorIndex) /\ Total(f) = Summed(f, ComputorIndex) /\ Total(g) = Summed(g, ComputorIndex)
  BY Computors
<1>2. Summed(g, ComputorIndex) = Summed(f, ComputorIndex) + (g[x] - f[x])
  BY <1>1, SummedChange
<1> QED
  BY <1>1, <1>2

\* What can still be sent is a number.
LEMMA UnsentTyped ==
  ASSUME ShareInv, NEW c \in ComputorIndex
  PROVE  /\ \A own \in ComputorIndex : Unsent(c)[own] \in Nat
         /\ Total(Unsent(c)) \in Nat
<1>1. \A own \in ComputorIndex : Unsent(c)[own] \in Nat
  BY DEF ShareInv, Unsent
<1> QED
  BY <1>1, Computors, SummedNat

\* What will be prepared is a number.
LEMMA AwaitedTyped ==
  ASSUME ShareInv, NEW c \in ComputorIndex
  PROVE  /\ \A own \in ComputorIndex : Awaited(c)[own] \in Nat
         /\ Total(Awaited(c)) \in Nat
<1>1. \A own \in ComputorIndex : Awaited(c)[own] \in Nat
  BY DEF ShareInv, Awaited
<1> QED
  BY <1>1, Computors, SummedNat

\* A total does not grow when none of its terms does.
LEMMA TotalLeast ==
  ASSUME NEW f, NEW g,
         \A own \in ComputorIndex : f[own] \in Nat /\ g[own] \in Nat /\ g[own] <= f[own]
  PROVE  Total(g) <= Total(f)
<1>1. \A own \in ComputorIndex : g[own] \in Int /\ f[own] \in Int /\ 1 * g[own] <= 1 * f[own]
  OBVIOUS
<1>2. 1 * Summed(g, ComputorIndex) <= 1 * Summed(f, ComputorIndex)
  BY <1>1, Computors, SummedShares
<1>3. Total(g) = Summed(g, ComputorIndex) /\ Total(f) = Summed(f, ComputorIndex)
  BY Computors
<1>4. Summed(g, ComputorIndex) \in Int /\ Summed(f, ComputorIndex) \in Int
  BY <1>1, Computors, SummedAdd
<1> QED
  BY <1>2, <1>3, <1>4

\* The sum of two totals is the total of the sums.
LEMMA TotalPlus ==
  ASSUME NEW f, NEW g, NEW h,
         \A own \in ComputorIndex : f[own] \in Nat /\ g[own] \in Nat /\ h[own] = f[own] + g[own]
  PROVE  Total(h) = Total(f) + Total(g)
<1>1. \A own \in ComputorIndex : f[own] \in Int /\ g[own] \in Int /\ h[own] = f[own] + g[own]
  OBVIOUS
<1>2. Summed(h, ComputorIndex) = Summed(f, ComputorIndex) + Summed(g, ComputorIndex)
  BY <1>1, Computors, SummedPlus
<1> QED
  BY <1>2, Computors

\* A total whose terms grow by at most one, and one of them not, grows by less than the number of
\* computors.
LEMMA TotalGrows ==
  ASSUME NEW f, NEW g, NEW c \in ComputorIndex,
         \A own \in ComputorIndex :
           /\ f[own] \in Nat /\ g[own] \in Nat
           /\ g[own] <= f[own] + (IF own = c THEN 0 ELSE 1)
  PROVE  Total(g) <= Total(f) + (NumberOfComputors - 1)
<1> DEFINE others == ComputorIndex \ {c}
           e == [own \in ComputorIndex |-> IF own = c THEN 0 ELSE 1]
           h == [own \in ComputorIndex |-> f[own] + e[own]]
<1>1. \A own \in ComputorIndex :
        /\ f[own] \in Nat /\ g[own] \in Nat /\ e[own] \in Nat /\ h[own] \in Nat
        /\ h[own] = f[own] + e[own] /\ g[own] <= h[own] /\ e[own] \in Int
  OBVIOUS
<1>2. /\ others \in SUBSET ComputorIndex
      /\ \A own \in others : e[own] = 1
      /\ \A own \in ComputorIndex \ others : e[own] = 0
  OBVIOUS
<1>3. IsFiniteSet(others) /\ Cardinality(others) = NumberOfComputors - 1
  BY Computors
<1> HIDE DEF e, h, others
<1>4. Summed(e, ComputorIndex) = Summed(e, others)
  BY <1>1, <1>2, Computors, SummedOutside
<1>5. Summed(e, others) = 1 * Cardinality(others)
  BY <1>2, <1>3, SummedConstant
<1>6. Total(e) = NumberOfComputors - 1
  BY <1>3, <1>4, <1>5, Computors
<1>7. Total(h) = Total(f) + Total(e)
  BY <1>1, TotalPlus
<1>8. Total(g) <= Total(h)
  BY <1>1, TotalLeast
<1> QED
  BY <1>6, <1>7, <1>8

\* What is counted of a computor's shares, on the way, or still to be sent.
Due(c) ==
  accumulatedSharesCount[c] + shareTxs[shareTick][c] + shareTxs[shareTick + 1][c] + Total(Unsent(c))

\* The types of what a step of the shares needs.
LEMMA ShareTypes ==
  ASSUME ShareInv
  PROVE  /\ shareTick \in Nat /\ shareTick <= LastShareTick /\ LastShareTick \in Nat
         /\ shareTxs \in [0 .. LastShareTick + 2 -> [ComputorIndex -> Nat]]
         /\ \A c \in ComputorIndex :
              /\ accumulatedSharesCount[c] \in Nat /\ sharesCount[c] \in Nat
              /\ recordedShares[c] \in Nat /\ unverifiedShares[c] \in Nat
              /\ shareTxs[shareTick][c] \in Nat /\ shareTxs[shareTick + 1][c] \in Nat
              /\ Due(c) \in Nat
              /\ Total(Awaited(c)) \in Nat
              /\ Due(c) + Total(Awaited(c)) <= (NumberOfComputors - 1) * recordedShares[c]
<1>1. shareTick \in Nat /\ shareTick <= LastShareTick /\ LastShareTick \in Nat
  BY AccountingAssumption DEF ShareInv
<1>2. shareTxs \in [0 .. LastShareTick + 2 -> [ComputorIndex -> Nat]]
  BY DEF ShareInv, PublicationOffset2
<1>3. ASSUME NEW c \in ComputorIndex
      PROVE  /\ accumulatedSharesCount[c] \in Nat /\ sharesCount[c] \in Nat
             /\ recordedShares[c] \in Nat /\ unverifiedShares[c] \in Nat
             /\ shareTxs[shareTick][c] \in Nat /\ shareTxs[shareTick + 1][c] \in Nat
             /\ Due(c) \in Nat
             /\ Total(Awaited(c)) \in Nat
             /\ Due(c) + Total(Awaited(c)) <= (NumberOfComputors - 1) * recordedShares[c]
  <2>1. shareTick \in 0 .. LastShareTick + 2 /\ shareTick + 1 \in 0 .. LastShareTick + 2
    BY <1>1
  <2>2. shareTxs[shareTick][c] \in Nat /\ shareTxs[shareTick + 1][c] \in Nat
    BY <1>2, <2>1
  <2>3. /\ accumulatedSharesCount[c] \in Nat /\ sharesCount[c] \in Nat
        /\ recordedShares[c] \in Nat /\ unverifiedShares[c] \in Nat
    BY DEF ShareInv
  <2>4. Due(c) \in Nat
    BY <2>2, <2>3, UnsentTyped DEF Due
  <2>5. Due(c) + Total(Awaited(c)) <= (NumberOfComputors - 1) * recordedShares[c]
    BY DEF ShareInv, Due
  <2> QED
    BY <2>2, <2>3, <2>4, <2>5, AwaitedTyped
<1> QED
  BY <1>1, <1>2, <1>3

\* The products of the invariant.
LEMMA Multiplied ==
  ASSUME NEW x \in Nat, NEW y \in Nat
  PROVE  LET n == NumberOfComputors - 1 IN
         /\ n * x \in Nat /\ n * (x + 1) = n * x + n /\ n \in Nat /\ n * 0 = 0
         /\ x <= y => n * x <= n * y
<1> DEFINE n == NumberOfComputors - 1
<1>1. n \in Nat
  BY Computors
<1> HIDE DEF n
<1>2. n * x \in Nat /\ n * (x + 1) = n * x + n /\ n * 0 = 0
  BY <1>1
<1>3. x <= y => n * x <= n * y
  <2>1. x <= y => n * (y - x) >= 0
    BY <1>1
  <2>2. n * (y - x) = n * y - n * x /\ n * y \in Int
    BY <1>1
  <2> QED
    BY <1>2, <2>1, <2>2
<1> QED
  BY <1>1, <1>2, <1>3 DEF n

\* A share that is recorded may be counted by every other computor.
LEMMA RecordInv ==
  ASSUME ShareInv, NEW d \in ComputorIndex, RecordShare(d)
  PROVE  ShareInv'
<1>1. /\ sharesCount' = [sharesCount EXCEPT ![d] = @ + 1]
      /\ recordedShares' = [recordedShares EXCEPT ![d] = @ + 1]
      /\ unverifiedShares' = [unverifiedShares EXCEPT ![d] = @ + 1]
      /\ UNCHANGED <<shareTick, preparedPackets, isInCustomMiningState, preparedShares, isBroadcasted,
                     shareTxs, accumulatedSharesCount>>
  BY DEF RecordShare
<1>2. /\ shareTick' \in 0 .. LastShareTick /\ preparedPackets' \in 0 .. NumberOfComputors
      /\ sharesCount' \in [ComputorIndex -> Nat] /\ recordedShares' \in [ComputorIndex -> Nat]
      /\ unverifiedShares' \in [ComputorIndex -> Nat] /\ accumulatedSharesCount' \in [ComputorIndex -> Nat]
      /\ preparedShares' \in [ComputorIndex -> [ComputorIndex -> Nat]]
      /\ isBroadcasted' \in [ComputorIndex -> BOOLEAN]
      /\ shareTxs' \in [0 .. LastShareTick + PublicationOffset2 -> [ComputorIndex -> Nat]]
      /\ \A t \in DOMAIN shareTxs' : t >= shareTick' + PublicationOffset2 => shareTxs'[t] = NoReport
  BY <1>1 DEF ShareInv, NoReport
<1>3. ASSUME NEW c \in ComputorIndex
      PROVE  Due(c)' + Total(Awaited(c)') <= (NumberOfComputors - 1) * recordedShares'[c]
  <2>1. Due(c)' = Due(c)
    <3>1. Unsent(c)' = Unsent(c)
      BY <1>1 DEF Unsent
    <3> QED
      BY <1>1, <3>1 DEF Due
  <2>2. /\ recordedShares[c] \in Nat /\ Due(c) \in Nat /\ Total(Awaited(c)) \in Nat
        /\ Due(c) + Total(Awaited(c)) <= (NumberOfComputors - 1) * recordedShares[c]
        /\ \A own \in ComputorIndex : Awaited(c)[own] \in Nat
    BY ShareTypes, AwaitedTyped
  <2> DEFINE n == NumberOfComputors - 1
             f == Awaited(c)
             g == Awaited(c)'
  <2>3. CASE c # d
    <3>1. recordedShares'[c] = recordedShares[c] /\ sharesCount'[c] = sharesCount[c]
      BY <1>1, <2>3 DEF ShareInv
    <3>2. g = f
      BY <1>1, <3>1 DEF Awaited
    <3> QED
      BY <2>1, <2>2, <3>1, <3>2
  <2>4. CASE c = d
    <3>1. /\ recordedShares'[c] = recordedShares[c] + 1 /\ sharesCount'[c] = sharesCount[c] + 1
          /\ sharesCount[c] \in Nat /\ preparedPackets' = preparedPackets
      BY <1>1, <2>4 DEF ShareInv
    <3>2. \A own \in ComputorIndex :
            f[own] \in Nat /\ g[own] \in Nat /\ g[own] <= f[own] + (IF own = c THEN 0 ELSE 1)
      BY <3>1 DEF Awaited
    <3>3. \A own \in ComputorIndex : g[own] \in Nat
      BY <3>2
    <3> HIDE DEF f, g
    <3>4. Total(g) <= Total(f) + n /\ Total(g) \in Nat
      BY <3>2, <3>3, TotalGrows, Computors, SummedNat
    <3>5. n * (recordedShares[c] + 1) = n * recordedShares[c] + n /\ n \in Nat
          /\ n * recordedShares[c] \in Nat
      BY <2>2, Multiplied
    <3>6. Due(c) + Total(f) <= n * recordedShares[c] /\ Total(f) \in Nat /\ Due(c) \in Nat
      BY <2>2 DEF f
    <3> HIDE DEF n
    <3>7. Due(c) + Total(g) <= n * (recordedShares[c] + 1)
      BY <3>4, <3>5, <3>6
    <3> QED
      BY <2>1, <3>1, <3>7 DEF n, g
  <2> QED
    BY <2>3, <2>4
<1> QED
  BY <1>2, <1>3 DEF ShareInv, Due

\* A share that is called invalid is counted by nobody.
LEMMA DropInv ==
  ASSUME ShareInv, NEW d \in ComputorIndex, DropInvalidShare(d)
  PROVE  ShareInv'
<1>1. /\ sharesCount' = [sharesCount EXCEPT ![d] = IF unverifiedShares[d] > 0 /\ @ > 0 THEN @ - 1 ELSE @]
      /\ unverifiedShares' = [unverifiedShares EXCEPT ![d] = IF @ > 0 THEN @ - 1 ELSE 0]
      /\ UNCHANGED <<shareTick, preparedPackets, isInCustomMiningState, preparedShares, isBroadcasted,
                     shareTxs, accumulatedSharesCount, recordedShares>>
  BY DEF DropInvalidShare
<1>2. /\ shareTick' \in 0 .. LastShareTick /\ preparedPackets' \in 0 .. NumberOfComputors
      /\ sharesCount' \in [ComputorIndex -> Nat] /\ recordedShares' \in [ComputorIndex -> Nat]
      /\ unverifiedShares' \in [ComputorIndex -> Nat] /\ accumulatedSharesCount' \in [ComputorIndex -> Nat]
      /\ preparedShares' \in [ComputorIndex -> [ComputorIndex -> Nat]]
      /\ isBroadcasted' \in [ComputorIndex -> BOOLEAN]
      /\ shareTxs' \in [0 .. LastShareTick + PublicationOffset2 -> [ComputorIndex -> Nat]]
      /\ \A t \in DOMAIN shareTxs' : t >= shareTick' + PublicationOffset2 => shareTxs'[t] = NoReport
  BY <1>1 DEF ShareInv, NoReport
<1>3. ASSUME NEW c \in ComputorIndex
      PROVE  Due(c)' + Total(Awaited(c)') <= (NumberOfComputors - 1) * recordedShares'[c]
  <2>1. Due(c)' = Due(c) /\ recordedShares' = recordedShares /\ preparedPackets' = preparedPackets
    <3>1. Unsent(c)' = Unsent(c)
      BY <1>1 DEF Unsent
    <3> QED
      BY <1>1, <3>1 DEF Due
  <2>2. sharesCount'[c] \in Nat /\ sharesCount'[c] <= sharesCount[c] /\ sharesCount[c] \in Nat
    BY <1>1, <1>2 DEF ShareInv
  <2>3. /\ recordedShares[c] \in Nat /\ Due(c) \in Nat /\ Total(Awaited(c)) \in Nat
        /\ Due(c) + Total(Awaited(c)) <= (NumberOfComputors - 1) * recordedShares[c]
    BY ShareTypes
  <2> DEFINE f == Awaited(c)
             g == Awaited(c)'
             r == (NumberOfComputors - 1) * recordedShares[c]
  <2>4. \A own \in ComputorIndex : f[own] \in Nat /\ g[own] \in Nat /\ g[own] <= f[own]
    BY <2>1, <2>2 DEF Awaited
  <2>5. \A own \in ComputorIndex : g[own] \in Nat
    BY <2>4
  <2>6. r \in Nat
    BY <2>3, Multiplied
  <2> HIDE DEF f, g, r
  <2>7. Total(g) <= Total(f) /\ Total(g) \in Nat
    BY <2>4, <2>5, TotalLeast, Computors, SummedNat
  <2>8. Due(c) + Total(g) <= r
    BY <2>3, <2>6, <2>7 DEF f, r
  <2> QED
    BY <2>1, <2>8 DEF g, r
<1> QED
  BY <1>2, <1>3 DEF ShareInv, Due

\* Preparing a packet moves what was awaited for it to what can be sent, but for the shares above
\* the limit; what an earlier phase did not send of it is dropped.
LEMMA PreparedTotal ==
  ASSUME ShareInv, PrepareShares, NEW c \in ComputorIndex
  PROVE  /\ Total(Unsent(c)') \in Nat /\ Total(Awaited(c)') \in Nat
         /\ Total(Unsent(c)') + Total(Awaited(c)') <= Total(Unsent(c)) + Total(Awaited(c))
<1> DEFINE own0 == preparedPackets
           u == Unsent(c)
           w == Awaited(c)
           v == Unsent(c)'
           x == Awaited(c)'
<1>1. sharesCount[c] \in Nat /\ ShareLimit \in Nat
  BY AccountingAssumption DEF ShareInv
<1>2. sharesCount'[c] = Min({sharesCount[c], ShareLimit})
  BY DEF PrepareShares
<1>3. sharesCount'[c] \in Nat /\ sharesCount'[c] <= sharesCount[c]
  <2>1. \E m \in {sharesCount[c], ShareLimit} : \A y \in {sharesCount[c], ShareLimit} : y >= m
    BY <1>1
  <2>2. /\ Min({sharesCount[c], ShareLimit}) \in {sharesCount[c], ShareLimit}
        /\ \A y \in {sharesCount[c], ShareLimit} : y >= Min({sharesCount[c], ShareLimit})
    BY <2>1 DEF Min
  <2> QED
    BY <1>1, <1>2, <2>2
<1>4. own0 \in ComputorIndex /\ own0 \in Nat /\ preparedPackets' = own0 + 1
  BY Computors DEF PrepareShares, ShareInv, ComputorIndex
<1>5. /\ \A own \in ComputorIndex : u[own] \in Nat /\ w[own] \in Nat
      /\ Total(u) \in Nat /\ Total(w) \in Nat
  BY UnsentTyped, AwaitedTyped
<1>6. ASSUME NEW own \in ComputorIndex
      PROVE  v[own] = IF own = own0 THEN IF c = own0 THEN 0 ELSE sharesCount'[c] ELSE u[own]
  <2>1. isBroadcasted'[own] = IF own = own0 THEN FALSE ELSE isBroadcasted[own]
    BY DEF PrepareShares, ShareInv
  <2>2. preparedShares'[own][c] =
          IF own = own0 THEN IF c = own0 THEN 0 ELSE sharesCount'[c] ELSE preparedShares[own][c]
    BY DEF PrepareShares, ShareInv
  <2> QED
    BY <2>1, <2>2 DEF Unsent
<1>7. \A own \in ComputorIndex :
        /\ w[own] = IF own < own0 \/ own = c THEN 0 ELSE sharesCount[c]
        /\ x[own] = IF own < own0 + 1 \/ own = c THEN 0 ELSE sharesCount'[c]
  BY <1>4 DEF Awaited
<1>8. \A own \in ComputorIndex :
        /\ v[own] \in Nat /\ x[own] \in Nat
        /\ v[own] + x[own] <= u[own] + w[own]
  <2> SUFFICES ASSUME NEW own \in ComputorIndex
               PROVE  v[own] \in Nat /\ x[own] \in Nat /\ v[own] + x[own] <= u[own] + w[own]
    OBVIOUS
  <2> HIDE DEF u, v, w, x, own0
  <2>1. own \in Nat
    BY DEF ComputorIndex
  <2>2. CASE own = own0
    BY <1>1, <1>3, <1>4, <1>5, <1>6, <1>7, <2>1, <2>2
  <2>3. CASE own # own0
    BY <1>1, <1>3, <1>4, <1>5, <1>6, <1>7, <2>1, <2>3
  <2> QED
    BY <2>2, <2>3
<1> DEFINE before == [own \in ComputorIndex |-> u[own] + w[own]]
           after  == [own \in ComputorIndex |-> v[own] + x[own]]
<1> HIDE DEF u, v, w, x
<1>9. Total(before) = Total(u) + Total(w)
  <2>1. \A own \in ComputorIndex : u[own] \in Nat /\ w[own] \in Nat /\ before[own] = u[own] + w[own]
    BY <1>5
  <2> HIDE DEF before
  <2> QED
    BY <2>1, TotalPlus
<1>10. Total(after) = Total(v) + Total(x)
  <2>1. \A own \in ComputorIndex : v[own] \in Nat /\ x[own] \in Nat /\ after[own] = v[own] + x[own]
    BY <1>8
  <2> HIDE DEF after
  <2> QED
    BY <2>1, TotalPlus
<1>11. Total(after) <= Total(before)
  <2>1. \A own \in ComputorIndex :
          before[own] \in Nat /\ after[own] \in Nat /\ after[own] <= before[own]
    BY <1>5, <1>8
  <2> HIDE DEF before, after
  <2> QED
    BY <2>1, TotalLeast
<1>12. Total(v) \in Nat /\ Total(x) \in Nat
  <2>1. (\A own \in ComputorIndex : v[own] \in Nat) /\ (\A own \in ComputorIndex : x[own] \in Nat)
    BY <1>8
  <2> QED
    BY <2>1, Computors, SummedNat
<1> QED
  BY <1>5, <1>9, <1>10, <1>11, <1>12 DEF u, v, w, x

\* Preparing a packet keeps the invariant.
LEMMA PrepareInv ==
  ASSUME ShareInv, PrepareShares
  PROVE  ShareInv'
<1>1. /\ shareTick' = shareTick /\ shareTxs' = shareTxs
      /\ accumulatedSharesCount' = accumulatedSharesCount /\ recordedShares' = recordedShares
      /\ unverifiedShares' = unverifiedShares
      /\ sharesCount' = [c \in ComputorIndex |-> Min({sharesCount[c], ShareLimit})]
      /\ preparedPackets' = preparedPackets + 1 /\ preparedPackets < NumberOfComputors
      /\ isBroadcasted' = [isBroadcasted EXCEPT ![preparedPackets] = FALSE]
      /\ preparedShares' = [preparedShares EXCEPT
                              ![preparedPackets] =
                                [c \in ComputorIndex |-> IF c = preparedPackets THEN 0 ELSE sharesCount'[c]]]
  BY DEF PrepareShares
<1>2. \A c \in ComputorIndex : Min({sharesCount[c], ShareLimit}) \in Nat
  <2> SUFFICES ASSUME NEW c \in ComputorIndex PROVE Min({sharesCount[c], ShareLimit}) \in Nat
    OBVIOUS
  <2>1. sharesCount[c] \in Nat /\ ShareLimit \in Nat
    BY AccountingAssumption DEF ShareInv
  <2>2. \E m \in {sharesCount[c], ShareLimit} : \A y \in {sharesCount[c], ShareLimit} : y >= m
    BY <2>1
  <2>3. Min({sharesCount[c], ShareLimit}) \in {sharesCount[c], ShareLimit}
    BY <2>2 DEF Min
  <2> QED
    BY <2>1, <2>3
<1>3. sharesCount' \in [ComputorIndex -> Nat]
  BY <1>1, <1>2
<1>4. /\ [c \in ComputorIndex |-> IF c = preparedPackets THEN 0 ELSE sharesCount'[c]]
           \in [ComputorIndex -> Nat]
      /\ preparedShares \in [ComputorIndex -> [ComputorIndex -> Nat]]
  BY <1>3 DEF ShareInv
<1>5. /\ preparedShares' \in [ComputorIndex -> [ComputorIndex -> Nat]]
      /\ isBroadcasted' \in [ComputorIndex -> BOOLEAN]
  BY <1>1, <1>4 DEF ShareInv
<1>6. /\ shareTick' \in 0 .. LastShareTick /\ preparedPackets' \in 0 .. NumberOfComputors
      /\ recordedShares' \in [ComputorIndex -> Nat]
      /\ unverifiedShares' \in [ComputorIndex -> Nat] /\ accumulatedSharesCount' \in [ComputorIndex -> Nat]
      /\ shareTxs' \in [0 .. LastShareTick + PublicationOffset2 -> [ComputorIndex -> Nat]]
      /\ \A t \in DOMAIN shareTxs' : t >= shareTick' + PublicationOffset2 => shareTxs'[t] = NoReport
  BY <1>1, Computors DEF ShareInv, NoReport
<1>7. ASSUME NEW c \in ComputorIndex
      PROVE  Due(c)' + Total(Awaited(c)') <= (NumberOfComputors - 1) * recordedShares'[c]
  <2> DEFINE a == accumulatedSharesCount[c]
             t == shareTxs[shareTick][c]
             u == shareTxs[shareTick + 1][c]
             s == Total(Unsent(c))
             w == Total(Awaited(c))
             s1 == Total(Unsent(c)')
             w1 == Total(Awaited(c)')
             r == (NumberOfComputors - 1) * recordedShares[c]
  <2>1. Due(c)' = a + t + u + s1
    BY <1>1 DEF Due
  <2>2. /\ a \in Nat /\ t \in Nat /\ u \in Nat /\ s \in Nat /\ w \in Nat
        /\ recordedShares[c] \in Nat /\ Due(c) = a + t + u + s
        /\ Due(c) + w <= r
    BY ShareTypes, UnsentTyped DEF Due
  <2>3. s1 \in Nat /\ w1 \in Nat /\ s1 + w1 <= s + w
    BY PreparedTotal
  <2>4. r \in Nat
    BY <2>2, Multiplied
  <2>5. recordedShares' = recordedShares
    BY <1>1
  <2> HIDE DEF a, t, u, s, w, s1, w1, r
  <2>6. a + t + u + s1 + w1 <= r
    BY <2>2, <2>3, <2>4
  <2>7. Due(c)' + w1 <= r
    BY <2>1, <2>6
  <2> QED
    BY <2>5, <2>7 DEF r, w1
<1> QED
  BY <1>3, <1>5, <1>6, <1>7 DEF ShareInv, Due

\* What a leader sends of its packet it no longer has to send.
LEMMA SentDue ==
  ASSUME ShareInv, FinishShareTick, NEW c \in ComputorIndex
  PROVE  /\ isBroadcasted' \in [ComputorIndex -> BOOLEAN]
         /\ shareTxs' \in [0 .. LastShareTick + 2 -> [ComputorIndex -> Nat]]
         /\ shareTxs'[shareTick + 1] = shareTxs[shareTick + 1]
         /\ \A t \in DOMAIN shareTxs' : t >= shareTick + 3 => shareTxs'[t] = NoReport
         /\ Total(Unsent(c)') \in Nat /\ shareTxs'[shareTick + 2][c] \in Nat
         /\ shareTxs'[shareTick + 2][c] + Total(Unsent(c)') <= Total(Unsent(c))
<1>1. /\ shareTick \in Nat /\ shareTick < LastShareTick /\ LastShareTick \in Nat
      /\ shareTxs \in [0 .. LastShareTick + 2 -> [ComputorIndex -> Nat]]
      /\ isBroadcasted \in [ComputorIndex -> BOOLEAN]
      /\ preparedShares \in [ComputorIndex -> [ComputorIndex -> Nat]]
      /\ preparedShares' = preparedShares
      /\ \A t \in DOMAIN shareTxs : t >= shareTick + 2 => shareTxs[t] = NoReport
  BY ShareTypes DEF FinishShareTick, ShareInv, PublicationOffset2
<1>2. /\ NoReport \in [ComputorIndex -> Nat] /\ NoReport[c] = 0
  BY DEF NoReport
<1> DEFINE leader == LeaderOf(shareTick + 2)
           f == Unsent(c)
           g == Unsent(c)'
<1>3. leader \in ComputorIndex
  BY <1>1, LeadersTicks
<1>4. \A own \in ComputorIndex : f[own] \in Nat /\ f[own] = IF isBroadcasted[own] THEN 0 ELSE preparedShares[own][c]
  BY <1>1 DEF Unsent
<1>5. \A own \in ComputorIndex : g[own] = IF isBroadcasted'[own] THEN 0 ELSE preparedShares[own][c]
  BY <1>1 DEF Unsent
<1>6. Total(f) = Summed(f, ComputorIndex) /\ Total(g) = Summed(g, ComputorIndex)
  BY Computors
<1>7. Total(f) \in Nat
  BY UnsentTyped
<1>8. /\ shareTick \in 0 .. LastShareTick + 2 /\ shareTick + 1 \in 0 .. LastShareTick + 2
      /\ shareTick + 2 \in 0 .. LastShareTick + 2
      /\ shareTick + 1 # shareTick /\ shareTick + 2 # shareTick + 1 /\ shareTick + 2 # shareTick
  BY <1>1
<1> HIDE DEF f, g
<1>9. CASE /\ shareTxs' = [shareTxs EXCEPT
                             ![shareTick + 2] = IF isBroadcasted[leader] THEN NoReport ELSE preparedShares[leader],
                             ![shareTick] = NoReport]
           /\ isBroadcasted' = [isBroadcasted EXCEPT ![leader] = TRUE]
  <2> DEFINE packet == IF isBroadcasted[leader] THEN NoReport ELSE preparedShares[leader]
  <2>1. packet \in [ComputorIndex -> Nat] /\ packet[c] = f[leader]
    BY <1>1, <1>2, <1>3, <1>4
  <2>2. shareTxs' = [shareTxs EXCEPT ![shareTick + 2] = packet, ![shareTick] = NoReport]
    BY <1>9
  <2> HIDE DEF packet
  <2>3. /\ shareTxs' \in [0 .. LastShareTick + 2 -> [ComputorIndex -> Nat]]
        /\ shareTxs'[shareTick + 1] = shareTxs[shareTick + 1] /\ shareTxs'[shareTick + 2] = packet
        /\ \A t \in 0 .. LastShareTick + 2 : t # shareTick /\ t # shareTick + 2 => shareTxs'[t] = shareTxs[t]
    BY <1>1, <1>2, <1>8, <2>1, <2>2
  <2>4. \A t \in DOMAIN shareTxs' : t >= shareTick + 3 => shareTxs'[t] = NoReport
    <3> SUFFICES ASSUME NEW t \in 0 .. LastShareTick + 2, t >= shareTick + 3
                 PROVE  shareTxs'[t] = NoReport
      BY <2>3
    <3>1. t # shareTick /\ t # shareTick + 2 /\ t >= shareTick + 2
      BY <1>1
    <3> QED
      BY <1>1, <2>3, <3>1
  <2>5. isBroadcasted' \in [ComputorIndex -> BOOLEAN]
    BY <1>1, <1>9
  <2>6. g[leader] = 0 /\ \A own \in ComputorIndex \ {leader} : g[own] = f[own]
    BY <1>1, <1>3, <1>4, <1>5, <1>9
  <2>7. Total(g) = Total(f) + (g[leader] - f[leader])
    <3>1. \A own \in ComputorIndex : f[own] \in Int
      BY <1>4
    <3>2. g[leader] \in Int /\ \A own \in ComputorIndex \ {leader} : g[own] = f[own]
      BY <2>6
    <3>3. leader \in ComputorIndex
      BY <1>3
    <3> HIDE DEF leader
    <3> QED
      BY <3>1, <3>2, <3>3, TotalChange
  <2>8. Total(g) + f[leader] = Total(f) /\ Total(g) \in Int
    <3>1. f[leader] \in Nat /\ g[leader] = 0
      BY <1>3, <1>4, <2>6
    <3> HIDE DEF leader
    <3>2. Total(g) = Total(f) + (0 - f[leader])
      BY <2>7, <3>1
    <3> QED
      BY <1>7, <3>1, <3>2
  <2>9. Total(g) \in Nat
    <3>1. ASSUME NEW own \in ComputorIndex PROVE g[own] \in Nat
      <4>1. f[own] \in Nat
        BY <1>4
      <4>2. CASE own = leader
        BY <2>6, <4>2
      <4>3. CASE own # leader
        BY <2>6, <4>1, <4>3
      <4> QED
        BY <4>2, <4>3
    <3> HIDE DEF g
    <3>2. Summed(g, ComputorIndex) \in Nat
      BY <3>1, Computors, SummedNat
    <3> QED
      BY <1>6, <3>2
  <2>10. shareTxs'[shareTick + 2][c] \in Nat /\ shareTxs'[shareTick + 2][c] + Total(g) <= Total(f)
    <3>1. f[leader] \in Nat
      BY <1>3, <1>4
    <3> QED
      BY <1>7, <2>1, <2>3, <2>8, <2>9, <3>1
  <2> QED
    BY <2>3, <2>4, <2>5, <2>9, <2>10 DEF f, g
<1>10. CASE shareTxs' = [shareTxs EXCEPT ![shareTick] = NoReport] /\ isBroadcasted' = isBroadcasted
  <2>1. /\ shareTxs' \in [0 .. LastShareTick + 2 -> [ComputorIndex -> Nat]]
        /\ shareTxs'[shareTick + 1] = shareTxs[shareTick + 1]
        /\ \A t \in 0 .. LastShareTick + 2 : t # shareTick => shareTxs'[t] = shareTxs[t]
    BY <1>1, <1>2, <1>8, <1>10
  <2>2. shareTxs'[shareTick + 2][c] = 0
    <3>1. shareTxs[shareTick + 2] = NoReport
      BY <1>1, <1>8
    <3> QED
      BY <1>2, <1>8, <2>1, <3>1
  <2>3. \A t \in DOMAIN shareTxs' : t >= shareTick + 3 => shareTxs'[t] = NoReport
    <3> SUFFICES ASSUME NEW t \in 0 .. LastShareTick + 2, t >= shareTick + 3
                 PROVE  shareTxs'[t] = NoReport
      BY <2>1
    <3>1. t # shareTick /\ t >= shareTick + 2
      BY <1>1
    <3> QED
      BY <1>1, <2>1, <3>1
  <2>4. g = f
    BY <1>1, <1>10 DEF f, g, Unsent
  <2>5. shareTxs'[shareTick + 2][c] + Total(g) <= Total(f)
    BY <1>7, <2>2, <2>4
  <2>6. Total(g) \in Nat /\ shareTxs'[shareTick + 2][c] \in Nat
    BY <1>7, <2>2, <2>4
  <2> QED
    BY <1>1, <1>10, <2>1, <2>3, <2>5, <2>6 DEF f, g
<1>11. \/ /\ shareTxs' = [shareTxs EXCEPT
                            ![shareTick + 2] = IF isBroadcasted[leader] THEN NoReport ELSE preparedShares[leader],
                            ![shareTick] = NoReport]
          /\ isBroadcasted' = [isBroadcasted EXCEPT ![leader] = TRUE]
       \/ shareTxs' = [shareTxs EXCEPT ![shareTick] = NoReport] /\ isBroadcasted' = isBroadcasted
  BY DEF FinishShareTick, SentFlags, PublicationOffset2
<1> QED
  BY <1>9, <1>10, <1>11

\* A tick of the shares: the packet of its leader is counted, the next one is published, and the
\* counts that were prepared are forgotten.
LEMMA FinishInv ==
  ASSUME ShareInv, FinishShareTick
  PROVE  ShareInv'
<1>1. /\ shareTick \in Nat /\ shareTick < LastShareTick /\ LastShareTick \in Nat
      /\ shareTick' = shareTick + 1 /\ preparedPackets' = 0 /\ preparedPackets \in {0, NumberOfComputors}
      /\ sharesCount' = IF preparedPackets = 0 THEN sharesCount ELSE NoReport
      /\ preparedShares' = preparedShares /\ recordedShares' = recordedShares
      /\ unverifiedShares' = IF ShareTickInCycle(shareTick + 1) = NumberOfComputors
                             THEN NoReport ELSE unverifiedShares
  BY ShareTypes DEF FinishShareTick, ShareInv
<1>2. NoReport \in [ComputorIndex -> Nat] /\ \A c \in ComputorIndex : NoReport[c] = 0
  BY DEF NoReport
<1>3. \A c \in ComputorIndex :
        /\ isBroadcasted' \in [ComputorIndex -> BOOLEAN]
        /\ shareTxs' \in [0 .. LastShareTick + 2 -> [ComputorIndex -> Nat]]
        /\ shareTxs'[shareTick + 1] = shareTxs[shareTick + 1]
        /\ \A t \in DOMAIN shareTxs' : t >= shareTick + 3 => shareTxs'[t] = NoReport
        /\ Total(Unsent(c)') \in Nat /\ shareTxs'[shareTick + 2][c] \in Nat
        /\ shareTxs'[shareTick + 2][c] + Total(Unsent(c)') <= Total(Unsent(c))
  BY SentDue
<1>4. /\ accumulatedSharesCount \in [ComputorIndex -> Nat]
      /\ shareTxs[shareTick] \in [ComputorIndex -> Nat]
  <2>1. shareTick \in 0 .. LastShareTick + 2
    BY <1>1
  <2> QED
    BY <2>1, ShareTypes DEF ShareInv
<1>5. \/ accumulatedSharesCount' = accumulatedSharesCount
      \/ accumulatedSharesCount' = Plus(accumulatedSharesCount, shareTxs[shareTick])
  BY DEF FinishShareTick
<1>6. /\ accumulatedSharesCount' \in [ComputorIndex -> Nat]
      /\ \A c \in ComputorIndex :
           accumulatedSharesCount'[c] <= accumulatedSharesCount[c] + shareTxs[shareTick][c]
  <2>1. /\ Plus(accumulatedSharesCount, shareTxs[shareTick]) \in [ComputorIndex -> Nat]
        /\ \A c \in ComputorIndex : Plus(accumulatedSharesCount, shareTxs[shareTick])[c]
                                      = accumulatedSharesCount[c] + shareTxs[shareTick][c]
    BY <1>4 DEF Plus
  <2>2. ASSUME NEW c \in ComputorIndex
        PROVE  accumulatedSharesCount'[c] <= accumulatedSharesCount[c] + shareTxs[shareTick][c]
    <3>1. accumulatedSharesCount[c] \in Nat /\ shareTxs[shareTick][c] \in Nat
      BY <1>4
    <3>2. \/ accumulatedSharesCount'[c] = accumulatedSharesCount[c]
          \/ accumulatedSharesCount'[c] = accumulatedSharesCount[c] + shareTxs[shareTick][c]
      BY <1>5, <2>1
    <3> QED
      BY <3>1, <3>2
  <2> QED
    BY <1>4, <1>5, <2>1, <2>2
<1>7. /\ shareTick' \in 0 .. LastShareTick /\ preparedPackets' \in 0 .. NumberOfComputors
      /\ recordedShares' \in [ComputorIndex -> Nat] /\ unverifiedShares' \in [ComputorIndex -> Nat]
      /\ preparedShares' \in [ComputorIndex -> [ComputorIndex -> Nat]]
      /\ sharesCount' \in [ComputorIndex -> Nat]
  <2>1. shareTick' \in 0 .. LastShareTick /\ preparedPackets' \in 0 .. NumberOfComputors
    <3>1. shareTick \in Nat /\ shareTick < LastShareTick /\ LastShareTick \in Nat
      BY ShareTypes DEF FinishShareTick
    <3>2. shareTick' = shareTick + 1 /\ preparedPackets' = 0
      BY DEF FinishShareTick
    <3>3. shareTick' \in 0 .. LastShareTick
      BY <3>1, <3>2
    <3> QED
      BY <3>2, <3>3, Computors
  <2>2. /\ recordedShares \in [ComputorIndex -> Nat] /\ unverifiedShares \in [ComputorIndex -> Nat]
        /\ preparedShares \in [ComputorIndex -> [ComputorIndex -> Nat]]
        /\ sharesCount \in [ComputorIndex -> Nat]
    BY DEF ShareInv
  <2>3. unverifiedShares' = NoReport \/ unverifiedShares' = unverifiedShares
    BY <1>1
  <2>4. sharesCount' = NoReport \/ sharesCount' = sharesCount
    BY <1>1
  <2> HIDE DEF NoReport
  <2>5. unverifiedShares' \in [ComputorIndex -> Nat] /\ sharesCount' \in [ComputorIndex -> Nat]
    BY <1>2, <2>2, <2>3, <2>4
  <2>6. recordedShares' = recordedShares /\ preparedShares' = preparedShares
    BY <1>1
  <2> QED
    BY <2>1, <2>2, <2>5, <2>6
<1>8. /\ isBroadcasted' \in [ComputorIndex -> BOOLEAN]
      /\ shareTxs' \in [0 .. LastShareTick + PublicationOffset2 -> [ComputorIndex -> Nat]]
      /\ \A t \in DOMAIN shareTxs' : t >= shareTick' + PublicationOffset2 => shareTxs'[t] = NoReport
  <2>1. \E c : c \in ComputorIndex
    BY <1>1, LeadersTicks
  <2>2. \A t \in 0 .. LastShareTick + 2 : t >= shareTick' + 2 => t >= shareTick + 3
    BY <1>1
  <2> QED
    BY <1>3, <2>1, <2>2 DEF PublicationOffset2
<1>9. ASSUME NEW c \in ComputorIndex
      PROVE  Due(c)' + Total(Awaited(c)') <= (NumberOfComputors - 1) * recordedShares'[c]
  <2> DEFINE n == NumberOfComputors - 1
             a == accumulatedSharesCount[c]
             b == accumulatedSharesCount'[c]
             t == shareTxs[shareTick][c]
             u == shareTxs[shareTick + 1][c]
             v == shareTxs'[shareTick + 2][c]
             s == Total(Unsent(c))
             w == Total(Unsent(c)')
             r == n * recordedShares[c]
             x == Total(Awaited(c))
             y == Total(Awaited(c)')
  <2>1. Due(c)' = b + u + v + w
    <3>1. Due(c)' = b + shareTxs'[shareTick'][c] + shareTxs'[shareTick' + 1][c] + w
      BY DEF Due
    <3>2. shareTick' + 1 = shareTick + 2
      BY <1>1
    <3> QED
      BY <1>1, <1>3, <3>1, <3>2
  <2>2. /\ a \in Nat /\ t \in Nat /\ u \in Nat /\ s \in Nat /\ b \in Nat /\ v \in Nat /\ w \in Nat
        /\ b <= a + t /\ v + w <= s
        /\ recordedShares[c] \in Nat /\ Due(c) = a + t + u + s
        /\ x \in Nat /\ Due(c) + x <= r
    BY <1>3, <1>6, ShareTypes, UnsentTyped DEF Due
  <2>3. r \in Nat
    BY <2>2, Multiplied
  <2>4. y = x
    <3>1. ASSUME NEW own \in ComputorIndex PROVE Awaited(c)'[own] = Awaited(c)[own]
      <4>1. own < NumberOfComputors /\ own \in Nat
        BY Computors DEF ComputorIndex
      <4>2. CASE preparedPackets = 0
        BY <1>1, <4>2 DEF Awaited
      <4>3. CASE preparedPackets = NumberOfComputors /\ preparedPackets # 0
        BY <1>1, <1>2, <4>1, <4>3 DEF Awaited
      <4> QED
        BY <1>1, <4>2, <4>3
    <3>2. Awaited(c)' = Awaited(c)
      BY <3>1 DEF Awaited
    <3> QED
      BY <3>2
  <2>5. recordedShares' = recordedShares
    BY <1>1
  <2> HIDE DEF n, a, b, t, u, v, s, w, r, x, y
  <2>6. b + u + v + w + y <= r
    BY <2>2, <2>3, <2>4
  <2>7. Due(c)' + y <= r
    BY <2>1, <2>6
  <2> QED
    BY <2>5, <2>7 DEF n, r, y
<1> QED
  BY <1>6, <1>7, <1>8, <1>9 DEF ShareInv, Due

\* Every step keeps the invariant of the shares.
LEMMA ShareInvStep == ShareInv /\ [ShareNext]_shareVars => ShareInv'
<1> SUFFICES ASSUME ShareInv, [ShareNext]_shareVars PROVE ShareInv'
  OBVIOUS
<1>1. ASSUME UNCHANGED <<shareTick, preparedPackets, sharesCount, preparedShares, isBroadcasted, shareTxs,
                         accumulatedSharesCount, recordedShares, unverifiedShares>>
      PROVE  ShareInv'
  <2>1. \A c : Unsent(c)' = Unsent(c) /\ Awaited(c)' = Awaited(c)
    BY <1>1 DEF Unsent, Awaited
  <2> QED
    BY <1>1, <2>1 DEF ShareInv, NoReport
<1>2. CASE \E kind \in {"share", "verdict"} : EnterShareRequest(kind)
  BY <1>1, <1>2 DEF EnterShareRequest
<1>3. CASE \E c \in MinedComputor : RecordShare(c) \/ DropInvalidShare(c)
  <2>1. MinedComputor \subseteq ComputorIndex
    BY AccountingAssumption
  <2> QED
    BY <1>3, <2>1, RecordInv, DropInv
<1>4. CASE UNCHANGED shareVars
  BY <1>1, <1>4 DEF shareVars
<1> QED
  BY <1>2, <1>3, <1>4, PrepareInv, FinishInv DEF ShareNext

\* An epoch begins without shares.
LEMMA ShareInvInit == ShareInit => ShareInv
<1> SUFFICES ASSUME ShareInit PROVE ShareInv
  OBVIOUS
<1>1. /\ NumberOfComputors \in Nat /\ NumberOfComputors >= 2 /\ LastShareTick \in Nat
      /\ LastShareTick >= 2 * NumberOfComputors - 1
  BY AccountingAssumption
<1>2. NoReport \in [ComputorIndex -> Nat] /\ \A c \in ComputorIndex : NoReport[c] = 0
  BY DEF NoReport
<1>3. shareTick \in 0 .. LastShareTick
  BY <1>1 DEF ShareInit, ShareCycle
<1>4. ASSUME NEW c \in ComputorIndex
      PROVE  Due(c) + Total(Awaited(c)) <= (NumberOfComputors - 1) * recordedShares[c]
  <2>1. Total(Unsent(c)) = 0
    <3>1. \A own \in ComputorIndex : Unsent(c)[own] = 0
      BY DEF Unsent, ShareInit
    <3>2. Summed(Unsent(c), ComputorIndex) = 0
      BY <3>1, Computors, SummedZero
    <3> QED
      BY <3>2, Computors
  <2>2. shareTxs[shareTick][c] = 0 /\ shareTxs[shareTick + 1][c] = 0
    <3>1. /\ shareTick \in 0 .. LastShareTick + PublicationOffset2
          /\ shareTick + 1 \in 0 .. LastShareTick + PublicationOffset2
      BY <1>1, <1>3 DEF PublicationOffset2
    <3> QED
      BY <1>2, <3>1 DEF ShareInit
  <2>3. accumulatedSharesCount[c] = 0 /\ sharesCount[c] = 0 /\ recordedShares[c] = 0
    BY <1>2 DEF ShareInit
  <2>4. (NumberOfComputors - 1) * 0 = 0
    BY <1>1
  <2>5. Total(Awaited(c)) = 0
    <3>1. \A own \in ComputorIndex : Awaited(c)[own] = 0
      BY <2>3 DEF Awaited
    <3>2. Summed(Awaited(c), ComputorIndex) = 0
      BY <3>1, Computors, SummedZero
    <3> QED
      BY <3>2, Computors
  <2> QED
    BY <2>1, <2>2, <2>3, <2>4, <2>5 DEF Due
<1>5. /\ preparedPackets \in 0 .. NumberOfComputors
      /\ sharesCount \in [ComputorIndex -> Nat] /\ recordedShares \in [ComputorIndex -> Nat]
      /\ unverifiedShares \in [ComputorIndex -> Nat] /\ accumulatedSharesCount \in [ComputorIndex -> Nat]
      /\ preparedShares \in [ComputorIndex -> [ComputorIndex -> Nat]]
      /\ isBroadcasted \in [ComputorIndex -> BOOLEAN]
      /\ shareTxs \in [0 .. LastShareTick + PublicationOffset2 -> [ComputorIndex -> Nat]]
      /\ \A t \in DOMAIN shareTxs : t >= shareTick + PublicationOffset2 => shareTxs[t] = NoReport
  BY <1>1, <1>2 DEF ShareInit
<1> QED
  BY <1>3, <1>4, <1>5 DEF ShareInv, Due

\* In every reachable state the shares that are counted, on the way or still to be counted are not
\* more than one for each other computor and recorded share.
THEOREM ShareInvariance == ShareSpec => []ShareInv
BY ShareInvInit, ShareInvStep, PTL DEF ShareSpec

\* A share is counted at most once by every computor but its own.
LEMMA SharesOnce == ShareInv => SharesCountedOnce
<1> SUFFICES ASSUME ShareInv, NEW c \in ComputorIndex
             PROVE  accumulatedSharesCount[c] <= (NumberOfComputors - 1) * recordedShares[c]
  BY DEF SharesCountedOnce
<1> DEFINE n == NumberOfComputors - 1
<1>1. /\ accumulatedSharesCount[c] \in Nat /\ shareTxs[shareTick][c] \in Nat
      /\ shareTxs[shareTick + 1][c] \in Nat /\ Total(Unsent(c)) \in Nat
      /\ Total(Awaited(c)) \in Nat /\ recordedShares[c] \in Nat
      /\ Due(c) + Total(Awaited(c)) <= n * recordedShares[c]
  BY ShareTypes, UnsentTyped
<1>2. n * recordedShares[c] \in Nat
  BY <1>1, Multiplied
<1> HIDE DEF n
<1>3. accumulatedSharesCount[c] <= n * recordedShares[c]
  BY <1>1, <1>2 DEF Due
<1> QED
  BY <1>3 DEF n

-----------------------------------------------------------------------------
(***************************************************************************)
(* Execution fees                                                          *)
(***************************************************************************)

\* The values of a function on a finite set are finitely many.
LEMMA ValuesFinite ==
  ASSUME NEW S, IsFiniteSet(S), NEW f
  PROVE  IsFiniteSet({f[x] : x \in S})
<1> DEFINE g == [x \in S |-> f[x]]
           T == {f[x] : x \in S}
<1>1. g \in [S -> T] /\ \A y \in T : \E x \in S : g[x] = y
  OBVIOUS
<1>2. g \in Surjection(S, T)
  BY <1>1 DEF Surjection
<1> QED
  BY <1>2, FS_Surjection

\* The value at the quorum's position is one of the values, and more computors reported at least
\* that much than can be faulty.
LEMMA QuorumValueBacked ==
  ASSUME NEW fees, \A c \in ComputorIndex : fees[c] \in Nat,
         Cardinality(FaultyLeader) < NumberOfComputors - (NumberOfComputors * 2) \div 3
  PROVE  /\ QuorumValue(fees) \in Nat
         /\ \E c \in ComputorIndex \ FaultyLeader : QuorumValue(fees) <= fees[c]
<1> DEFINE below(c) == {d \in ComputorIndex : fees[d] < fees[c]}
           Within == {c \in ComputorIndex : Cardinality(below(c)) <= QuorumIndex}
           S == {fees[c] : c \in Within}
           All == {fees[c] : c \in ComputorIndex}
<1>1. /\ NumberOfComputors \in Nat /\ NumberOfComputors >= 2 /\ IsFiniteSet(ComputorIndex)
      /\ Cardinality(ComputorIndex) = NumberOfComputors
  BY Computors
<1>2. QuorumIndex \in Nat
  <2>1. NumberOfComputors * 2 \in Nat
    BY <1>1
  <2> QED
    BY <2>1 DEF QuorumIndex
<1>3. QuorumValue(fees) = Max(S)
  BY DEF QuorumValue
<1>4. IsFiniteSet(All) /\ All # {} /\ All \subseteq Int
  <2>1. 0 \in ComputorIndex
    BY <1>1 DEF ComputorIndex
  <2>2. IsFiniteSet(All)
    BY <1>1, ValuesFinite
  <2> QED
    BY <2>1, <2>2
<1>5. S \subseteq All
  OBVIOUS
<1>6. S # {}
  <2> HIDE DEF All, S
  <2>1. Min(All) \in All /\ \A x \in All : Min(All) <= x
    BY <1>4, Extremes
  <2>2. PICK c \in ComputorIndex : fees[c] = Min(All)
    BY <2>1 DEF All
  <2>3. \A d \in ComputorIndex : fees[d] \in All /\ fees[d] \in Nat
    BY DEF All
  <2>4. below(c) = {}
    BY <2>1, <2>2, <2>3
  <2>5. Cardinality(below(c)) = 0
    BY <2>4, FS_EmptySet
  <2>6. c \in Within
    <3>1. Cardinality(below(c)) <= QuorumIndex
      BY <1>2, <2>5
    <3> HIDE DEF below
    <3> QED
      BY <3>1
  <2>7. fees[c] \in S
    BY <2>6 DEF S
  <2> QED
    BY <2>7
<1>7. IsFiniteSet(S) /\ S \subseteq Int
  BY <1>4, <1>5, FS_Subset
<1>8. Max(S) \in S
  <2> HIDE DEF S
  <2> QED
    BY <1>6, <1>7, Extremes
<1>9. PICK c \in ComputorIndex : Max(S) = fees[c] /\ Cardinality(below(c)) <= QuorumIndex
  BY <1>8
<1> HIDE DEF S
<1>10. SUFFICES ASSUME \A d \in ComputorIndex \ FaultyLeader : ~(fees[c] <= fees[d]) PROVE FALSE
  BY <1>3, <1>9, Zenon
<1>11. ComputorIndex \ FaultyLeader \subseteq below(c)
  BY <1>10
<1>12. below(c) \subseteq ComputorIndex /\ IsFiniteSet(below(c))
  BY <1>1, FS_Subset
<1>13. Cardinality(ComputorIndex \ FaultyLeader) <= Cardinality(below(c)) /\ Cardinality(below(c)) \in Nat
  BY <1>11, <1>12, FS_Subset, FS_CardinalityType
<1>14. IsFiniteSet(FaultyLeader) /\ FaultyLeader \subseteq ComputorIndex
  BY <1>1, AccountingAssumption, FS_Subset
<1>15. Cardinality(ComputorIndex \ FaultyLeader) = NumberOfComputors - Cardinality(FaultyLeader)
  <2>1. /\ IsFiniteSet(ComputorIndex \cap FaultyLeader)
        /\ Cardinality(ComputorIndex \ FaultyLeader)
             = Cardinality(ComputorIndex) - Cardinality(ComputorIndex \cap FaultyLeader)
    BY <1>1, FS_Difference, FS_Intersection
  <2>2. ComputorIndex \cap FaultyLeader = FaultyLeader
    BY <1>14
  <2> QED
    BY <1>1, <2>1, <2>2
<1>16. Cardinality(FaultyLeader) \in Nat
  BY <1>14, FS_CardinalityType
<1>17. QuorumIndex = (NumberOfComputors * 2) \div 3
  BY DEF QuorumIndex
<1>18. Cardinality(FaultyLeader) < NumberOfComputors - QuorumIndex
  BY <1>17
<1> QED
  BY <1>1, <1>2, <1>9, <1>13, <1>15, <1>16, <1>18

\* Phases and ticks: the last report of a phase is in the second tick of the next one.
LEMMA FeeTicks ==
  ASSUME NEW t \in Nat, t >= NumberOfComputors
  PROVE  /\ PhaseOf(t) \in Int /\ PhaseOf(t + 1) \in Int /\ PhaseOf(t - 2) \in Int
         /\ ProcessingTick(t) <=> t % NumberOfComputors = 1
         /\ PhaseOf(t + 1) # PhaseOf(t) <=> t % NumberOfComputors = NumberOfComputors - 1
         /\ t % NumberOfComputors # 1 => PhaseOf(t - 1) = PhaseOf(t - 2)
         /\ t % NumberOfComputors = 0 => (t + 1) % NumberOfComputors = 1
         /\ t % NumberOfComputors # 0 => (t + 1) % NumberOfComputors # 1
         /\ (t + 1) % NumberOfComputors # 0 => t % NumberOfComputors # NumberOfComputors - 1
<1> DEFINE n == NumberOfComputors
<1>1. n \in Nat \ {0} /\ n >= 2
  BY AccountingAssumption
<1>2. /\ t % n = n - 1 => (t + 1) % n = 0 /\ (t + 1) \div n = (t \div n) + 1
      /\ t % n # n - 1 => (t + 1) % n = (t % n) + 1 /\ (t + 1) \div n = t \div n
  <2>1. t \in Int
    OBVIOUS
  <2> QED
    BY <1>1, <2>1, NextNumber
<1>3. /\ (t - 2) % n = n - 1 => (t - 1) % n = 0 /\ (t - 1) \div n = ((t - 2) \div n) + 1
      /\ (t - 2) % n # n - 1 => (t - 1) % n = ((t - 2) % n) + 1 /\ (t - 1) \div n = (t - 2) \div n
  <2>1. PICK a \in Int : a = t - 2
    OBVIOUS
  <2>2. /\ a % n = n - 1 => (a + 1) % n = 0 /\ (a + 1) \div n = (a \div n) + 1
        /\ a % n # n - 1 => (a + 1) % n = (a % n) + 1 /\ (a + 1) \div n = a \div n
    BY <1>1, NextNumber
  <2>3. a + 1 = t - 1
    BY <2>1
  <2> QED
    BY <2>1, <2>2, <2>3
<1>4. (t - 1) % n = 0 => t % n = 1
  <2>1. PICK a \in Int : a = t - 1
    OBVIOUS
  <2>2. a % n # n - 1 => (a + 1) % n = (a % n) + 1
    BY <1>1, NextNumber
  <2>3. a + 1 = t /\ 0 # n - 1 /\ t - 1 = a
    BY <1>1, <2>1
  <2>4. ASSUME a % n = 0 PROVE (a + 1) % n = 1
    <3>1. a % n # n - 1
      BY <2>3, <2>4
    <3>2. (a + 1) % n = 0 + 1
      BY <2>2, <2>4, <3>1
    <3> QED
      BY <3>2
  <2> QED
    BY <2>3, <2>4, Zenon
<1>5. /\ t % n \in Int /\ t \div n \in Int /\ (t + 1) \div n \in Int /\ (t - 2) \div n \in Int
  <2>1. t \in Int /\ t + 1 \in Int /\ t - 2 \in Int
    OBVIOUS
  <2> QED
    BY <1>1, <2>1, Divided
<1> HIDE DEF n
<1>6. t % n = 0 => (t + 1) % n = 1
  BY <1>1, <1>2, <1>5
<1>7. t % n # 0 => (t + 1) % n # 1
  BY <1>1, <1>2, <1>5
<1>8. (t + 1) % n # 0 => t % n # n - 1
  BY <1>2
<1>9. (t + 1) \div n # t \div n <=> t % n = n - 1
  BY <1>2, <1>5
<1>10. t % n # 1 => (t - 1) \div n = (t - 2) \div n
  BY <1>3, <1>4
<1>11. 2 - 1 = 1
  OBVIOUS
<1> QED
  BY <1>5, <1>6, <1>7, <1>8, <1>9, <1>10, <1>11, Zenon DEF n, PhaseOf, ProcessingTick, PublicationOffset2

\* The reports that are stored when the one of this tick is processed.
StoredNow(included) ==
  IF included /\ feeTxs[feeTick].fee > 0
  THEN [feeReports EXCEPT ![LeaderOf(feeTick)] = feeTxs[feeTick]] ELSE feeReports

\* The stored reports are of one phase, and an honest one does not exceed what was measured.
LEMMA StoredReports ==
  ASSUME FeeInv, NEW included \in BOOLEAN
  PROVE  /\ StoredNow(included) \in [ComputorIndex -> FeeReport]
         /\ \A c \in ComputorIndex :
              /\ StoredNow(included)[c].fee > 0 =>
                   StoredNow(included)[c].phase = PhaseOf(feeTick - 2) - 1
              /\ c \notin FaultyLeader => StoredNow(included)[c].fee <= measuredFees[c]
<1> DEFINE l == LeaderOf(feeTick)
           tx == feeTxs[feeTick]
<1>1. feeTick \in Nat /\ feeTick <= LastFeeTick /\ LastFeeTick \in Nat
  BY AccountingAssumption DEF FeeInv
<1>2. l \in ComputorIndex
  BY <1>1, LeadersTicks
<1>3. feeReports \in [ComputorIndex -> FeeReport] /\ feeTxs \in [0 .. LastFeeTick + 2 -> FeeReport]
  BY DEF FeeInv, PublicationOffset2
<1>4. tx \in FeeReport
  BY <1>1, <1>3
<1>5. /\ tx.fee > 0 => tx.phase = PhaseOf(feeTick - 2) - 1
      /\ l \notin FaultyLeader => tx.fee <= measuredFees[l]
  <2>1. feeTick \in feeTick .. feeTick + 1 /\ ~(feeTick > feeTick)
    BY <1>1
  <2> QED
    BY <2>1 DEF FeeInv, PublicationOffset2
<1>6. \A c \in ComputorIndex :
        /\ feeReports[c].fee > 0 => feeReports[c].phase = PhaseOf(feeTick - 2) - 1
        /\ c \notin FaultyLeader => feeReports[c].fee <= measuredFees[c]
  BY DEF FeeInv, PublicationOffset2
<1>7. CASE StoredNow(included) = feeReports
  BY <1>3, <1>6, <1>7
<1>8. CASE StoredNow(included) = [feeReports EXCEPT ![l] = tx]
  <2> DEFINE new == StoredNow(included)
  <2> HIDE DEF new, tx, l
  <2>1. new = [feeReports EXCEPT ![l] = tx]
    BY <1>8 DEF new, l, tx
  <2>2. new \in [ComputorIndex -> FeeReport] /\ new[l] = tx
    BY <1>2, <1>3, <1>4, <2>1
  <2>3. \A c \in ComputorIndex : c # l => new[c] = feeReports[c]
    BY <1>3, <2>1
  <2>4. ASSUME NEW c \in ComputorIndex
        PROVE  /\ new[c].fee > 0 => new[c].phase = PhaseOf(feeTick - 2) - 1
               /\ c \notin FaultyLeader => new[c].fee <= measuredFees[c]
    <3>1. CASE c = l
      BY <1>5, <2>2, <3>1
    <3>2. CASE c # l
      BY <1>6, <2>3, <3>2
    <3> QED
      BY <3>1, <3>2
  <2> QED
    BY <2>2, <2>4 DEF new
<1> QED
  BY <1>7, <1>8 DEF StoredNow

\* What a tick does, in the words of the lemmas: the reports, the measured times, the next report.
LEMMA FeeTickParts ==
  ASSUME FeeTickStep
  PROVE  /\ feeTick < LastFeeTick /\ feeTick' = feeTick + 1
         /\ \E included \in BOOLEAN :
              \/ /\ ProcessingTick(feeTick) /\ feeReports' = [c \in ComputorIndex |-> NoFee]
                 /\ deduction' = [fee |-> QuorumValue([c \in ComputorIndex |-> StoredNow(included)[c].fee]),
                                  reports |-> StoredNow(included), measured |-> measuredFees]
              \/ /\ ~ProcessingTick(feeTick) /\ feeReports' = StoredNow(included)
                 /\ deduction' = deduction
         /\ \E run \in [ComputorIndex -> Nat] :
              phaseTimes' = IF PhaseOf(feeTick + 1) # PhaseOf(feeTick)
                            THEN [c \in ComputorIndex |->
                                    [active |-> 0,
                                     prev |-> [phaseTimes[c] EXCEPT !.active = @ + run[c]].active]]
                            ELSE [c \in ComputorIndex |->
                                    [phaseTimes[c] EXCEPT !.active = phaseTimes[c].active + run[c]]]
         /\ measuredFees' = IF ProcessingTick(feeTick)
                            THEN [c \in ComputorIndex |-> phaseTimes[c].prev] ELSE measuredFees
         /\ \E sent \in FeesSent(LeaderOf(feeTick + 2), feeTick) :
              feeTxs' = [feeTxs EXCEPT ![feeTick + 2] = sent, ![feeTick] = NoFee]
<1>1. feeTick < LastFeeTick /\ feeTick' = feeTick + 1
  BY DEF FeeTickStep
<1>2. \E included \in BOOLEAN :
        IF ProcessingTick(feeTick)
        THEN /\ feeReports' = [c \in ComputorIndex |-> NoFee]
             /\ deduction' = [fee |-> QuorumValue([c \in ComputorIndex |-> StoredNow(included)[c].fee]),
                              reports |-> StoredNow(included), measured |-> measuredFees]
        ELSE feeReports' = StoredNow(included) /\ deduction' = deduction
  BY DEF FeeTickStep, StoredNow
<1>3. \E run \in IF feeTick % NumberOfComputors = 0 /\ reservedFees' > 0 THEN RunTimes ELSE {NoReport} :
        LET now == [c \in ComputorIndex |-> [phaseTimes[c] EXCEPT !.active = @ + run[c]]]
            ends == PhaseOf(feeTick + 1) # PhaseOf(feeTick)
        IN /\ phaseTimes' = IF ends THEN [c \in ComputorIndex |-> [active |-> 0, prev |-> now[c].active]]
                            ELSE now
           /\ measuredFees' = IF ProcessingTick(feeTick)
                              THEN [c \in ComputorIndex |-> phaseTimes[c].prev] ELSE measuredFees
  BY DEF FeeTickStep
<1>4. \E sent \in FeesSent(LeaderOf(feeTick + 2), feeTick) :
        feeTxs' = [feeTxs EXCEPT ![feeTick + 2] = sent, ![feeTick] = NoFee]
  BY DEF FeeTickStep, PublicationOffset2
<1>5. RunTimes \cup {NoReport} \subseteq [ComputorIndex -> Nat]
  BY DEF RunTimes, NoReport
<1>6. PICK run \in IF feeTick % NumberOfComputors = 0 /\ reservedFees' > 0 THEN RunTimes ELSE {NoReport} :
        LET now == [c \in ComputorIndex |-> [phaseTimes[c] EXCEPT !.active = @ + run[c]]]
            ends == PhaseOf(feeTick + 1) # PhaseOf(feeTick)
        IN /\ phaseTimes' = IF ends THEN [c \in ComputorIndex |-> [active |-> 0, prev |-> now[c].active]]
                            ELSE now
           /\ measuredFees' = IF ProcessingTick(feeTick)
                              THEN [c \in ComputorIndex |-> phaseTimes[c].prev] ELSE measuredFees
  BY <1>3
<1>7. run \in [ComputorIndex -> Nat]
  BY <1>5
<1>8. phaseTimes' = IF PhaseOf(feeTick + 1) # PhaseOf(feeTick)
                    THEN [c \in ComputorIndex |->
                            [active |-> 0, prev |-> [phaseTimes[c] EXCEPT !.active = @ + run[c]].active]]
                    ELSE [c \in ComputorIndex |->
                            [phaseTimes[c] EXCEPT !.active = phaseTimes[c].active + run[c]]]
  BY <1>6
<1>9. measuredFees' = IF ProcessingTick(feeTick)
                      THEN [c \in ComputorIndex |-> phaseTimes[c].prev] ELSE measuredFees
  BY <1>6
<1>10. \E run1 \in [ComputorIndex -> Nat] :
         phaseTimes' = IF PhaseOf(feeTick + 1) # PhaseOf(feeTick)
                       THEN [c \in ComputorIndex |->
                               [active |-> 0, prev |-> [phaseTimes[c] EXCEPT !.active = @ + run1[c]].active]]
                       ELSE [c \in ComputorIndex |->
                               [phaseTimes[c] EXCEPT !.active = phaseTimes[c].active + run1[c]]]
  BY <1>7, <1>8, Zenon
<1>11. \E included \in BOOLEAN :
         \/ /\ ProcessingTick(feeTick) /\ feeReports' = [c \in ComputorIndex |-> NoFee]
            /\ deduction' = [fee |-> QuorumValue([c \in ComputorIndex |-> StoredNow(included)[c].fee]),
                             reports |-> StoredNow(included), measured |-> measuredFees]
         \/ /\ ~ProcessingTick(feeTick) /\ feeReports' = StoredNow(included)
            /\ deduction' = deduction
  BY <1>2, Zenon
<1> QED
  BY <1>1, <1>4, <1>9, <1>10, <1>11, Zenon

\* What was measured after a tick: outside of the first two ticks of a phase it is what the last
\* phase took.
LEMMA TimesAfter ==
  ASSUME FeeInv, FeeTickStep
  PROVE  /\ phaseTimes' \in [ComputorIndex -> [active : Nat, prev : Nat]]
         /\ measuredFees' \in [ComputorIndex -> Nat]
         /\ \A c \in ComputorIndex :
              /\ phaseTimes[c].prev \in Nat /\ measuredFees[c] \in Nat
              /\ feeTick % NumberOfComputors # NumberOfComputors - 1 =>
                   phaseTimes'[c].prev = phaseTimes[c].prev
              /\ feeTick % NumberOfComputors = 1 => measuredFees'[c] = phaseTimes[c].prev
              /\ feeTick % NumberOfComputors # 1 => measuredFees'[c] = measuredFees[c]
         /\ feeTick' % NumberOfComputors \notin {0, 1} =>
              \A c \in ComputorIndex : measuredFees'[c] = phaseTimes'[c].prev
<1> DEFINE n == NumberOfComputors
<1>1. feeTick \in Nat /\ feeTick >= n
  BY AccountingAssumption DEF FeeInv
<1>2. /\ ProcessingTick(feeTick) <=> feeTick % n = 1
      /\ PhaseOf(feeTick + 1) # PhaseOf(feeTick) <=> feeTick % n = n - 1
      /\ feeTick % n # 0 => (feeTick + 1) % n # 1
      /\ feeTick % n = 0 => (feeTick + 1) % n = 1
      /\ (feeTick + 1) % n # 0 => feeTick % n # n - 1
  BY <1>1, FeeTicks
<1>3. feeTick' = feeTick + 1
  BY FeeTickParts
<1>4. /\ phaseTimes \in [ComputorIndex -> [active : Nat, prev : Nat]]
      /\ measuredFees \in [ComputorIndex -> Nat]
      /\ feeTick % n \notin {0, 1} => \A c \in ComputorIndex : measuredFees[c] = phaseTimes[c].prev
  BY DEF FeeInv
<1>5. \A c \in ComputorIndex : phaseTimes[c] \in [active : Nat, prev : Nat] /\ phaseTimes[c].prev \in Nat
  BY <1>4
<1>6. PICK run \in [ComputorIndex -> Nat] :
        phaseTimes' = IF PhaseOf(feeTick + 1) # PhaseOf(feeTick)
                      THEN [c \in ComputorIndex |->
                              [active |-> 0, prev |-> [phaseTimes[c] EXCEPT !.active = @ + run[c]].active]]
                      ELSE [c \in ComputorIndex |->
                              [phaseTimes[c] EXCEPT !.active = phaseTimes[c].active + run[c]]]
  BY FeeTickParts
<1>7. measuredFees' = IF ProcessingTick(feeTick)
                      THEN [c \in ComputorIndex |-> phaseTimes[c].prev] ELSE measuredFees
  BY FeeTickParts
<1>8. \A c \in ComputorIndex :
        /\ [active |-> 0, prev |-> [phaseTimes[c] EXCEPT !.active = @ + run[c]].active]
             \in [active : Nat, prev : Nat]
        /\ [phaseTimes[c] EXCEPT !.active = phaseTimes[c].active + run[c]] \in [active : Nat, prev : Nat]
        /\ [phaseTimes[c] EXCEPT !.active = phaseTimes[c].active + run[c]].prev = phaseTimes[c].prev
  BY <1>5
<1>9. /\ phaseTimes' \in [ComputorIndex -> [active : Nat, prev : Nat]]
      /\ feeTick % n # n - 1 => \A c \in ComputorIndex : phaseTimes'[c].prev = phaseTimes[c].prev
  <2>1. CASE feeTick % n # n - 1
    <3>1. phaseTimes' = [c \in ComputorIndex |->
                           [phaseTimes[c] EXCEPT !.active = phaseTimes[c].active + run[c]]]
      BY <1>2, <1>6, <2>1
    <3> QED
      BY <1>8, <3>1
  <2>2. CASE feeTick % n = n - 1
    <3>1. phaseTimes' = [c \in ComputorIndex |->
                           [active |-> 0, prev |-> [phaseTimes[c] EXCEPT !.active = @ + run[c]].active]]
      BY <1>2, <1>6, <2>2
    <3> QED
      BY <1>8, <2>2, <3>1
  <2> QED
    BY <2>1, <2>2
<1>10. /\ feeTick % n = 1 => \A c \in ComputorIndex : measuredFees'[c] = phaseTimes[c].prev
       /\ feeTick % n # 1 => measuredFees' = measuredFees
       /\ measuredFees' \in [ComputorIndex -> Nat]
  <2>1. CASE feeTick % n = 1
    <3>1. measuredFees' = [c \in ComputorIndex |-> phaseTimes[c].prev]
      BY <1>2, <1>7, <2>1
    <3> QED
      BY <1>5, <2>1, <3>1
  <2>2. CASE feeTick % n # 1
    BY <1>2, <1>4, <1>7, <2>2
  <2> QED
    BY <2>1, <2>2
<1>11. ASSUME feeTick' % n \notin {0, 1}, NEW c \in ComputorIndex
       PROVE  measuredFees'[c] = phaseTimes'[c].prev
  <2>1. feeTick % n # n - 1 /\ feeTick % n # 0
    BY <1>2, <1>3, <1>11
  <2>2. phaseTimes'[c].prev = phaseTimes[c].prev
    BY <1>9, <2>1
  <2>3. CASE feeTick % n = 1
    BY <1>10, <2>2, <2>3
  <2>4. CASE feeTick % n # 1
    BY <1>4, <1>10, <2>1, <2>2, <2>4
  <2> QED
    BY <2>3, <2>4
<1>12. \A c \in ComputorIndex :
         /\ phaseTimes[c].prev \in Nat /\ measuredFees[c] \in Nat
         /\ feeTick % n # 1 => measuredFees'[c] = measuredFees[c]
  BY <1>4, <1>5, <1>10
<1> QED
  BY <1>9, <1>10, <1>11, <1>12

\* The report for the tick after the next is of the phase that ended last, and an honest leader
\* reports what its node measured.
LEMMA SentReport ==
  ASSUME FeeInv, NEW sent \in FeesSent(LeaderOf(feeTick + 2), feeTick)
  PROVE  /\ sent \in FeeReport
         /\ sent.fee > 0 => sent.phase = PhaseOf(feeTick) - 1
         /\ LeaderOf(feeTick + 2) \notin FaultyLeader => sent.fee = phaseTimes[LeaderOf(feeTick + 2)].prev
<1> DEFINE l == LeaderOf(feeTick + 2)
           p == PhaseOf(feeTick) - 1
<1>1. feeTick \in Nat /\ feeTick >= NumberOfComputors /\ feeTick + 2 \in Nat
  BY AccountingAssumption DEF FeeInv
<1>2. p \in Int
  BY <1>1, FeeTicks
<1>3. phaseTimes[l].prev \in Nat
  <2>1. l \in ComputorIndex
    BY <1>1, LeadersTicks
  <2>2. phaseTimes[l] \in [active : Nat, prev : Nat]
    BY <2>1 DEF FeeInv
  <2> QED
    BY <2>2
<1>4. \/ sent = [fee |-> phaseTimes[l].prev, phase |-> p]
      \/ /\ l \in FaultyLeader
         /\ sent = [fee |-> 0, phase |-> 0] \/ sent = [fee |-> 9, phase |-> p]
  BY DEF FeesSent, Report, NoFee
<1> HIDE DEF l, p
<1>5. sent \in FeeReport /\ (sent.fee > 0 => sent.phase = p)
  BY <1>2, <1>3, <1>4 DEF FeeReport
<1>6. l \notin FaultyLeader => sent.fee = phaseTimes[l].prev
  BY <1>4
<1> QED
  BY <1>5, <1>6 DEF l, p

\* The reports that are on the way after a tick.
LEMMA FeeTxsAfter ==
  ASSUME FeeInv, FeeTickStep
  PROVE  /\ feeTxs' \in [0 .. LastFeeTick + 2 -> FeeReport]
         /\ \A t \in feeTick + 1 .. feeTick + 2 :
              /\ feeTxs'[t].fee > 0 => feeTxs'[t].phase = PhaseOf(t - 2) - 1
              /\ LeaderOf(t) \notin FaultyLeader =>
                   feeTxs'[t].fee <= IF t > feeTick + 1 /\ ProcessingTick(feeTick + 1)
                                     THEN phaseTimes'[LeaderOf(t)].prev ELSE measuredFees'[LeaderOf(t)]
<1> DEFINE n == NumberOfComputors
<1>1. /\ feeTick \in Nat /\ feeTick >= n /\ feeTick < LastFeeTick /\ LastFeeTick \in Nat /\ n >= 2
      /\ n \in Nat
  <2>1. feeTick < LastFeeTick
    BY FeeTickParts
  <2>2. feeTick \in n .. LastFeeTick
    BY DEF FeeInv
  <2>3. LastFeeTick \in Nat /\ n \in Nat /\ n >= 2
    BY AccountingAssumption
  <2> QED
    BY <2>1, <2>2, <2>3
<1>2. PICK sent \in FeesSent(LeaderOf(feeTick + 2), feeTick) :
        feeTxs' = [feeTxs EXCEPT ![feeTick + 2] = sent, ![feeTick] = NoFee]
  BY FeeTickParts
<1>3. /\ sent \in FeeReport
      /\ sent.fee > 0 => sent.phase = PhaseOf(feeTick) - 1
      /\ LeaderOf(feeTick + 2) \notin FaultyLeader => sent.fee = phaseTimes[LeaderOf(feeTick + 2)].prev
  BY SentReport
<1>4. feeTxs \in [0 .. LastFeeTick + 2 -> FeeReport] /\ NoFee \in FeeReport
  BY DEF FeeInv, PublicationOffset2, NoFee, Report, FeeReport
<1>5. /\ feeTick \in 0 .. LastFeeTick + 2 /\ feeTick + 1 \in 0 .. LastFeeTick + 2
      /\ feeTick + 2 \in 0 .. LastFeeTick + 2
      /\ feeTick + 1 # feeTick /\ feeTick + 1 # feeTick + 2 /\ feeTick # feeTick + 2
  BY <1>1
<1>6. /\ feeTxs' \in [0 .. LastFeeTick + 2 -> FeeReport]
      /\ feeTxs'[feeTick + 1] = feeTxs[feeTick + 1] /\ feeTxs'[feeTick + 2] = sent
  BY <1>2, <1>3, <1>4, <1>5
<1>7. /\ ProcessingTick(feeTick) <=> feeTick % n = 1
      /\ ProcessingTick(feeTick + 1) <=> (feeTick + 1) % n = 1
      /\ feeTick % n # 0 => (feeTick + 1) % n # 1
      /\ feeTick % n = 0 => (feeTick + 1) % n = 1
  <2>1. ProcessingTick(feeTick + 1) <=> (feeTick + 1) % n = 1
    BY DEF ProcessingTick, PublicationOffset2
  <2> QED
    BY <1>1, <2>1, FeeTicks
<1>8. /\ feeTxs[feeTick + 1].fee > 0 =>
           feeTxs[feeTick + 1].phase = PhaseOf((feeTick + 1) - 2) - 1
      /\ LeaderOf(feeTick + 1) \notin FaultyLeader =>
           feeTxs[feeTick + 1].fee <= IF ProcessingTick(feeTick) THEN phaseTimes[LeaderOf(feeTick + 1)].prev
                                      ELSE measuredFees[LeaderOf(feeTick + 1)]
  <2>1. feeTick + 1 \in feeTick .. feeTick + 1 /\ feeTick + 1 > feeTick
    BY <1>1
  <2> QED
    BY <2>1 DEF FeeInv, PublicationOffset2
<1>9. LeaderOf(feeTick + 1) \in ComputorIndex /\ LeaderOf(feeTick + 2) \in ComputorIndex
  <2>1. feeTick + 1 \in Nat /\ feeTick + 2 \in Nat
    BY <1>1
  <2> QED
    BY <2>1, LeadersTicks
<1>10. \A c \in ComputorIndex :
         /\ phaseTimes[c].prev \in Nat /\ measuredFees[c] \in Nat
         /\ feeTick % n # n - 1 => phaseTimes'[c].prev = phaseTimes[c].prev
         /\ feeTick % n = 1 => measuredFees'[c] = phaseTimes[c].prev
         /\ feeTick % n # 1 => measuredFees'[c] = measuredFees[c]
         /\ feeTick % n \notin {0, 1} => measuredFees[c] = phaseTimes[c].prev
  BY TimesAfter DEF FeeInv
<1>11. LeaderOf(feeTick + 1) \notin FaultyLeader =>
         feeTxs'[feeTick + 1].fee <= measuredFees'[LeaderOf(feeTick + 1)]
  <2> DEFINE c == LeaderOf(feeTick + 1)
  <2>1. /\ feeTick % n = 1 => measuredFees'[c] = phaseTimes[c].prev
        /\ feeTick % n # 1 => measuredFees'[c] = measuredFees[c]
    BY <1>9, <1>10
  <2> HIDE DEF c
  <2> QED
    BY <1>6, <1>7, <1>8, <2>1 DEF c
<1>12. LeaderOf(feeTick + 2) \notin FaultyLeader =>
         feeTxs'[feeTick + 2].fee <= IF ProcessingTick(feeTick + 1)
                                     THEN phaseTimes'[LeaderOf(feeTick + 2)].prev
                                     ELSE measuredFees'[LeaderOf(feeTick + 2)]
  <2> DEFINE c == LeaderOf(feeTick + 2)
  <2>1. /\ phaseTimes[c].prev \in Nat
        /\ feeTick % n # n - 1 => phaseTimes'[c].prev = phaseTimes[c].prev
        /\ feeTick % n = 1 => measuredFees'[c] = phaseTimes[c].prev
        /\ feeTick % n # 1 => measuredFees'[c] = measuredFees[c]
        /\ feeTick % n \notin {0, 1} => measuredFees[c] = phaseTimes[c].prev
    BY <1>9, <1>10
  <2> SUFFICES ASSUME c \notin FaultyLeader
               PROVE  phaseTimes[c].prev <= IF ProcessingTick(feeTick + 1) THEN phaseTimes'[c].prev
                                            ELSE measuredFees'[c]
    BY <1>3, <1>6
  <2> HIDE DEF c
  <2>2. CASE feeTick % n = 0
    <3>1. ProcessingTick(feeTick + 1) /\ feeTick % n # n - 1
      BY <1>1, <1>7, <2>2
    <3> QED
      BY <2>1, <3>1
  <2>3. CASE feeTick % n = 1
    <3>1. ~ProcessingTick(feeTick + 1)
      BY <1>7, <2>3
    <3> QED
      BY <2>1, <2>3, <3>1
  <2>4. CASE feeTick % n \notin {0, 1}
    <3>1. ~ProcessingTick(feeTick + 1)
      BY <1>7, <2>4
    <3> QED
      BY <2>1, <2>4, <3>1
  <2> QED
    BY <2>2, <2>3, <2>4
<1>13. /\ feeTxs'[feeTick + 1].fee > 0 => feeTxs'[feeTick + 1].phase = PhaseOf((feeTick + 1) - 2) - 1
       /\ feeTxs'[feeTick + 2].fee > 0 => feeTxs'[feeTick + 2].phase = PhaseOf((feeTick + 2) - 2) - 1
  <2>1. (feeTick + 2) - 2 = feeTick
    BY <1>1
  <2> QED
    BY <1>3, <1>6, <1>8, <2>1
<1>14. ASSUME NEW t \in feeTick + 1 .. feeTick + 2
       PROVE  /\ feeTxs'[t].fee > 0 => feeTxs'[t].phase = PhaseOf(t - 2) - 1
              /\ LeaderOf(t) \notin FaultyLeader =>
                   feeTxs'[t].fee <= IF t > feeTick + 1 /\ ProcessingTick(feeTick + 1)
                                     THEN phaseTimes'[LeaderOf(t)].prev ELSE measuredFees'[LeaderOf(t)]
  <2>1. CASE t = feeTick + 1
    <3>1. ~(t > feeTick + 1)
      BY <1>1, <2>1
    <3> QED
      BY <1>11, <1>13, <2>1, <3>1
  <2>2. CASE t = feeTick + 2
    <3>1. t > feeTick + 1
      BY <1>1, <2>2
    <3> QED
      BY <1>12, <1>13, <2>2, <3>1
  <2> QED
    BY <1>1, <2>1, <2>2
<1> QED
  BY <1>6, <1>14

\* The stored reports after a tick; those processed in it are of one phase and back the fee.
LEMMA FeeReportsAfter ==
  ASSUME FeeInv, FeeTickStep, FeesBacked
  PROVE  /\ feeReports' \in [ComputorIndex -> FeeReport]
         /\ \A c \in ComputorIndex :
              /\ feeReports'[c].fee > 0 => feeReports'[c].phase = PhaseOf((feeTick + 1) - 2) - 1
              /\ c \notin FaultyLeader => feeReports'[c].fee <= measuredFees'[c]
         /\ FeesBacked'
<1> DEFINE n == NumberOfComputors
<1>1. feeTick \in Nat /\ feeTick >= n
  BY AccountingAssumption DEF FeeInv
<1>2. /\ ProcessingTick(feeTick) <=> feeTick % n = 1
      /\ feeTick % n # 1 => PhaseOf(feeTick - 1) = PhaseOf(feeTick - 2)
  BY <1>1, FeeTicks
<1>3. PICK included \in BOOLEAN :
        \/ /\ ProcessingTick(feeTick) /\ feeReports' = [c \in ComputorIndex |-> NoFee]
           /\ deduction' = [fee |-> QuorumValue([c \in ComputorIndex |-> StoredNow(included)[c].fee]),
                            reports |-> StoredNow(included), measured |-> measuredFees]
        \/ /\ ~ProcessingTick(feeTick) /\ feeReports' = StoredNow(included)
           /\ deduction' = deduction
  BY FeeTickParts
<1>4. PICK stored : stored = StoredNow(included)
  OBVIOUS
<1>5. /\ stored \in [ComputorIndex -> FeeReport]
      /\ \A c \in ComputorIndex :
           /\ stored[c].fee > 0 => stored[c].phase = PhaseOf(feeTick - 2) - 1
           /\ c \notin FaultyLeader => stored[c].fee <= measuredFees[c]
  BY <1>4, StoredReports
<1>6. \A c \in ComputorIndex :
        /\ measuredFees'[c] \in Nat
        /\ feeTick % n # 1 => measuredFees'[c] = measuredFees[c]
  BY TimesAfter
<1>7. NoFee \in FeeReport /\ NoFee.fee = 0
  BY DEF NoFee, Report, FeeReport
<1>8. CASE /\ ProcessingTick(feeTick) /\ feeReports' = [c \in ComputorIndex |-> NoFee]
           /\ deduction' = [fee |-> QuorumValue([c \in ComputorIndex |-> StoredNow(included)[c].fee]),
                            reports |-> StoredNow(included), measured |-> measuredFees]
  <2>1. feeReports' \in [ComputorIndex -> FeeReport] /\ \A c \in ComputorIndex : feeReports'[c].fee = 0
    BY <1>7, <1>8
  <2>2. \A c \in ComputorIndex :
          /\ ~(feeReports'[c].fee > 0)
          /\ feeReports'[c].fee <= measuredFees'[c]
    BY <1>6, <2>1
  <2> DEFINE fees == [c \in ComputorIndex |-> stored[c].fee]
  <2>3. /\ deduction'.fee = QuorumValue(fees) /\ deduction'.reports = stored
        /\ deduction'.measured = measuredFees
    BY <1>4, <1>8
  <2>4. \A c \in ComputorIndex : fees[c] \in Nat /\ fees[c] = stored[c].fee
    BY <1>5 DEF FeeReport
  <2> HIDE DEF fees
  <2>5. \A c, d \in ComputorIndex :
          deduction'.reports[c].fee > 0 /\ deduction'.reports[d].fee > 0 =>
            deduction'.reports[c].phase = deduction'.reports[d].phase
    BY <1>5, <2>3
  <2>6. ASSUME Cardinality(FaultyLeader) < n - (n * 2) \div 3
        PROVE  \E c \in ComputorIndex \ FaultyLeader : deduction'.fee <= deduction'.measured[c]
    <3>1. PICK c \in ComputorIndex \ FaultyLeader : QuorumValue(fees) <= fees[c]
      BY <2>4, <2>6, QuorumValueBacked
    <3>2. fees[c] <= measuredFees[c] /\ fees[c] \in Nat /\ measuredFees[c] \in Nat
      BY <1>5, <2>4, TimesAfter
    <3>3. QuorumValue(fees) \in Nat
      BY <2>4, <2>6, QuorumValueBacked
    <3>4. QuorumValue(fees) <= measuredFees[c]
      BY <3>1, <3>2, <3>3
    <3> QED
      BY <2>3, <3>4
  <2>7. FeesBacked'
    BY <2>5, <2>6 DEF FeesBacked
  <2> QED
    BY <2>1, <2>2, <2>7
<1>9. CASE ~ProcessingTick(feeTick) /\ feeReports' = StoredNow(included) /\ deduction' = deduction
  <2>1. feeReports' = stored /\ feeTick % n # 1
    BY <1>2, <1>4, <1>9
  <2>2. PhaseOf((feeTick + 1) - 2) = PhaseOf(feeTick - 2)
    <3>1. (feeTick + 1) - 2 = feeTick - 1
      BY <1>1
    <3> QED
      BY <1>2, <2>1, <3>1
  <2>3. \A c \in ComputorIndex :
          /\ feeReports'[c].fee > 0 => feeReports'[c].phase = PhaseOf((feeTick + 1) - 2) - 1
          /\ c \notin FaultyLeader => feeReports'[c].fee <= measuredFees'[c]
    BY <1>5, <1>6, <2>1, <2>2
  <2>4. FeesBacked'
    BY <1>9 DEF FeesBacked
  <2> QED
    BY <1>5, <2>1, <2>3, <2>4
<1> QED
  BY <1>3, <1>8, <1>9

\* Every step keeps the invariant of the fees.
LEMMA FeeInvStep == FeeInv /\ FeesBacked /\ [FeeTickStep]_feeVars => FeeInv' /\ FeesBacked'
<1> SUFFICES ASSUME FeeInv, FeesBacked, [FeeTickStep]_feeVars PROVE FeeInv' /\ FeesBacked'
  OBVIOUS
<1>1. CASE FeeTickStep
  <2>1. feeTick' \in NumberOfComputors .. LastFeeTick /\ feeTick' = feeTick + 1 /\ feeTick \in Nat
    <3>1. feeTick < LastFeeTick /\ feeTick' = feeTick + 1
      BY <1>1, FeeTickParts
    <3>2. feeTick \in NumberOfComputors .. LastFeeTick
      BY DEF FeeInv
    <3>3. LastFeeTick \in Nat /\ NumberOfComputors \in Nat
      BY AccountingAssumption
    <3> QED
      BY <3>1, <3>2, <3>3
  <2>2. /\ phaseTimes' \in [ComputorIndex -> [active : Nat, prev : Nat]]
        /\ measuredFees' \in [ComputorIndex -> Nat]
        /\ feeTick' % NumberOfComputors \notin {0, 1} =>
             \A c \in ComputorIndex : measuredFees'[c] = phaseTimes'[c].prev
    BY <1>1, TimesAfter
  <2>3. /\ feeTxs' \in [0 .. LastFeeTick + 2 -> FeeReport]
        /\ \A t \in feeTick + 1 .. feeTick + 2 :
             /\ feeTxs'[t].fee > 0 => feeTxs'[t].phase = PhaseOf(t - 2) - 1
             /\ LeaderOf(t) \notin FaultyLeader =>
                  feeTxs'[t].fee <= IF t > feeTick + 1 /\ ProcessingTick(feeTick + 1)
                                    THEN phaseTimes'[LeaderOf(t)].prev ELSE measuredFees'[LeaderOf(t)]
    BY <1>1, FeeTxsAfter
  <2>4. /\ feeReports' \in [ComputorIndex -> FeeReport]
        /\ \A c \in ComputorIndex :
             /\ feeReports'[c].fee > 0 => feeReports'[c].phase = PhaseOf((feeTick + 1) - 2) - 1
             /\ c \notin FaultyLeader => feeReports'[c].fee <= measuredFees'[c]
        /\ FeesBacked'
    BY <1>1, FeeReportsAfter
  <2>5. feeTick' + 1 = feeTick + 2
    BY <2>1
  <2>6. \A t \in feeTick' .. feeTick' + 1 :
          /\ feeTxs'[t].fee > 0 => feeTxs'[t].phase = PhaseOf(t - 2) - 1
          /\ LeaderOf(t) \notin FaultyLeader =>
               feeTxs'[t].fee <= IF t > feeTick' /\ ProcessingTick(feeTick')
                                 THEN phaseTimes'[LeaderOf(t)].prev ELSE measuredFees'[LeaderOf(t)]
    BY <2>1, <2>3, <2>5
  <2>7. \A c \in ComputorIndex :
          /\ feeReports'[c].fee > 0 => feeReports'[c].phase = PhaseOf(feeTick' - 2) - 1
          /\ c \notin FaultyLeader => feeReports'[c].fee <= measuredFees'[c]
    BY <2>1, <2>4
  <2>8. FeeInv'
    BY <2>1, <2>2, <2>3, <2>4, <2>6, <2>7, Zenon
    DEF FeeInv, PublicationOffset2, PhaseOf, LeaderOf, ProcessingTick, FeeReport
  <2> QED
    BY <2>4, <2>8
<1>2. CASE UNCHANGED feeVars
  BY <1>2 DEF feeVars, FeeInv, FeesBacked
<1> QED
  BY <1>1, <1>2

\* An epoch begins without reports.
LEMMA FeeInvInit == FeeInit => FeeInv /\ FeesBacked
<1> SUFFICES ASSUME FeeInit PROVE FeeInv /\ FeesBacked
  OBVIOUS
<1>1. /\ NumberOfComputors \in Nat /\ NumberOfComputors >= 2 /\ LastFeeTick \in Nat
      /\ LastFeeTick >= NumberOfComputors
  BY AccountingAssumption
<1>2. NoFee \in FeeReport /\ NoFee.fee = 0
  BY DEF NoFee, Report, FeeReport
<1>3. feeTick = NumberOfComputors /\ feeTick \in NumberOfComputors .. LastFeeTick /\ feeTick \in Nat
  BY <1>1 DEF FeeInit
<1>4. phaseTimes = [c \in ComputorIndex |-> [active |-> 0, prev |-> 0]]
  BY DEF FeeInit
<1>5. /\ phaseTimes \in [ComputorIndex -> [active : Nat, prev : Nat]]
      /\ \A c \in ComputorIndex : phaseTimes[c].prev = 0
  BY <1>4
<1>6. /\ measuredFees \in [ComputorIndex -> Nat]
      /\ \A c \in ComputorIndex : measuredFees[c] = 0
  BY DEF FeeInit, NoReport
<1>7. /\ feeTxs \in [0 .. LastFeeTick + PublicationOffset2 -> FeeReport]
      /\ \A t \in 0 .. LastFeeTick + PublicationOffset2 : feeTxs[t] = NoFee
  BY <1>2 DEF FeeInit
<1>8. /\ feeReports \in [ComputorIndex -> FeeReport]
      /\ \A c \in ComputorIndex : feeReports[c] = NoFee
  BY <1>2 DEF FeeInit
<1>9. ASSUME NEW t \in feeTick .. feeTick + 1
      PROVE  /\ ~(feeTxs[t].fee > 0)
             /\ LeaderOf(t) \notin FaultyLeader =>
                  feeTxs[t].fee <= IF t > feeTick /\ ProcessingTick(feeTick)
                                   THEN phaseTimes[LeaderOf(t)].prev ELSE measuredFees[LeaderOf(t)]
  <2>1. t \in 0 .. LastFeeTick + PublicationOffset2 /\ t \in Nat
    BY <1>1, <1>3 DEF PublicationOffset2
  <2>2. LeaderOf(t) \in ComputorIndex
    BY <2>1, LeadersTicks
  <2> QED
    BY <1>2, <1>5, <1>6, <1>7, <2>1, <2>2
<1>10. FeeInv
  BY <1>2, <1>3, <1>5, <1>6, <1>7, <1>8, <1>9 DEF FeeInv
<1>11. FeesBacked
  <2>1. /\ deduction.fee = 0 /\ \A c \in ComputorIndex : deduction.reports[c] = NoFee
        /\ \A c \in ComputorIndex : deduction.measured[c] = 0
    BY DEF FeeInit, NoReport
  <2>2. Cardinality(FaultyLeader) < NumberOfComputors - (NumberOfComputors * 2) \div 3 =>
          \E c \in ComputorIndex \ FaultyLeader : TRUE
    <3> DEFINE fees == [c \in ComputorIndex |-> 0]
    <3>1. \A c \in ComputorIndex : fees[c] \in Nat
      OBVIOUS
    <3> HIDE DEF fees
    <3> QED
      BY <3>1, QuorumValueBacked
  <2> QED
    BY <1>2, <2>1, <2>2 DEF FeesBacked
<1> QED
  BY <1>10, <1>11

\* The invariant of the fees holds in every run of their account: an honest leader never reports
\* more than its node measured, and the reports processed together are of one phase.
THEOREM FeeInvariance == FeeSpec => [](FeeInv /\ FeesBacked)
<1>1. FeeInit => FeeInv /\ FeesBacked
  BY FeeInvInit
<1>2. (FeeInv /\ FeesBacked) /\ [FeeTickStep]_feeVars => (FeeInv /\ FeesBacked)'
  BY FeeInvStep
<1> QED
  BY <1>1, <1>2, PTL DEF FeeSpec

-----------------------------------------------------------------------------
(***************************************************************************)
(* Issuance                                                                *)
(***************************************************************************)

\* A factor of at most s, and the division by s that takes it back.
LEMMA Scaled ==
  ASSUME NEW s \in Nat \ {0}, NEW f \in 0 .. s, NEW a \in Nat, NEW b \in Nat, a <= b
  PROVE  /\ f * a \in Nat /\ f * a <= s * b /\ s * b \in Nat
         /\ f = s /\ a = b => f * a = s * b
<1>1. f * a \in Nat /\ s * b \in Nat /\ s * a \in Nat
  OBVIOUS
<1>2. (s - f) * a >= 0 /\ (s - f) * a = s * a - f * a
  OBVIOUS
<1>3. s * (b - a) >= 0 /\ s * (b - a) = s * b - s * a
  OBVIOUS
<1> QED
  BY <1>1, <1>2, <1>3

\* Division by the scale undoes the multiplication with it, up to the rounding.
LEMMA Unscaled ==
  ASSUME NEW s \in Nat \ {0}, NEW x \in Nat, NEW y \in Nat, x <= s * y
  PROVE  x \div s \in Nat /\ x \div s <= y /\ (x = s * y => x \div s = y)
<1> DEFINE q == x \div s
           r == x % s
<1>1. q \in Int /\ r \in 0 .. s - 1 /\ x = s * q + r
  <2>1. x \in Int
    OBVIOUS
  <2> QED
    BY <2>1, Divided
<1>2. x = s * y => q = y
  <2>1. y \in Int /\ 0 \in 0 .. s - 1 /\ x \in Int /\ (x = s * y => x = s * y + 0)
    OBVIOUS
  <2> QED
    BY <2>1, Quotient
<1> HIDE DEF q, r
<1>3. s * q \in Int /\ s * y \in Int
  BY <1>1
<1>4. q >= 0
  <2>1. q <= -1 => s * q <= -s
    BY <1>1, Multiples
  <2> QED
    BY <1>1, <1>3, <2>1
<1>5. q <= y
  <2>1. q - y \in Int /\ s * (q - y) = s * q - s * y
    BY <1>1
  <2>2. q - y >= 1 => s * (q - y) >= s
    BY <2>1, Multiples
  <2> QED
    BY <1>1, <1>3, <2>1, <2>2
<1> QED
  BY <1>1, <1>2, <1>4, <1>5 DEF q

\* The score of the quorum is positive, and reached by all that have less than a quorum of better ones.
LEMMA QuorumScoreReached ==
  ASSUME NEW score \in [ComputorIndex -> Nat]
  PROVE  /\ QuorumScore(score) \in Nat \ {0}
         /\ \A c \in ComputorIndex :
              score[c] > 0 /\ Cardinality({d \in ComputorIndex : score[d] > score[c]}) < Quorum
                => score[c] >= QuorumScore(score)
<1> DEFINE better(c) == {d \in ComputorIndex : score[d] > score[c]}
           Best == {c \in ComputorIndex : Cardinality(better(c)) < Quorum}
           S == {score[c] : c \in Best}
           All == {score[c] : c \in ComputorIndex}
<1>1. /\ NumberOfComputors \in Nat /\ NumberOfComputors >= 2 /\ IsFiniteSet(ComputorIndex)
  BY Computors
<1>2. Quorum \in Nat /\ Quorum >= 1
  BY AccountingAssumption
<1>3. QuorumScore(score) = Max({Min(S), 1})
  BY DEF QuorumScore
<1>4. IsFiniteSet(All) /\ All # {} /\ All \subseteq Nat
  <2>1. 0 \in ComputorIndex
    BY <1>1 DEF ComputorIndex
  <2>2. IsFiniteSet(All)
    BY <1>1, ValuesFinite
  <2> QED
    BY <2>1, <2>2
<1>5. S \subseteq All
  OBVIOUS
<1>6. S # {}
  <2> HIDE DEF All, S
  <2>1. All \subseteq Int
    BY <1>4
  <2>2. Max(All) \in All /\ \A x \in All : x <= Max(All)
    BY <1>4, <2>1, Extremes
  <2>3. PICK c \in ComputorIndex : score[c] = Max(All)
    BY <2>2 DEF All
  <2>4. \A d \in ComputorIndex : score[d] \in All /\ score[d] \in Nat
    BY DEF All
  <2>5. better(c) = {}
    BY <2>2, <2>3, <2>4
  <2>6. Cardinality(better(c)) = 0
    BY <2>5, FS_EmptySet
  <2>7. c \in Best
    <3>1. Cardinality(better(c)) < Quorum
      BY <1>2, <2>6
    <3> HIDE DEF better
    <3> QED
      BY <3>1
  <2> QED
    BY <2>7 DEF S
<1>7. IsFiniteSet(S) /\ S \subseteq Int /\ S \subseteq Nat
  <2> HIDE DEF S, All
  <2>1. S \subseteq Nat
    BY <1>4, <1>5
  <2>2. IsFiniteSet(S)
    BY <1>4, <1>5, FS_Subset
  <2> QED
    BY <2>1, <2>2
<1>8. Min(S) \in S /\ \A x \in S : Min(S) <= x
  <2> HIDE DEF S
  <2> QED
    BY <1>6, <1>7, Extremes
<1>9. ASSUME NEW c \in ComputorIndex, Cardinality(better(c)) < Quorum
      PROVE  score[c] \in S
  <2>1. c \in Best
    BY <1>9
  <2> QED
    BY <2>1
<1> HIDE DEF S
<1>10. Min(S) \in Nat
  BY <1>7, <1>8
<1>11. PICK least \in Nat : least = Min(S)
  BY <1>10
<1>12. Max({least, 1}) \in {least, 1} /\ \A x \in {least, 1} : x <= Max({least, 1})
  <2>1. IsFiniteSet({least, 1}) /\ {least, 1} # {} /\ {least, 1} \subseteq Int
    <3>1. IsFiniteSet({least} \cup {1}) /\ {least} \cup {1} = {least, 1}
      BY FS_Singleton, FS_Union
    <3> QED
      BY <3>1
  <2> QED
    BY <2>1, Extremes
<1>13. QuorumScore(score) \in {least, 1} /\ 1 <= QuorumScore(score)
  BY <1>3, <1>11, <1>12
<1>14. QuorumScore(score) \in Nat \ {0}
  BY <1>13
<1>15. ASSUME NEW c \in ComputorIndex, score[c] > 0, Cardinality(better(c)) < Quorum
       PROVE  score[c] >= QuorumScore(score)
  <2>1. least <= score[c] /\ score[c] \in Nat
    BY <1>8, <1>9, <1>11, <1>15
  <2> QED
    BY <1>13, <1>15, <2>1
<1> QED
  BY <1>14, <1>15

\* A factor is between 0 and the scaling, which a computor in the quorum reaches.
LEMMA RevFactorTyped ==
  ASSUME NEW score \in [ComputorIndex -> Nat], NEW c \in ComputorIndex
  PROVE  /\ RevFactor(score)[c] \in 0 .. Scaling
         /\ score[c] > 0 /\ Cardinality({d \in ComputorIndex : score[d] > score[c]}) < Quorum
              => RevFactor(score)[c] = Scaling
<1>1. PICK q \in Nat \ {0} : q = QuorumScore(score)
  BY QuorumScoreReached
<1>2. Scaling \in Nat \ {0} /\ score[c] \in Nat
  BY AccountingAssumption
<1>3. RevFactor(score)[c] = IF score[c] >= q THEN Scaling ELSE (Scaling * score[c]) \div q
  BY <1>1 DEF RevFactor
<1>4. ASSUME score[c] < q PROVE (Scaling * score[c]) \div q \in 0 .. Scaling
  <2>1. Scaling * score[c] \in Nat
    BY <1>2
  <2>2. Scaling * score[c] <= q * Scaling
    <3>1. (q - score[c]) * Scaling >= 0 /\ (q - score[c]) * Scaling = q * Scaling - Scaling * score[c]
      BY <1>2, <1>4
    <3> QED
      BY <1>2, <2>1, <3>1
  <2>3. (Scaling * score[c]) \div q \in Nat /\ (Scaling * score[c]) \div q <= Scaling
    BY <1>2, <2>1, <2>2, Unscaled
  <2> QED
    BY <1>2, <2>3
<1>5. RevFactor(score)[c] \in 0 .. Scaling
  BY <1>2, <1>3, <1>4
<1>6. score[c] > 0 /\ Cardinality({d \in ComputorIndex : score[d] > score[c]}) < Quorum => score[c] >= q
  BY <1>1, QuorumScoreReached
<1> QED
  BY <1>3, <1>5, <1>6

\* Nobody's revenue exceeds the equal share, which is the revenue for three full factors.
LEMMA RevenueBounded ==
  ASSUME NEW tx \in [ComputorIndex -> Nat], NEW vote \in [ComputorIndex -> Nat],
         NEW shares \in [ComputorIndex -> Nat], NEW c \in ComputorIndex
  PROVE  LET s == [tx |-> tx, vote |-> vote, shares |-> shares] IN
         /\ Revenue(s)[c] \in Nat /\ Revenue(s)[c] <= IssuanceRate \div NumberOfComputors
         /\ (\A score \in {tx, vote, shares} :
               score[c] > 0 /\ Cardinality({d \in ComputorIndex : score[d] > score[c]}) < Quorum)
            => Revenue(s)[c] = IssuanceRate \div NumberOfComputors
<1>1. PICK f \in 0 .. Scaling : f = RevFactor(tx)[c]
  BY RevFactorTyped
<1>2. PICK g \in 0 .. Scaling : g = RevFactor(vote)[c]
  BY RevFactorTyped
<1>3. PICK h \in 0 .. Scaling : h = RevFactor(shares)[c]
  BY RevFactorTyped
<1>4. Scaling \in Nat \ {0}
  BY AccountingAssumption
<1>5. PICK a \in Nat : a = IssuanceRate \div NumberOfComputors
  <2>1. IssuanceRate \in Nat /\ NumberOfComputors \in Nat \ {0}
    BY AccountingAssumption
  <2> QED
    BY <2>1
<1>6. Revenue([tx |-> tx, vote |-> vote, shares |-> shares])[c]
        = (((f * g * h * a) \div Scaling) \div Scaling) \div Scaling
  BY <1>1, <1>2, <1>3, <1>5 DEF Revenue
<1>7. f * g * h * a = f * (g * (h * a))
  <2>1. f \in Nat /\ g \in Nat /\ h \in Nat
    BY <1>4
  <2> QED
    BY <2>1
<1>8. PICK s \in Nat \ {0} : s = Scaling
  BY <1>4
<1>9. /\ h * a \in Nat /\ h * a <= s * a /\ s * a \in Nat
      /\ h = s => h * a = s * a
  BY <1>8, Scaled
<1>10. PICK x \in Nat : x = h * a
  BY <1>9
<1>11. PICK y \in Nat : y = s * a
  BY <1>9
<1>12. /\ g * x \in Nat /\ g * x <= s * y /\ s * y \in Nat
       /\ g = s /\ x = y => g * x = s * y
  BY <1>8, <1>9, <1>10, <1>11, Scaled
<1>13. PICK u \in Nat : u = g * x
  BY <1>12
<1>14. PICK v \in Nat : v = s * y
  BY <1>12
<1>15. /\ f * u \in Nat /\ f * u <= s * v /\ s * v \in Nat
       /\ f = s /\ u = v => f * u = s * v
  BY <1>8, <1>12, <1>13, <1>14, Scaled
<1>16. PICK w \in Nat : w = f * u
  BY <1>15
<1>17. w \div s \in Nat /\ w \div s <= v /\ (w = s * v => w \div s = v)
  BY <1>15, <1>16, Unscaled
<1>18. PICK w1 \in Nat : w1 = w \div s
  BY <1>17
<1>19. w1 \div s \in Nat /\ w1 \div s <= y /\ (w1 = s * y => w1 \div s = y)
  BY <1>14, <1>17, <1>18, Unscaled
<1>20. PICK w2 \in Nat : w2 = w1 \div s
  BY <1>19
<1>21. w2 \div s \in Nat /\ w2 \div s <= a /\ (w2 = s * a => w2 \div s = a)
  BY <1>11, <1>19, <1>20, Unscaled
<1>22. PICK w3 \in Nat : w3 = w2 \div s
  BY <1>21
<1>23. Revenue([tx |-> tx, vote |-> vote, shares |-> shares])[c] = w3
  BY <1>6, <1>7, <1>8, <1>10, <1>13, <1>16, <1>18, <1>20, <1>22
<1>24. ASSUME f = s, g = s, h = s PROVE w3 = a
  <2>1. x = y
    BY <1>9, <1>10, <1>11, <1>24
  <2>2. u = v
    BY <1>12, <1>13, <1>14, <1>24, <2>1
  <2>3. w = s * v
    BY <1>15, <1>16, <1>24, <2>2
  <2>4. w1 = v
    BY <1>17, <1>18, <2>3
  <2>5. w2 = y
    BY <1>14, <1>19, <1>20, <2>4
  <2> QED
    BY <1>11, <1>21, <1>22, <2>5
<1>25. ASSUME \A score \in {tx, vote, shares} :
                score[c] > 0 /\ Cardinality({d \in ComputorIndex : score[d] > score[c]}) < Quorum
       PROVE  f = s /\ g = s /\ h = s
  <2>1. RevFactor(tx)[c] = Scaling
    BY <1>25, RevFactorTyped
  <2>2. RevFactor(vote)[c] = Scaling
    BY <1>25, RevFactorTyped
  <2>3. RevFactor(shares)[c] = Scaling
    BY <1>25, RevFactorTyped
  <2> QED
    BY <1>1, <1>2, <1>3, <1>8, <2>1, <2>2, <2>3
<1> QED
  BY <1>5, <1>21, <1>22, <1>23, <1>24, <1>25

\* The revenue that is left and the donations after the first i of them: what Donate's function yields.
DonationRule(left, revenue, percents, i) ==
  IF i = 0 THEN [revenue |-> revenue, donated |-> 0]
  ELSE LET given == (left[i - 1].revenue * percents[i]) \div 100
       IN [revenue |-> left[i - 1].revenue - given, donated |-> left[i - 1].donated + given]
LeftOver(left, revenue, percents) ==
  left = [i \in 0 .. Len(percents) |-> DonationRule(left, revenue, percents, i)]

\* A donation is part of what is left.
LEMMA DonationGiven ==
  ASSUME NEW r \in Nat, NEW p \in 0 .. 100
  PROVE  (r * p) \div 100 \in 0 .. r
<1>1. r * p \in Nat /\ 100 \in Nat \ {0}
  OBVIOUS
<1>2. r * p <= 100 * r
  <2>1. r * (100 - p) >= 0 /\ r * (100 - p) = r * 100 - r * p
    OBVIOUS
  <2> QED
    BY <1>1, <2>1
<1>3. PICK x \in Nat : x = r * p
  BY <1>1
<1>4. PICK n \in Nat \ {0} : n = 100
  BY <1>1
<1>5. x <= n * r
  BY <1>2, <1>3, <1>4
<1>6. x \div n \in Nat /\ x \div n <= r
  BY <1>5, Unscaled
<1> QED
  BY <1>3, <1>4, <1>6

\* The percentages are between 0 and 100.
LEMMA Percents ==
  ASSUME NEW percents \in Seq(0 .. 100)
  PROVE  Len(percents) \in Nat /\ \A i \in 1 .. Len(percents) : percents[i] \in 0 .. 100
<1>1. PICK P : P = 0 .. 100
  OBVIOUS
<1>2. percents \in Seq(P)
  BY <1>1
<1>3. Len(percents) \in Nat /\ \A i \in 1 .. Len(percents) : percents[i] \in P
  BY <1>2
<1> QED
  BY <1>1, <1>3

\* There is a function that follows the rule: the recursion of Donate is well defined.
LEMMA LeftOverExists ==
  ASSUME NEW revenue \in Nat, NEW percents \in Seq(0 .. 100)
  PROVE  \E left : LeftOver(left, revenue, percents)
<1> DEFINE n == Len(percents)
           Sound == {m \in 0 .. n : \E g \in [0 .. n -> [revenue : Nat, donated : Nat]] :
                      \A i \in 0 .. m : g[i] = DonationRule(g, revenue, percents, i)}
<1>1. n \in Nat /\ \A i \in 1 .. n : percents[i] \in 0 .. 100
  BY Percents
<1>2. 0 \in Sound
  <2> DEFINE g == [i \in 0 .. n |-> [revenue |-> revenue, donated |-> 0]]
  <2>1. g \in [0 .. n -> [revenue : Nat, donated : Nat]]
    OBVIOUS
  <2>2. \A i \in 0 .. 0 : g[i] = DonationRule(g, revenue, percents, i)
    <3>1. \A i \in 0 .. 0 : i = 0 /\ i \in 0 .. n
      BY <1>1
    <3> QED
      BY <3>1 DEF DonationRule
  <2>3. 0 \in 0 .. n
    BY <1>1
  <2> HIDE DEF g, n
  <2> QED
    BY <2>1, <2>2, <2>3
<1>3. ASSUME NEW m \in 1 .. n, m - 1 \in Sound PROVE m \in Sound
  <2>1. PICK g \in [0 .. n -> [revenue : Nat, donated : Nat]] :
          \A i \in 0 .. m - 1 : g[i] = DonationRule(g, revenue, percents, i)
    BY <1>3
  <2> HIDE DEF n
  <2>2. m \in Nat /\ m - 1 \in 0 .. n /\ m \in 0 .. n /\ m # 0
    BY <1>1
  <2>3. g[m - 1].revenue \in Nat /\ g[m - 1].donated \in Nat
    BY <2>1, <2>2
  <2>4. PICK r \in Nat, d \in Nat : r = g[m - 1].revenue /\ d = g[m - 1].donated
    BY <2>3
  <2>5. PICK given \in 0 .. r : given = (r * percents[m]) \div 100
    <3>1. percents[m] \in 0 .. 100
      BY <1>1
    <3> QED
      BY <3>1, DonationGiven
  <2>6. PICK value : value = [revenue |-> r - given, donated |-> d + given]
    OBVIOUS
  <2>7. value \in [revenue : Nat, donated : Nat]
    BY <2>6
  <2>8. DonationRule(g, revenue, percents, m) = value
    BY <2>2, <2>4, <2>5, <2>6 DEF DonationRule
  <2>9. PICK h : h = [g EXCEPT ![m] = value]
    OBVIOUS
  <2>10. h \in [0 .. n -> [revenue : Nat, donated : Nat]] /\ h[m] = value
    BY <2>1, <2>2, <2>7, <2>9
  <2>11. \A i \in 0 .. n : i # m => h[i] = g[i]
    BY <2>1, <2>9
  <2>12. ASSUME NEW i \in 0 .. m PROVE h[i] = DonationRule(h, revenue, percents, i)
    <3>1. i \in 0 .. n /\ (i # 0 => i - 1 \in 0 .. n /\ i - 1 # m)
      BY <1>1, <2>2
    <3>2. i # 0 => h[i - 1] = g[i - 1]
      BY <2>11, <3>1
    <3>3. DonationRule(h, revenue, percents, i) = DonationRule(g, revenue, percents, i)
      BY <3>2 DEF DonationRule
    <3>4. CASE i = m
      BY <2>8, <2>10, <3>3, <3>4
    <3>5. CASE i # m
      <4>1. i \in 0 .. m - 1
        BY <2>2, <3>5
      <4> QED
        BY <2>1, <2>11, <3>1, <3>3, <3>5, <4>1
    <3> QED
      BY <3>4, <3>5
  <2> QED
    BY <2>2, <2>10, <2>12
<1> HIDE DEF Sound
<1>4. n \in Sound
  <2>1. 0 .. n \subseteq Sound
    BY <1>1, <1>2, <1>3, BoundedInduction
  <2> QED
    BY <1>1, <2>1
<1>5. PICK g \in [0 .. n -> [revenue : Nat, donated : Nat]] :
        \A i \in 0 .. n : g[i] = DonationRule(g, revenue, percents, i)
  BY <1>4 DEF Sound
<1>6. g = [i \in 0 .. n |-> DonationRule(g, revenue, percents, i)]
  <2> HIDE DEF n
  <2> QED
    BY <1>5
<1> QED
  BY <1>6 DEF LeftOver

\* Donations only split a revenue.
LEMMA DonateSplits ==
  ASSUME NEW revenue \in Nat, NEW percents \in Seq(0 .. 100)
  PROVE  /\ Donate(revenue, percents).revenue \in Nat /\ Donate(revenue, percents).donated \in Nat
         /\ Donate(revenue, percents).revenue + Donate(revenue, percents).donated = revenue
<1> DEFINE n == Len(percents)
           left == CHOOSE left : LeftOver(left, revenue, percents)
           Sound == {m \in 0 .. n : /\ left[m].revenue \in Nat /\ left[m].donated \in Nat
                                   /\ left[m].revenue + left[m].donated = revenue}
<1>1. n \in Nat /\ \A i \in 1 .. n : percents[i] \in 0 .. 100
  BY Percents
<1>2. LeftOver(left, revenue, percents)
  BY LeftOverExists
<1>3. Donate(revenue, percents) = left[n]
  BY DEF Donate, LeftOver, DonationRule
<1> HIDE DEF left
<1>4. \A i \in 0 .. n : left[i] = DonationRule(left, revenue, percents, i)
  BY <1>2 DEF LeftOver
<1> HIDE DEF n
<1>5. 0 \in Sound
  <2>1. 0 \in 0 .. n
    BY <1>1
  <2>2. left[0] = [revenue |-> revenue, donated |-> 0]
    BY <1>4, <2>1 DEF DonationRule
  <2> QED
    BY <2>1, <2>2
<1>6. ASSUME NEW m \in 1 .. n, m - 1 \in Sound PROVE m \in Sound
  <2>1. PICK r \in Nat, d \in Nat : r = left[m - 1].revenue /\ d = left[m - 1].donated /\ r + d = revenue
    BY <1>6
  <2>2. m \in 0 .. n /\ m # 0
    BY <1>1
  <2>3. PICK given \in 0 .. r : given = (r * percents[m]) \div 100
    <3>1. percents[m] \in 0 .. 100
      BY <1>1
    <3> QED
      BY <3>1, DonationGiven
  <2>4. left[m] = [revenue |-> r - given, donated |-> d + given]
    BY <1>4, <2>1, <2>2, <2>3 DEF DonationRule
  <2>5. left[m].revenue = r - given /\ left[m].donated = d + given
    BY <2>4
  <2>6. /\ left[m].revenue \in Nat /\ left[m].donated \in Nat
        /\ left[m].revenue + left[m].donated = revenue
    <3>1. r + d = revenue
      BY <2>1
    <3>2. r - given \in Nat /\ d + given \in Nat /\ (r - given) + (d + given) = revenue
      BY <3>1
    <3> QED
      BY <2>5, <3>2
  <2> QED
    BY <2>2, <2>6
<1> HIDE DEF Sound
<1>7. n \in Sound
  <2>1. 0 .. n \subseteq Sound
    BY <1>1, <1>5, <1>6, BoundedInduction
  <2> QED
    BY <1>1, <2>1
<1> QED
  BY <1>3, <1>7 DEF Sound

\* Whoever is in the quorum for every score.
InQuorum(tx, vote, shares, c) ==
  \A score \in {tx, vote, shares} :
    score[c] > 0 /\ Cardinality({d \in ComputorIndex : score[d] > score[c]}) < Quorum

\* The revenues, what is paid of them to the computors, and what is donated.
PaidOut(tx, vote, shares, donations, revenue, paid, given) ==
  /\ revenue = Revenue([tx |-> tx, vote |-> vote, shares |-> shares])
  /\ paid = [c \in ComputorIndex |-> Donate(revenue[c], donations).revenue]
  /\ given = [c \in ComputorIndex |-> Donate(revenue[c], donations).donated]

PaidInFull(tx, vote, shares, revenue, paid, given) ==
  /\ Total(paid) \in Nat /\ Total(given) \in Nat /\ Total(revenue) \in Nat
  /\ Total(paid) + Total(given) = Total(revenue) /\ Total(revenue) <= IssuanceRate
  /\ Total(given) = 0 => \A c \in ComputorIndex :
       InQuorum(tx, vote, shares, c) => paid[c] = IssuanceRate \div NumberOfComputors

\* What is paid out at the end of an epoch adds up to its rate.
LEMMA PaidExactly ==
  ASSUME NEW tx \in [ComputorIndex -> Nat], NEW vote \in [ComputorIndex -> Nat],
         NEW shares \in [ComputorIndex -> Nat], NEW donations \in Seq(0 .. 100),
         NEW revenue, NEW paid, NEW given,
         PaidOut(tx, vote, shares, donations, revenue, paid, given)
  PROVE  PaidInFull(tx, vote, shares, revenue, paid, given)
<1>1. /\ NumberOfComputors \in Nat \ {0} /\ IsFiniteSet(ComputorIndex)
      /\ Cardinality(ComputorIndex) = NumberOfComputors
      /\ \A f : Total(f) = Summed(f, ComputorIndex)
  BY Computors
<1>2. IssuanceRate \in Nat
  BY AccountingAssumption
<1>3. PICK share \in Int : share = IssuanceRate \div NumberOfComputors
  <2>1. IssuanceRate \in Int
    BY <1>2
  <2> QED
    BY <1>1, <2>1, Divided
<1>4. share * NumberOfComputors <= IssuanceRate /\ share * NumberOfComputors \in Int
  <2>1. /\ IssuanceRate % NumberOfComputors \in 0 .. NumberOfComputors - 1
        /\ IssuanceRate = NumberOfComputors * (IssuanceRate \div NumberOfComputors)
                            + (IssuanceRate % NumberOfComputors)
    <3>1. IssuanceRate \in Int
      BY <1>2
    <3> QED
      BY <1>1, <3>1, Divided
  <2>2. PICK r \in 0 .. NumberOfComputors - 1 : r = IssuanceRate % NumberOfComputors
    BY <2>1
  <2>3. IssuanceRate = NumberOfComputors * share + r
    BY <1>3, <2>1, <2>2
  <2>4. NumberOfComputors * share = share * NumberOfComputors /\ share * NumberOfComputors \in Int
    BY <1>1, <1>3
  <2> QED
    BY <1>1, <2>2, <2>3, <2>4
<1>5. \A c \in ComputorIndex :
        /\ revenue[c] \in Nat /\ revenue[c] <= share
        /\ InQuorum(tx, vote, shares, c) => revenue[c] = share
  BY <1>3, RevenueBounded DEF InQuorum, PaidOut
<1>6. ASSUME NEW c \in ComputorIndex
      PROVE  paid[c] \in Nat /\ given[c] \in Nat /\ revenue[c] = paid[c] + given[c]
  <2>1. revenue[c] \in Nat
    BY <1>5
  <2>2. /\ Donate(revenue[c], donations).revenue \in Nat /\ Donate(revenue[c], donations).donated \in Nat
        /\ Donate(revenue[c], donations).revenue + Donate(revenue[c], donations).donated = revenue[c]
    BY <2>1, DonateSplits
  <2>3. paid[c] = Donate(revenue[c], donations).revenue /\ given[c] = Donate(revenue[c], donations).donated
    BY DEF PaidOut
  <2> QED
    BY <2>2, <2>3
<1>7. PICK R, P, G : R = revenue /\ P = paid /\ G = given
  OBVIOUS
<1>8. \A c \in ComputorIndex :
        P[c] \in Nat /\ G[c] \in Nat /\ R[c] \in Nat /\ R[c] = P[c] + G[c] /\ R[c] <= share
  BY <1>5, <1>6, <1>7
<1>9. /\ Summed(R, ComputorIndex) \in Nat /\ Summed(P, ComputorIndex) \in Nat
      /\ Summed(G, ComputorIndex) \in Nat
      /\ \A c \in ComputorIndex : G[c] <= Summed(G, ComputorIndex)
  BY <1>1, <1>8, SummedNat
<1>10. Summed(R, ComputorIndex) = Summed(P, ComputorIndex) + Summed(G, ComputorIndex)
  <2>1. \A c \in ComputorIndex : P[c] \in Int /\ G[c] \in Int /\ R[c] = P[c] + G[c]
    BY <1>8
  <2> QED
    BY <1>1, <2>1, SummedPlus
<1>11. Summed(R, ComputorIndex) <= share * NumberOfComputors
  <2>1. PICK E : E = [c \in ComputorIndex |-> share]
    OBVIOUS
  <2>2. \A c \in ComputorIndex : E[c] = share
    BY <2>1
  <2>3. Summed(E, ComputorIndex) = share * NumberOfComputors
    BY <1>1, <2>2, SummedConstant
  <2>4. \A c \in ComputorIndex : R[c] \in Int /\ E[c] \in Int /\ 1 * R[c] <= 1 * E[c]
    BY <1>8, <2>2
  <2>5. 1 * Summed(R, ComputorIndex) <= 1 * Summed(E, ComputorIndex)
    BY <1>1, <2>4, SummedShares
  <2> QED
    BY <1>4, <1>9, <2>3, <2>5
<1>12. /\ Total(paid) = Summed(P, ComputorIndex) /\ Total(given) = Summed(G, ComputorIndex)
       /\ Total(revenue) = Summed(R, ComputorIndex)
  BY <1>1, <1>7
<1>13. ASSUME Summed(G, ComputorIndex) = 0, NEW c \in ComputorIndex, InQuorum(tx, vote, shares, c)
       PROVE  paid[c] = share
  <2>1. G[c] = 0
    BY <1>8, <1>9, <1>13
  <2>2. R[c] = share
    BY <1>5, <1>7, <1>13
  <2>3. P[c] = share
    BY <1>8, <2>1, <2>2
  <2> QED
    BY <1>7, <2>3
<1>14. Summed(R, ComputorIndex) <= IssuanceRate
  BY <1>2, <1>4, <1>9, <1>11
<1> HIDE DEF InQuorum
<1> QED
  BY <1>3, <1>9, <1>10, <1>12, <1>13, <1>14 DEF PaidInFull

\* The total of nothing.
LEMMA NothingReported == Total(NoReport) = 0
<1>1. \A c \in ComputorIndex : NoReport[c] = 0
  BY DEF NoReport
<1>2. IsFiniteSet(ComputorIndex) /\ Total(NoReport) = Summed(NoReport, ComputorIndex)
  BY Computors
<1> HIDE DEF NoReport
<1> QED
  BY <1>1, <1>2, SummedZero

\* The end of an epoch issues the rate or nothing.
LEMMA IssuanceStep ==
  ASSUME IssuanceInv, EndEpochIssuance
  PROVE  IssuanceInv'
<1>1. ~issued /\ issued' = TRUE
  BY DEF EndEpochIssuance, IssuanceInv
<1>2. /\ supply \in FirstSupply
      /\ paidRevenue = [computors |-> NoReport, donations |-> 0, arbitrator |-> 0]
  BY <1>1 DEF IssuanceInv
<1>3. supply \in Nat /\ supply <= MaxSupply /\ MaxSupply \in Nat /\ IssuanceRate \in Nat
  BY <1>2, AccountingAssumption
<1>4. PICK tx \in ScoreSample, vote \in ScoreSample, shares \in ScoreSample, donations \in DonationSample :
        LET s == [tx |-> tx, vote |-> vote, shares |-> shares]
            net == [c \in ComputorIndex |-> Donate(Revenue(s)[c], donations)]
        IN /\ scores' = s
           /\ IF supply + IssuanceRate <= MaxSupply
              THEN /\ paidRevenue' = [computors |-> [c \in ComputorIndex |-> net[c].revenue],
                                      donations |-> Total([c \in ComputorIndex |-> net[c].donated]),
                                      arbitrator |-> IssuanceRate - Total(Revenue(s))]
                   /\ supply' = supply + Total(paidRevenue'.computors) + paidRevenue'.donations
                                + paidRevenue'.arbitrator
              ELSE UNCHANGED <<paidRevenue, supply>>
  BY DEF EndEpochIssuance
<1>5. /\ tx \in [ComputorIndex -> Nat] /\ vote \in [ComputorIndex -> Nat]
      /\ shares \in [ComputorIndex -> Nat] /\ donations \in Seq(0 .. 100)
  BY AccountingAssumption
<1>6. PICK revenue : revenue = Revenue([tx |-> tx, vote |-> vote, shares |-> shares])
  OBVIOUS
<1>7. PICK paid : paid = [c \in ComputorIndex |-> Donate(revenue[c], donations).revenue]
  OBVIOUS
<1>8. PICK given : given = [c \in ComputorIndex |-> Donate(revenue[c], donations).donated]
  OBVIOUS
<1>9. /\ Total(paid) \in Nat /\ Total(given) \in Nat /\ Total(revenue) \in Nat
      /\ Total(paid) + Total(given) = Total(revenue) /\ Total(revenue) <= IssuanceRate
      /\ Total(given) = 0 => \A c \in ComputorIndex :
           InQuorum(tx, vote, shares, c) => paid[c] = IssuanceRate \div NumberOfComputors
  <2>1. PaidOut(tx, vote, shares, donations, revenue, paid, given)
    BY <1>6, <1>7, <1>8 DEF PaidOut
  <2>2. PaidInFull(tx, vote, shares, revenue, paid, given)
    BY <1>5, <2>1, PaidExactly
  <2> QED
    BY <2>2 DEF PaidInFull
<1>10. scores' = [tx |-> tx, vote |-> vote, shares |-> shares]
  BY <1>4
<1>11. CASE supply + IssuanceRate <= MaxSupply
  <2>1. /\ paidRevenue' = [computors |-> paid, donations |-> Total(given),
                           arbitrator |-> IssuanceRate - Total(revenue)]
        /\ supply' = supply + Total(paidRevenue'.computors) + paidRevenue'.donations
                       + paidRevenue'.arbitrator
    <3>1. /\ [c \in ComputorIndex |-> [k \in ComputorIndex |-> Donate(revenue[k], donations)][c].revenue] = paid
          /\ [c \in ComputorIndex |-> [k \in ComputorIndex |-> Donate(revenue[k], donations)][c].donated] = given
      BY <1>7, <1>8
    <3>2. /\ paidRevenue' = [computors |-> [c \in ComputorIndex |->
                                             [k \in ComputorIndex |-> Donate(revenue[k], donations)][c].revenue],
                             donations |-> Total([c \in ComputorIndex |->
                                             [k \in ComputorIndex |-> Donate(revenue[k], donations)][c].donated]),
                             arbitrator |-> IssuanceRate - Total(revenue)]
          /\ supply' = supply + Total(paidRevenue'.computors) + paidRevenue'.donations
                         + paidRevenue'.arbitrator
      BY <1>4, <1>6, <1>11, Zenon
    <3> QED
      BY <3>1, <3>2, Zenon
  <2>2. /\ paidRevenue'.computors = paid /\ paidRevenue'.donations = Total(given)
        /\ paidRevenue'.arbitrator = IssuanceRate - Total(revenue)
    BY <2>1
  <2>3. PICK p \in Nat, g \in Nat, r \in Nat : p = Total(paid) /\ g = Total(given) /\ r = Total(revenue)
    BY <1>9
  <2>4. p + g = r /\ r <= IssuanceRate
    BY <1>9, <2>3
  <2>5. supply' = supply + p + g + (IssuanceRate - r)
    BY <2>1, <2>2, <2>3
  <2>6. supply' <= MaxSupply
    BY <1>3, <1>11, <2>4, <2>5
  <2>7. paidRevenue'.arbitrator >= 0
    BY <1>3, <2>2, <2>3, <2>4
  <2>8. Total(paidRevenue'.computors) + paidRevenue'.donations + paidRevenue'.arbitrator = IssuanceRate
    <3>1. p + g + (IssuanceRate - r) = IssuanceRate
      BY <1>3, <2>4
    <3> QED
      BY <2>2, <2>3, <3>1
  <2>9. ASSUME paidRevenue'.donations = 0, NEW c \in ComputorIndex, InQuorum(tx, vote, shares, c)
        PROVE  paidRevenue'.computors[c] = IssuanceRate \div NumberOfComputors
    BY <1>9, <2>2, <2>9
  <2>10. \A c \in ComputorIndex : InQuorum(scores'.tx, scores'.vote, scores'.shares, c) =>
           (paidRevenue'.donations = 0 => paidRevenue'.computors[c] = IssuanceRate \div NumberOfComputors)
    <3>1. scores'.tx = tx /\ scores'.vote = vote /\ scores'.shares = shares
      BY <1>10
    <3> QED
      BY <2>9, <3>1, Zenon
  <2>11. Total(paidRevenue'.computors) + paidRevenue'.donations + paidRevenue'.arbitrator
           \in {0, IssuanceRate}
    BY <2>8
  <2>12. IssuanceExact'
    BY <2>6, <2>7, <2>10, <2>11, Zenon DEF IssuanceExact, InQuorum
  <2> QED
    BY <1>1, <2>12 DEF IssuanceInv
<1>12. CASE ~(supply + IssuanceRate <= MaxSupply)
  <2>1. paidRevenue' = paidRevenue /\ supply' = supply
    BY <1>4, <1>12
  <2>2. /\ paidRevenue'.computors = NoReport /\ paidRevenue'.donations = 0
        /\ paidRevenue'.arbitrator = 0
    BY <1>2, <2>1
  <2>3. Total(NoReport) = 0
    BY NothingReported
  <2>4. Total(paidRevenue'.computors) + paidRevenue'.donations + paidRevenue'.arbitrator = 0
    BY <2>2, <2>3
  <2>5. supply' <= MaxSupply /\ paidRevenue'.arbitrator >= 0 /\ supply' \in FirstSupply
    BY <1>2, <1>3, <2>1, <2>2
  <2>6. Total(paidRevenue'.computors) + paidRevenue'.donations + paidRevenue'.arbitrator
          \in {0, IssuanceRate}
    BY <2>4
  <2>7. IssuanceExact'
    BY <2>5, <2>6, Zenon DEF IssuanceExact
  <2> QED
    BY <1>1, <2>7 DEF IssuanceInv
<1> QED
  BY <1>11, <1>12

\* An epoch begins before its issuance.
LEMMA IssuanceInvInit == IssuanceInit => IssuanceInv
<1> SUFFICES ASSUME IssuanceInit PROVE IssuanceInv
  OBVIOUS
<1>1. /\ issued = FALSE /\ supply \in FirstSupply
      /\ paidRevenue = [computors |-> NoReport, donations |-> 0, arbitrator |-> 0]
  BY DEF IssuanceInit
<1>2. supply <= MaxSupply /\ paidRevenue.arbitrator = 0
  BY <1>1, AccountingAssumption
<1>3. paidRevenue.arbitrator >= 0
  BY <1>2
<1>4. IssuanceExact
  BY <1>1, <1>2, <1>3, Zenon DEF IssuanceExact
<1>5. issued \in BOOLEAN
  BY <1>1
<1> QED
  BY <1>1, <1>4, <1>5, Zenon DEF IssuanceInv

\* Every step keeps the invariant of the issuance.
LEMMA IssuanceInvStep == IssuanceInv /\ [EndEpochIssuance]_issuanceVars => IssuanceInv'
<1> SUFFICES ASSUME IssuanceInv, [EndEpochIssuance]_issuanceVars PROVE IssuanceInv'
  OBVIOUS
<1>1. CASE UNCHANGED issuanceVars
  <2>1. issued' = issued /\ scores' = scores /\ paidRevenue' = paidRevenue /\ supply' = supply
    BY <1>1 DEF issuanceVars
  <2>2. IssuanceExact' = IssuanceExact
    BY <2>1, Zenon DEF IssuanceExact
  <2>3. IssuanceExact'
    BY <2>2 DEF IssuanceInv
  <2> QED
    BY <2>1, <2>3 DEF IssuanceInv
<1> QED
  BY <1>1, IssuanceStep

\* An epoch issues its rate to the unit, or nothing when that would pass the maximal supply.
THEOREM IssuanceInvariance == IssuanceSpec => []IssuanceInv
BY IssuanceInvInit, IssuanceInvStep, PTL DEF IssuanceSpec

-----------------------------------------------------------------------------
(***************************************************************************)
(* The accounts together                                                   *)
(***************************************************************************)

\* What the accounts keep.
EpochInv ==
  /\ part = "miners" => MiningInv
  /\ part = "votes" => VoteInv
  /\ part = "shares" => ShareInv
  /\ part = "fees" => FeeInv /\ FeesBacked
  /\ part = "issuance" => IssuanceInv

\* The best miners get the seats and keep their deposits, votes and shares are counted once, fees
\* are backed by the computors' reports, and an epoch issues its rate or nothing: in every run of
\* the accounts beside the tables.
THEOREM EpochIsAccounted == Spec => []EpochAccounted
<1>1. Init => EpochInv
  <2>1. Init => MiningInit /\ VoteInit /\ ShareInit /\ FeeInit /\ IssuanceInit
    BY DEF Init
  <2> QED
    BY <2>1, MiningStarts, VoteInvInit, ShareInvInit, FeeInvInit, IssuanceInvInit DEF EpochInv
<1>2. EpochInv /\ [Next]_<<collectionVars, hashMapVars, spectrumVars, poolVars, assetVars, miningVars,
                           accountVars, part>> => EpochInv'
  <2> SUFFICES ASSUME EpochInv,
                      [Next]_<<collectionVars, hashMapVars, spectrumVars, poolVars, assetVars,
                               miningVars, accountVars, part>>
               PROVE  EpochInv'
    OBVIOUS
  <2>1. /\ part' = part
        /\ part = "miners" => [MiningNext]_miningVars
        /\ part = "votes" => [CountVotes]_voteVars
        /\ part = "shares" => [ShareNext]_shareVars
        /\ part = "fees" => [FeeTickStep]_feeVars
        /\ part = "issuance" => [EndEpochIssuance]_issuanceVars
    BY DEF Next, Part, accountVars
  <2> QED
    BY <2>1, MiningStep, VoteInvStep, ShareInvStep, FeeInvStep, IssuanceInvStep DEF EpochInv
<1>3. EpochInv => EpochAccounted
  <2>1. VoteInv => VotesCountedOnce
    BY DEF VoteInv
  <2>2. IssuanceInv => IssuanceExact
    BY DEF IssuanceInv
  <2>3. MiningInv => NoDepositLost /\ IndicesStable
    BY DEF MiningInv
  <2> QED
    BY <2>1, <2>2, <2>3, SharesOnce, BestSeated, PointsEarned DEF EpochInv, EpochAccounted
<1> QED
  BY <1>1, <1>2, <1>3, PTL DEF Spec
================================================================================

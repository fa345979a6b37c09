----------------------------- MODULE EpochAccounting -----------------------------
(***************************************************************************)
(* What computors earn and contracts pay: the votes and the shares of      *)
(* custom mining that tick leaders report, the execution fees they report, *)
(* and the issuance at the end of an epoch.  Four accounts with a tick     *)
(* counter each; they meet only in the issuance.                           *)
(***************************************************************************)
EXTENDS Integers, Sequences, SequencesExt, FiniteSets, FiniteSetsExt

CONSTANTS
  NumberOfComputors, Quorum,
  FaultyLeader,                   \* computors that may report anything
  FirstVoteTick, LastVoteTick,    \* bounds
  LastShareTick, MaxShareCount, ShareLimit,
  MinedComputor,                  \* those for which shares arrive
  LastFeeTick, SlowComputor, FirstReserve,
  IssuanceRate, MaxSupply, FirstSupply, Scaling, ScoreSample, DonationSample

ComputorIndex == 0 .. NumberOfComputors - 1

ASSUME AccountingAssumption ==
  /\ NumberOfComputors \in Nat \ {0, 1} /\ Quorum \in 1 .. NumberOfComputors
  /\ FaultyLeader \cup MinedComputor \cup SlowComputor \subseteq ComputorIndex
  /\ FirstVoteTick \in Nat /\ FirstVoteTick >= 2 * NumberOfComputors
  /\ {LastVoteTick, LastShareTick, LastFeeTick, ShareLimit, IssuanceRate, MaxSupply} \subseteq Nat
  /\ LastVoteTick >= FirstVoteTick /\ LastFeeTick >= NumberOfComputors
  /\ LastShareTick >= 2 * NumberOfComputors - 1
  /\ FirstReserve \in Int /\ FirstSupply \subseteq 0 .. MaxSupply
  /\ Scaling \in Nat \ {0}
  /\ ScoreSample \subseteq [ComputorIndex -> Nat] /\ DonationSample \subseteq Seq(0 .. 100)

PublicationOffset2 == 2           \* TICK_TRANSACTIONS_PUBLICATION_OFFSET
LeaderOf(tick) == tick % NumberOfComputors
NoReport == [c \in ComputorIndex |-> 0]
Plus(a, b) == [c \in ComputorIndex |-> a[c] + b[c]]
Total(f) == MapThenSumSet(LAMBDA c : f[c], ComputorIndex)

(***************************************************************************)
(* Votes                                                                   *)
(***************************************************************************)

VARIABLES
  voteTick,
  voteRing,               \* slot -> computor -> tick of the vote last registered there
  voteTxs,                \* tick -> packet of its leader
  accumulatedVoteCount,   \* computor -> votes, by the leader that reported them
  castVotes               \* computor -> ticks whose vote was registered

voteVars == <<voteTick, voteRing, voteTxs, accumulatedVoteCount, castVotes>>

VoteSlot(tick) == tick % (2 * NumberOfComputors)

\* compressNewVotesPacket() is called with the last NumberOfComputors ticks, this one included.
VoteWindow(tick) == tick - (NumberOfComputors - 1) .. tick

\* The votes a leader has seen in the window, without its own.
NewVotesPacket(leader, tick) ==
  [c \in ComputorIndex |->
     IF c = leader THEN 0
     ELSE Cardinality({t \in VoteWindow(tick) : voteRing[VoteSlot(t)][c] = t})]

ValidVotesPacket(packet, leader) ==
  /\ \A c \in ComputorIndex : packet[c] <= NumberOfComputors
  /\ Total(packet) >= (NumberOfComputors - 1) * Quorum
  /\ packet[leader] = 0

\* A faulty leader claims as much as passes, more than that, or something for itself.
FaultyVotes(leader) ==
  {[c \in ComputorIndex |-> IF c = leader THEN 0 ELSE count] :
     count \in {NumberOfComputors, NumberOfComputors + 1}}
  \cup {[c \in ComputorIndex |-> NumberOfComputors]}

VotesSent(leader, tick) ==
  {NewVotesPacket(leader, tick)} \cup IF leader \in FaultyLeader THEN FaultyVotes(leader) ELSE {}

\* A tick: the packet of its leader, if the tick has that transaction; the packet for the tick
\* after the next; and then the votes for this tick, at least a quorum.
CountVotes ==
  /\ voteTick < LastVoteTick
  /\ \E included \in BOOLEAN :
       LET packet == voteTxs[voteTick] leader == LeaderOf(voteTick) IN
       accumulatedVoteCount' =
         IF included /\ ValidVotesPacket(packet, leader)
         THEN [accumulatedVoteCount EXCEPT ![leader] = Plus(@, packet)]
         ELSE accumulatedVoteCount
  /\ LET ahead == voteTick + PublicationOffset2 IN
       \E packet \in VotesSent(LeaderOf(ahead), voteTick) :
         voteTxs' = [voteTxs EXCEPT ![ahead] = packet, ![voteTick] = NoReport]
  /\ \E missing \in {{}, {NumberOfComputors - 1}} :
       /\ Cardinality(ComputorIndex \ missing) >= Quorum
       /\ voteRing' = [voteRing EXCEPT ![VoteSlot(voteTick)] =
                         [c \in ComputorIndex |-> IF c \in missing THEN @[c] ELSE voteTick]]
       /\ castVotes' = [c \in ComputorIndex |-> castVotes[c] + IF c \in missing THEN 0 ELSE 1]
  /\ voteTick' = voteTick + 1

VoteInit ==
  /\ voteTick = FirstVoteTick
  /\ voteRing = [slot \in 0 .. 2 * NumberOfComputors - 1 |-> NoReport]
  /\ voteTxs = [t \in FirstVoteTick .. LastVoteTick + PublicationOffset2 |-> NoReport]
  /\ accumulatedVoteCount = [leader \in ComputorIndex |-> NoReport] /\ castVotes = NoReport

\* Every vote is counted at most once by every other leader, and never by the voter; a faulty
\* leader cannot add more than the number of computors each time it leads.
VotesCountedOnce ==
  \A leader, c \in ComputorIndex :
    accumulatedVoteCount[leader][c] <=
      CASE leader = c -> 0
        [] leader # c /\ leader \notin FaultyLeader -> castVotes[c]
        [] OTHER -> NumberOfComputors *
             Cardinality({t \in FirstVoteTick .. voteTick - 1 : LeaderOf(t) = leader})

VoteSpec == VoteInit /\ [][CountVotes]_voteVars

VoteTypeOK ==
  /\ voteTick \in FirstVoteTick .. LastVoteTick
  /\ voteRing \in [0 .. 2 * NumberOfComputors - 1 -> [ComputorIndex -> Nat]]
  /\ voteTxs \in [FirstVoteTick .. LastVoteTick + PublicationOffset2 -> [ComputorIndex -> Nat]]
  /\ accumulatedVoteCount \in [ComputorIndex -> [ComputorIndex -> Nat]]
  /\ castVotes \in [ComputorIndex -> Nat]

\* The votes of a computor that are in the ring for the ticks from first to the last one.
Unreported(c, first) == {t \in first .. voteTick - 1 : voteRing[VoteSlot(t)][c] = t}

\* The packets that were published for a leader and are not processed.
OnTheWay(leader, c) ==
  {voteTxs[t][c] : t \in {t \in voteTick .. voteTick + 1 : LeaderOf(t) = leader}}

\* What a leader has counted, has published, and will count when it next makes a packet are
\* different votes.
VoteInv ==
  /\ VoteTypeOK
  /\ \A slot \in DOMAIN voteRing, c \in ComputorIndex : voteRing[slot][c] < voteTick
  /\ \A leader \in ComputorIndex \ FaultyLeader : \A c \in ComputorIndex \ {leader} :
       \A next \in voteTick .. voteTick + NumberOfComputors - 1 :
         LeaderOf(next + PublicationOffset2) = leader =>
           \A count \in OnTheWay(leader, c) \cup {0} :
             accumulatedVoteCount[leader][c] + count
               + Cardinality(Unreported(c, next - (NumberOfComputors - 1))) <= castVotes[c]
  /\ VotesCountedOnce

(***************************************************************************)
(* Shares of custom mining                                                 *)
(***************************************************************************)

VARIABLES
  shareTick,
  preparedPackets,        \* own computors that have got their packet in this tick
  isInCustomMiningState,
  requestInside,          \* a request processor that has read the state
  sharesCount,            \* gCustomMiningSharesCount, of this phase
  preparedShares, isBroadcasted,  \* gCustomMiningBroadcastTxBuffer, of the own computors
  shareTxs,               \* tick -> packet of its leader
  accumulatedSharesCount,
  recordedShares,         \* computor -> shares recorded in all phases
  unverifiedShares        \* those in the cache of this phase without a verdict

shareVars == <<shareTick, preparedPackets, isInCustomMiningState, requestInside, sharesCount,
               preparedShares, isBroadcasted, shareTxs, accumulatedSharesCount, recordedShares,
               unverifiedShares>>

ShareCycle == NumberOfComputors + (NumberOfComputors + 1)   \* internal and external phase
ShareTickInCycle(tick) == tick % ShareCycle
InExternalPhase(tick) == ShareTickInCycle(tick) >= NumberOfComputors

\* A share or a verdict arrives; the state is read under one lock, the count changed under
\* another.
EnterShareRequest(kind) ==
  /\ requestInside = "none" /\ isInCustomMiningState
  /\ requestInside' = kind
  /\ UNCHANGED <<shareTick, preparedPackets, isInCustomMiningState, sharesCount, preparedShares,
                 isBroadcasted, shareTxs, accumulatedSharesCount, recordedShares, unverifiedShares>>

RecordShare(c) ==
  /\ requestInside = "share" /\ Total(recordedShares) < MaxShareCount
  /\ sharesCount' = [sharesCount EXCEPT ![c] = @ + 1]
  /\ recordedShares' = [recordedShares EXCEPT ![c] = @ + 1]
  /\ unverifiedShares' = [unverifiedShares EXCEPT ![c] = @ + 1]
  /\ requestInside' = "none"
  /\ UNCHANGED <<shareTick, preparedPackets, isInCustomMiningState, preparedShares, isBroadcasted,
                 shareTxs, accumulatedSharesCount>>

\* The operator calls a share invalid; nothing happens when the cache no longer has it.
DropInvalidShare(c) ==
  /\ requestInside = "verdict"
  /\ sharesCount' = [sharesCount EXCEPT ![c] = IF unverifiedShares[c] > 0 /\ @ > 0 THEN @ - 1 ELSE @]
  /\ unverifiedShares' = [unverifiedShares EXCEPT ![c] = IF @ > 0 THEN @ - 1 ELSE 0]
  /\ requestInside' = "none"
  /\ UNCHANGED <<shareTick, preparedPackets, isInCustomMiningState, preparedShares, isBroadcasted,
                 shareTxs, accumulatedSharesCount, recordedShares>>

\* At the first tick of the internal phase a MAIN node prepares the packet each own computor will
\* send, one after another: each time under the lock, counts above the limit are cut, and a share
\* that arrives between two of them gets into the later packets only.
PrepareShares ==
  /\ ShareTickInCycle(shareTick) = 0 /\ shareTick < LastShareTick
  /\ preparedPackets < NumberOfComputors
  /\ LET own == preparedPackets
         limited == [c \in ComputorIndex |-> Min({sharesCount[c], ShareLimit})] IN
       /\ sharesCount' = limited
       /\ preparedShares' = [preparedShares EXCEPT
                               ![own] = [c \in ComputorIndex |-> IF c = own THEN 0 ELSE limited[c]]]
       /\ isBroadcasted' = [isBroadcasted EXCEPT ![own] = FALSE]
  /\ preparedPackets' = preparedPackets + 1
  /\ UNCHANGED <<shareTick, isInCustomMiningState, requestInside, shareTxs,
                 accumulatedSharesCount, recordedShares, unverifiedShares>>

\* Mutant: the packet stays ready to be sent.
SentFlagsKept(leader) == isBroadcasted

SentFlags(leader) == [isBroadcasted EXCEPT ![leader] = TRUE]

\* The rest of a tick: the counter is reset when all packets are prepared.  A node that is not
\* in MAIN mode prepares none and keeps the counter.  The transactions are processed before the
\* preparation in the code; they do not touch what it reads.
FinishShareTick ==
  /\ shareTick < LastShareTick
  /\ preparedPackets \in {0, NumberOfComputors}
  /\ preparedPackets' = 0
  /\ sharesCount' = IF preparedPackets = 0 THEN sharesCount ELSE NoReport
  /\ \E included \in BOOLEAN :
       accumulatedSharesCount' =
         IF /\ included /\ shareTxs[shareTick][LeaderOf(shareTick)] = 0
            /\ ShareTickInCycle(shareTick) <= NumberOfComputors + PublicationOffset2
         THEN Plus(accumulatedSharesCount, shareTxs[shareTick])
         ELSE accumulatedSharesCount
  /\ LET ahead == shareTick + PublicationOffset2 leader == LeaderOf(ahead) IN
       \/ \* This node makes the tick data of the leader.
          /\ shareTxs' = [shareTxs EXCEPT
                            ![ahead] = IF isBroadcasted[leader] THEN NoReport ELSE preparedShares[leader],
                            ![shareTick] = NoReport]
          /\ isBroadcasted' = SentFlags(leader)
       \/ \* It does not: it is auxiliary, or has led this tick before.
          /\ shareTxs' = [shareTxs EXCEPT ![shareTick] = NoReport]
          /\ UNCHANGED isBroadcasted
  /\ shareTick' = shareTick + 1
  /\ isInCustomMiningState' = InExternalPhase(shareTick + 1)
  /\ unverifiedShares' = IF ShareTickInCycle(shareTick + 1) = NumberOfComputors
                         THEN NoReport ELSE unverifiedShares
  /\ UNCHANGED <<requestInside, preparedShares, recordedShares>>

\* An epoch begins near the end of an external phase.
ShareInit ==
  /\ shareTick = ShareCycle - 2
  /\ preparedPackets = 0 /\ isInCustomMiningState = TRUE /\ requestInside = "none"
  /\ sharesCount = NoReport /\ preparedShares = [own \in ComputorIndex |-> NoReport]
  /\ isBroadcasted = [c \in ComputorIndex |-> TRUE]
  /\ shareTxs = [t \in 0 .. LastShareTick + PublicationOffset2 |-> NoReport]
  /\ accumulatedSharesCount = NoReport /\ recordedShares = NoReport
  /\ unverifiedShares = NoReport

ShareNext ==
  \/ \E kind \in {"share", "verdict"} : EnterShareRequest(kind)
  \/ \E c \in MinedComputor : RecordShare(c) \/ DropInvalidShare(c)
  \/ PrepareShares
  \/ FinishShareTick

\* A share is counted at most once by every computor but its own.
SharesCountedOnce ==
  \A c \in ComputorIndex :
    accumulatedSharesCount[c] <= (NumberOfComputors - 1) * recordedShares[c]

ShareSpec == ShareInit /\ [][ShareNext]_shareVars

\* What the own computors may still send of a computor's shares.
Unsent(c) ==
  [own \in ComputorIndex |-> IF isBroadcasted[own] THEN 0 ELSE preparedShares[own][c]]

\* What will be put into the packets that are not yet prepared.
Awaited(c) ==
  [own \in ComputorIndex |-> IF own < preparedPackets \/ own = c THEN 0 ELSE sharesCount[c]]

\* What has been counted, is on the way, can still be sent and will be prepared of a computor's
\* shares does not exceed one for each other computor and recorded share.
ShareInv ==
  /\ shareTick \in 0 .. LastShareTick /\ preparedPackets \in 0 .. NumberOfComputors
  /\ sharesCount \in [ComputorIndex -> Nat] /\ recordedShares \in [ComputorIndex -> Nat]
  /\ unverifiedShares \in [ComputorIndex -> Nat] /\ accumulatedSharesCount \in [ComputorIndex -> Nat]
  /\ preparedShares \in [ComputorIndex -> [ComputorIndex -> Nat]]
  /\ isBroadcasted \in [ComputorIndex -> BOOLEAN]
  /\ shareTxs \in [0 .. LastShareTick + PublicationOffset2 -> [ComputorIndex -> Nat]]
  /\ \A t \in DOMAIN shareTxs : t >= shareTick + PublicationOffset2 => shareTxs[t] = NoReport
  /\ \A c \in ComputorIndex :
       accumulatedSharesCount[c] + shareTxs[shareTick][c] + shareTxs[shareTick + 1][c]
         + Total(Unsent(c)) + Total(Awaited(c))
       <= (NumberOfComputors - 1) * recordedShares[c]

(***************************************************************************)
(* Execution fees                                                          *)
(***************************************************************************)

VARIABLES
  feeTick,
  phaseTimes,             \* computor -> [active, prev]: executionTimeAccumulator of its node
  measuredFees,           \* computor -> fee of the last complete phase, prev when it ended
  feeTxs,                 \* tick -> [fee, phase] of its leader
  feeReports,             \* computor -> [fee, phase], those stored for the contract
  reservedFees,
  deduction               \* [fee, reports, measured] of the last processed reports

feeVars == <<feeTick, phaseTimes, measuredFees, feeTxs, feeReports, reservedFees, deduction>>

PhaseOf(tick) == tick \div NumberOfComputors
Report(fee, phase) == [fee |-> fee, phase |-> phase]
NoFee == Report(0, 0)

\* The contract runs in the first tick of a phase; it takes longer on slow nodes.
RunTimes == {[c \in ComputorIndex |-> IF c \in slow THEN 2 ELSE 1] : slow \in SUBSET SlowComputor}

\* calculateAscendingQuorumValue: the position in the sorted values, from 0.
QuorumIndex == (NumberOfComputors * 2) \div 3

\* The value at that position is the greatest with at most so many values below it.
QuorumValue(fees) ==
  LET below(c) == {d \in ComputorIndex : fees[d] < fees[c]}
  IN Max({fees[c] : c \in {c \in ComputorIndex : Cardinality(below(c)) <= QuorumIndex}})

\* The last report of a phase is in the second tick of the next one.
ProcessingTick(tick) == tick % NumberOfComputors = PublicationOffset2 - 1

\* A faulty leader reports nothing or too much; a leader without time reports nothing.
FeesSent(leader, tick) ==
  {Report(phaseTimes[leader].prev, PhaseOf(tick) - 1)} \cup
  IF leader \in FaultyLeader THEN {NoFee, Report(9, PhaseOf(tick) - 1)} ELSE {}

\* A tick: the report of its leader, the deduction, the contract, the report for the tick
\* after the next, and with a new phase a new accumulation.
FeeTickStep ==
  /\ feeTick < LastFeeTick
  /\ \E included \in BOOLEAN :
       LET stored == IF included /\ feeTxs[feeTick].fee > 0
                     THEN [feeReports EXCEPT ![LeaderOf(feeTick)] = feeTxs[feeTick]] ELSE feeReports
           fee == QuorumValue([c \in ComputorIndex |-> stored[c].fee])
       IN IF ProcessingTick(feeTick)
          THEN /\ feeReports' = [c \in ComputorIndex |-> NoFee]
               /\ reservedFees' = reservedFees - fee
               /\ deduction' = [fee |-> fee, reports |-> stored, measured |-> measuredFees]
          ELSE /\ feeReports' = stored
               /\ UNCHANGED <<reservedFees, deduction>>
  /\ \E run \in IF feeTick % NumberOfComputors = 0 /\ reservedFees' > 0 THEN RunTimes ELSE {NoReport} :
       LET now == [c \in ComputorIndex |-> [phaseTimes[c] EXCEPT !.active = @ + run[c]]]
           ends == PhaseOf(feeTick + 1) # PhaseOf(feeTick)
       IN /\ phaseTimes' = IF ends THEN [c \in ComputorIndex |-> [active |-> 0, prev |-> now[c].active]]
                           ELSE now
          /\ measuredFees' = IF ProcessingTick(feeTick)
                             THEN [c \in ComputorIndex |-> phaseTimes[c].prev] ELSE measuredFees
  /\ LET ahead == feeTick + PublicationOffset2 IN
       \E sent \in FeesSent(LeaderOf(ahead), feeTick) :
         feeTxs' = [feeTxs EXCEPT ![ahead] = sent, ![feeTick] = NoFee]
  /\ feeTick' = feeTick + 1

FeeInit ==
  /\ feeTick = NumberOfComputors
  /\ phaseTimes = [c \in ComputorIndex |-> [active |-> 0, prev |-> 0]]
  /\ measuredFees = NoReport
  /\ feeTxs = [t \in 0 .. LastFeeTick + PublicationOffset2 |-> NoFee]
  /\ feeReports = [c \in ComputorIndex |-> NoFee]
  /\ reservedFees = FirstReserve
  /\ deduction = [fee |-> 0, reports |-> [c \in ComputorIndex |-> NoFee], measured |-> NoReport]

\* The reports processed together are of one phase, and whatever the faulty leaders report the
\* fee is not above what the contract took on the node of an honest one.
FeesBacked ==
  /\ \A c, d \in ComputorIndex :
       deduction.reports[c].fee > 0 /\ deduction.reports[d].fee > 0 =>
         deduction.reports[c].phase = deduction.reports[d].phase
  /\ Cardinality(FaultyLeader) < NumberOfComputors - (NumberOfComputors * 2) \div 3 =>
       \E c \in ComputorIndex \ FaultyLeader : deduction.fee <= deduction.measured[c]

FeeSpec == FeeInit /\ [][FeeTickStep]_feeVars

FeeReport == [fee : Nat, phase : Int]

\* Which report belongs to which phase, and what an honest leader reports: what was measured
\* when the last reports were processed, or, in the tick of the processing, what is measured then.
FeeInv ==
  /\ feeTick \in NumberOfComputors .. LastFeeTick
  /\ phaseTimes \in [ComputorIndex -> [active : Nat, prev : Nat]]
  /\ measuredFees \in [ComputorIndex -> Nat]
  /\ feeTxs \in [0 .. LastFeeTick + PublicationOffset2 -> FeeReport]
  /\ feeReports \in [ComputorIndex -> FeeReport]
  /\ feeTick % NumberOfComputors \notin {0, 1} =>
       \A c \in ComputorIndex : measuredFees[c] = phaseTimes[c].prev
  /\ \A c \in ComputorIndex :
       /\ feeReports[c].fee > 0 => feeReports[c].phase = PhaseOf(feeTick - PublicationOffset2) - 1
       /\ c \notin FaultyLeader => feeReports[c].fee <= measuredFees[c]
  /\ \A t \in feeTick .. feeTick + 1 :
       /\ feeTxs[t].fee > 0 => feeTxs[t].phase = PhaseOf(t - PublicationOffset2) - 1
       /\ LeaderOf(t) \notin FaultyLeader =>
            feeTxs[t].fee <= IF t > feeTick /\ ProcessingTick(feeTick)
                             THEN phaseTimes[LeaderOf(t)].prev ELSE measuredFees[LeaderOf(t)]

(***************************************************************************)
(* Issuance at the end of an epoch                                         *)
(***************************************************************************)

VARIABLES
  issued,                 \* did the epoch end?
  scores,                 \* [tx, vote, shares], each of computor -> score
  paidRevenue,            \* [computors, donations, arbitrator]
  supply                  \* spectrumInfo.totalAmount

issuanceVars == <<issued, scores, paidRevenue, supply>>

\* getQuorumScore: the lowest score of the best Quorum computors, at least 1.
QuorumScore(score) ==
  LET better(c) == {d \in ComputorIndex : score[d] > score[c]}
      least == Min({score[c] : c \in {c \in ComputorIndex : Cardinality(better(c)) < Quorum}})
  IN Max({least, 1})

\* computeRevFactor
RevFactor(score) ==
  [c \in ComputorIndex |->
     IF score[c] >= QuorumScore(score) THEN Scaling ELSE (Scaling * score[c]) \div QuorumScore(score)]

\* computeRevenue
Revenue(s) ==
  LET factors == <<RevFactor(s.tx), RevFactor(s.vote), RevFactor(s.shares)>>
      share == IssuanceRate \div NumberOfComputors
  IN [c \in ComputorIndex |->
        (((factors[1][c] * factors[2][c] * factors[3][c] * share) \div Scaling) \div Scaling) \div Scaling]

\* The donations of a revenue, one after the other, each of what is left; in percent.
Donate(revenue, percents) ==
  LET left[i \in 0 .. Len(percents)] ==
        IF i = 0 THEN [revenue |-> revenue, donated |-> 0]
        ELSE LET given == (left[i - 1].revenue * percents[i]) \div 100
             IN [revenue |-> left[i - 1].revenue - given, donated |-> left[i - 1].donated + given]
  IN left[Len(percents)]

EndEpochIssuance ==
  /\ issued = FALSE
  /\ issued' = TRUE
  /\ \E tx, vote, shares \in ScoreSample, donations \in DonationSample :
       LET s == [tx |-> tx, vote |-> vote, shares |-> shares]
           net == [c \in ComputorIndex |-> Donate(Revenue(s)[c], donations)]
       IN /\ scores' = s
          /\ IF supply + IssuanceRate <= MaxSupply
             THEN /\ paidRevenue' = [computors |-> [c \in ComputorIndex |-> net[c].revenue],
                                     donations |-> Total([c \in ComputorIndex |-> net[c].donated]),
                                     arbitrator |-> IssuanceRate - Total(Revenue(s))]
                  /\ supply' = supply + Total(paidRevenue'.computors) + paidRevenue'.donations
                               + paidRevenue'.arbitrator
             ELSE UNCHANGED <<paidRevenue, supply>>

IssuanceInit ==
  /\ issued = FALSE
  /\ scores = [tx |-> NoReport, vote |-> NoReport, shares |-> NoReport]
  /\ paidRevenue = [computors |-> NoReport, donations |-> 0, arbitrator |-> 0]
  /\ supply \in FirstSupply

\* An epoch issues its rate, to the unit, or nothing when that would pass the maximal supply;
\* the part of the arbitrator is not negative.  A quorum of computors without donation has the
\* full revenue for a score in which nobody of the quorum is behind.
IssuanceExact ==
  /\ supply <= MaxSupply
  /\ paidRevenue.arbitrator >= 0
  /\ issued => Total(paidRevenue.computors) + paidRevenue.donations + paidRevenue.arbitrator
                 \in {0, IssuanceRate}
  /\ issued /\ paidRevenue.donations = 0 /\ supply \notin FirstSupply =>
       \A c \in ComputorIndex :
         (\A score \in {scores.tx, scores.vote, scores.shares} :
            /\ score[c] > 0
            /\ Cardinality({d \in ComputorIndex : score[d] > score[c]}) < Quorum)
         => paidRevenue.computors[c] = IssuanceRate \div NumberOfComputors

\* Before the end of the epoch nothing was issued.
IssuanceInv ==
  /\ issued \in BOOLEAN
  /\ ~issued => /\ supply \in FirstSupply
                /\ paidRevenue = [computors |-> NoReport, donations |-> 0, arbitrator |-> 0]
  /\ IssuanceExact

IssuanceSpec == IssuanceInit /\ [][EndEpochIssuance]_issuanceVars
===============================================================================

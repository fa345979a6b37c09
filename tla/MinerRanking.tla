------------------------------ MODULE MinerRanking ------------------------------
(***************************************************************************)
(* The solutions of miners and the computors of the next epoch: solution   *)
(* transactions with their deposits, the ranking of miners, the solutions  *)
(* that a main node publishes for its computors, and the indices of the    *)
(* computors when the epoch ends.                                          *)
(***************************************************************************)
EXTENDS Integers, Sequences, SequencesExt, FiniteSets, FiniteSetsExt

CONSTANTS
  FirstComputors,   \* sequence of the computors of the first epoch
  AlwaysKept,       \* QUORUM
  Solution,         \* [miner, nonce, seed, good]
  OwnComputor,      \* those of this node
  MaxMiners, MaxOwnSolutions,
  Internal, External,   \* the phases of mining, in ticks
  PublicationOffset,    \* MIN_MINING_SOLUTIONS_PUBLICATION_OFFSET
  SeedMargin,       \* the ticks of the external phase that still take solutions: 3
  LastMiningTick    \* bound

ASSUME MinerRankingAssumption ==
  /\ FirstComputors \in Seq(Range(FirstComputors)) /\ IsInjective(FirstComputors)
  /\ AlwaysKept \in 1 .. Len(FirstComputors)
  /\ MaxMiners \in Nat /\ MaxMiners >= Len(FirstComputors)
  /\ IsFiniteSet(Solution) /\ IsFiniteSet(OwnComputor)
  /\ {Internal, External, PublicationOffset, SeedMargin, LastMiningTick} \subseteq Nat
  /\ SeedMargin <= External /\ Internal + External > 0

VARIABLES
  miningTick, miningSeed,     \* seed 0: none
  computors,                  \* of this epoch
  miners,                     \* minerPublicKeys, minerScores
  competitors,                \* the worst computors and the best candidates
  futureComputors,
  solutionFlags,              \* the solutions that were processed
  ownSolutions,               \* sequence of [solution, publication]
  solutionTxs,                \* tick -> the solutions of its transactions
  deposits,                   \* solution -> deposits paid and not returned
  reordered                   \* [from, to, old]: futureComputors before and after the last epoch

miningVars == <<miningTick, miningSeed, computors, miners, competitors, futureComputors,
                solutionFlags, ownSolutions, solutionTxs, deposits, reordered>>

\* The seed of the cycle in which a tick is; a new epoch has other seeds.
SeedOf(tick, epoch) == (tick \div (Internal + External)) + 1 + 10 * epoch

New      == 0
Recorded == -1
Obsolete == -2

Seats  == Len(FirstComputors)
Rivals == Seats - AlwaysKept
Nobody == "nobody"

Cycle == Internal + External
TickInCycle(tick) == tick % Cycle

(***************************************************************************)
(* The ranking                                                             *)
(***************************************************************************)

Points(key, score, seated) == [key |-> key, score |-> score, seated |-> seated]

\* The entry moves to the front, down to the floor, past those with a lower score.
Climbed(list, i, floor) ==
  LET ahead == {j \in floor .. i - 1 : list[j].score >= list[i].score}
      place == IF ahead = {} THEN floor ELSE Max(ahead) + 1
  IN [k \in DOMAIN list |-> IF k \notin place .. i THEN list[k]
                            ELSE IF k = place THEN list[i] ELSE list[k - 1]]

\* One more solution of the miner; computors and candidates are ranked apart.
Credited(list, miner) ==
  LET own == {i \in DOMAIN list : list[i].key = miner}
      floor(i) == IF i <= Seats THEN 1 ELSE Seats + 1
  IN CASE own # {} -> Climbed([list EXCEPT ![Min(own)].score = @ + 1], Min(own), floor(Min(own)))
       [] own = {} /\ Len(list) < MaxMiners ->
            Climbed(Append(list, Points(miner, 1, FALSE)), Len(list) + 1, Seats + 1)
       [] OTHER -> list

\* The worst computors and the best candidates; where there is no candidate the key of the last
\* competition stays, without points.
Contest(list, old) ==
  [i \in 1 .. 2 * Rivals |->
     IF i <= Rivals THEN Points(list[AlwaysKept + i].key, list[AlwaysKept + i].score, TRUE)
     ELSE IF Seats + i - Rivals <= Len(list)
     THEN Points(list[Seats + i - Rivals].key, list[Seats + i - Rivals].score, FALSE)
     ELSE Points(old[i].key, 0, FALSE)]

\* Every candidate climbs past the computors and candidates that are worse.
Competition(list, old) ==
  LET after[n \in 0 .. Rivals] ==
        IF n = 0 THEN Contest(list, old) ELSE Climbed(after[n - 1], Rivals + n, 1)
  IN after[Rivals]

Seated(list, competition) ==
  [i \in 1 .. Seats |-> IF i <= AlwaysKept THEN list[i].key ELSE competition[i - AlwaysKept].key]

(***************************************************************************)
(* Solution transactions                                                   *)
(***************************************************************************)

Good(s) == s.good /\ s.seed # 0 /\ s.seed = miningSeed

\* Where the node keeps a solution of its own computors.
OwnIndex(own, s) == {i \in DOMAIN own : own[i].solution = s}

Record(own, s) ==
  CASE s.miner \notin OwnComputor -> own
    [] s.miner \in OwnComputor /\ OwnIndex(own, s) # {} ->
         [own EXCEPT ![Min(OwnIndex(own, s))].publication = Recorded]
    [] s.miner \in OwnComputor /\ OwnIndex(own, s) = {} /\ Len(own) < MaxOwnSolutions ->
         Append(own, [solution |-> s, publication |-> Recorded])
    [] OTHER -> own

\* processTickTransaction() takes the deposit; processTickTransactionSolution() returns it
\* when the solution is good and new.
Processed(st, s) ==
  LET paid == [st EXCEPT !.deposits[s] = @ + 1] IN
  IF s \in st.flags THEN [paid EXCEPT !.own = Record(@, s)]
  ELSE IF ~Good(s) THEN [paid EXCEPT !.flags = @ \cup {s}]
  ELSE LET list == Credited(st.miners, s.miner)
           competition == Competition(list, st.competitors)
       IN [st EXCEPT !.flags = @ \cup {s}, !.own = Record(@, s), !.miners = list,
                     !.competitors = competition, !.future = Seated(list, competition)]

AllProcessed(st, order) ==
  LET after[n \in 0 .. Len(order)] == IF n = 0 THEN st ELSE Processed(after[n - 1], order[n])
  IN after[Len(order)]

(***************************************************************************)
(* Publication by a main node                                              *)
(***************************************************************************)

\* Not published when its tick comes after the reset of the mining seed.
InTime(tick) == TickInCycle(tick) + PublicationOffset < Internal + SeedMargin

\* The solution to publish for a computor, first among those whose transaction failed, then
\* among new ones; those of an older seed that come before it become obsolete.
Selected(own, c) ==
  LET due(i) == own[i].solution.miner = c /\ own[i].publication > 0 /\ own[i].publication <= miningTick
      fresh(i) == own[i].solution.miner = c /\ own[i].publication = New
      current(i) == own[i].solution.seed = miningSeed
      first(P) == IF P = {} THEN Len(own) + 1 ELSE Min(P)
      again == first({i \in DOMAIN own : due(i) /\ current(i)})
      next  == IF again <= Len(own) THEN again
               ELSE first({i \in DOMAIN own : fresh(i) /\ current(i)})
      stale(i) == /\ ~current(i)
                  /\ \/ due(i) /\ i < again
                     \/ fresh(i) /\ again > Len(own) /\ i < next
  IN [index |-> next,
      own |-> [i \in DOMAIN own |-> IF stale(i) THEN [own[i] EXCEPT !.publication = Obsolete] ELSE own[i]]]

Published(st, c) ==
  LET choice == Selected(st.own, c) tick == miningTick + PublicationOffset IN
  IF choice.index > Len(st.own) \/ ~InTime(miningTick) THEN [st EXCEPT !.own = choice.own]
  ELSE [st EXCEPT !.own = [choice.own EXCEPT ![choice.index].publication = tick],
                  !.txs[tick] = @ \cup {choice.own[choice.index].solution}]

AllPublished(st, turns) ==
  LET after[n \in 0 .. Len(turns)] == IF n = 0 THEN st ELSE Published(after[n - 1], turns[n])
  IN after[Len(turns)]

(***************************************************************************)
(* Actions                                                                 *)
(***************************************************************************)

\* A miner sends a solution to the computor: a good one is kept.
ReceiveSolution(s) ==
  /\ s.miner \in OwnComputor /\ Good(s)
  /\ OwnIndex(ownSolutions, s) = {} /\ Len(ownSolutions) < MaxOwnSolutions
  /\ ownSolutions' = Append(ownSolutions, [solution |-> s, publication |-> New])
  /\ UNCHANGED <<miningTick, miningSeed, computors, miners, competitors, futureComputors,
                 solutionFlags, solutionTxs, deposits, reordered>>

\* Somebody else sends a solution transaction for the next tick.
OthersPublish(s) ==
  /\ s.miner \notin OwnComputor /\ miningTick < LastMiningTick
  /\ solutionTxs' = [solutionTxs EXCEPT ![miningTick + 1] = @ \cup {s}]
  /\ UNCHANGED <<miningTick, miningSeed, computors, miners, competitors, futureComputors,
                 solutionFlags, ownSolutions, deposits, reordered>>

\* The seed of the tick that begins.
NewSeed(tick) ==
  CASE TickInCycle(tick) = 0 -> SeedOf(tick, IF reordered.to = << >> THEN 0 ELSE 1)
    [] TickInCycle(tick) = Internal + SeedMargin -> 0
    [] OTHER -> miningSeed

\* A tick with some of its transactions, in the order of the tick data; then the publications
\* of the node, and the mining phase of the next tick.
ProcessMiningTick ==
  /\ miningTick < LastMiningTick
  /\ \E included \in SUBSET solutionTxs[miningTick] :
       \E order \in SetToSeqs(included), turns \in SetToSeqs(OwnComputor) :
         LET begun == [flags |-> solutionFlags, own |-> ownSolutions, miners |-> miners,
                       competitors |-> competitors, future |-> futureComputors,
                       deposits |-> deposits, txs |-> solutionTxs]
             after == AllPublished(AllProcessed(begun, order), turns)
         IN /\ solutionFlags' = after.flags /\ ownSolutions' = after.own
            /\ miners' = after.miners /\ competitors' = after.competitors
            /\ futureComputors' = after.future /\ deposits' = after.deposits
            /\ solutionTxs' = [after.txs EXCEPT ![miningTick] = {}]
  /\ miningTick' = miningTick + 1
  /\ miningSeed' = NewSeed(miningTick + 1)
  /\ UNCHANGED <<computors, reordered>>

\* calculateStableComputorIndex: who stays keeps the index, the others fill the rest.
Stable(future, current) ==
  LET kept == {i \in DOMAIN current : current[i] \in Range(future)}
      new  == {j \in DOMAIN future : future[j] \notin Range(current)}
      rank(S, i) == Cardinality({k \in S : k <= i})
  IN [i \in DOMAIN current |->
        IF i \in kept THEN current[i]
        ELSE future[CHOOSE j \in new : rank(new, j) = rank(DOMAIN current \ kept, i)]]

\* The end of an epoch after a tick: the computors that won become those of the next one.
EndMiningEpoch ==
  /\ Nobody \notin Range(futureComputors)
  /\ reordered.to = << >>
  /\ LET next == Stable(futureComputors, computors) IN
       /\ reordered' = [from |-> futureComputors, to |-> next, old |-> computors]
       /\ computors' = next
       /\ miners' = [i \in 1 .. Seats |-> Points(next[i], 0, TRUE)]
  /\ competitors' = [i \in 1 .. 2 * Rivals |-> Points(Nobody, 0, FALSE)]
  /\ futureComputors' = [i \in 1 .. Seats |-> Nobody]
  /\ solutionFlags' = {} /\ ownSolutions' = << >>
  /\ solutionTxs' = [t \in DOMAIN solutionTxs |-> {}]
  /\ deposits' = [s \in Solution |-> 0]
  /\ miningSeed' = IF TickInCycle(miningTick) < Internal THEN SeedOf(miningTick, 1) ELSE 0
  /\ UNCHANGED miningTick

MiningInit ==
  /\ miningTick = 0 /\ miningSeed = SeedOf(0, 0)
  /\ computors = FirstComputors
  /\ miners = [i \in 1 .. Seats |-> Points(FirstComputors[i], 0, TRUE)]
  /\ competitors = [i \in 1 .. 2 * Rivals |-> Points(Nobody, 0, FALSE)]
  /\ futureComputors = [i \in 1 .. Seats |-> Nobody]
  /\ solutionFlags = {} /\ ownSolutions = << >>
  /\ solutionTxs = [t \in 0 .. LastMiningTick + PublicationOffset |-> {}]
  /\ deposits = [s \in Solution |-> 0]
  /\ reordered = [from |-> << >>, to |-> << >>, old |-> << >>]

MiningNext ==
  \/ \E s \in Solution : ReceiveSolution(s) \/ OthersPublish(s)
  \/ ProcessMiningTick
  \/ EndMiningEpoch

MiningSpec == MiningInit /\ [][MiningNext]_miningVars

(***************************************************************************)
(* Properties                                                              *)
(***************************************************************************)

ScoreOf(miner) == LET at == {i \in DOMAIN miners : miners[i].key = miner} IN
                  IF at = {} THEN 0 ELSE miners[Min(at)].score

\* No seat has two owners and a quorum of the computors stays; who has no seat is not better
\* than the worst of those who competed for one, and a computor loses its seat only to a
\* candidate with more solutions.
BestAreSeated ==
  Nobody \notin Range(futureComputors) =>
    /\ Cardinality(Range(futureComputors)) = Seats
    /\ Cardinality(Range(futureComputors) \cap Range(computors)) >= AlwaysKept
    /\ \A i \in DOMAIN miners : miners[i].key \notin Range(futureComputors) =>
         \A j \in AlwaysKept + 1 .. Seats : ScoreOf(futureComputors[j]) >= miners[i].score
    /\ \A c \in Range(computors) \ Range(futureComputors) :
         \A d \in Range(futureComputors) \ Range(computors) : ScoreOf(d) > ScoreOf(c)

\* A miner has no more points than good solutions that were processed, whatever was published
\* twice.
PointsAreSolutions ==
  \A m \in {s.miner : s \in Solution} :
    ScoreOf(m) <= Cardinality({s \in solutionFlags : s.miner = m /\ s.good})

\* The computors of the node lose no deposit: what they publish is good when it is processed,
\* and is processed once.
NoDepositLost == \A s \in Solution : s.miner \in OwnComputor => deposits[s] = 0

\* Who stays a computor keeps its index, and the list is a permutation of the winners.
IndicesStable ==
  reordered.to # << >> =>
    /\ Range(reordered.to) = Range(reordered.from)
    /\ Cardinality(Range(reordered.to)) = Seats
    /\ \A i \in DOMAIN reordered.old :
         reordered.old[i] \in Range(reordered.from) => reordered.to[i] = reordered.old[i]

(***************************************************************************)
(* The inductive invariant                                                 *)
(***************************************************************************)

MinerKey == Range(FirstComputors) \cup {s.miner : s \in Solution} \cup {Nobody}
RankedMiner == [key : MinerKey, score : Nat, seated : BOOLEAN]
OwnSolution == [solution : Solution, publication : Int]

MiningTypeOK ==
  /\ miningTick \in 0 .. LastMiningTick /\ miningSeed \in Nat
  /\ computors \in [1 .. Seats -> MinerKey]
  /\ miners \in Seq(RankedMiner) /\ Len(miners) <= MaxMiners
  /\ competitors \in [1 .. 2 * Rivals -> RankedMiner]
  /\ futureComputors \in [1 .. Seats -> MinerKey]
  /\ solutionFlags \subseteq Solution
  /\ ownSolutions \in Seq(OwnSolution)
  /\ solutionTxs \in [0 .. LastMiningTick + PublicationOffset -> SUBSET Solution]
  /\ deposits \in [Solution -> Nat]

\* The computors come first and then the candidates, both by their scores and nobody twice.
Ranked(list) ==
  /\ Len(list) >= Seats
  /\ \A i, j \in DOMAIN list : i < j =>
       /\ list[i].key # list[j].key
       /\ j <= Seats \/ i > Seats => list[i].score >= list[j].score
  /\ {list[i].key : i \in 1 .. Seats} = Range(computors)

\* The first competitors are ranked miners, nobody twice; who is not among them is not better
\* than any of them, and a computor that is not among them is worse than every candidate that is.
SeatsWon(list, best) ==
  /\ \A i \in 1 .. Rivals : \E p \in AlwaysKept + 1 .. Len(list) :
       best[i] = Points(list[p].key, list[p].score, p <= Seats)
  /\ \A i, j \in 1 .. Rivals : i # j => best[i].key # best[j].key
  /\ \A p \in AlwaysKept + 1 .. Len(list) :
       (\A i \in 1 .. Rivals : best[i].key # list[p].key) =>
          \A i \in 1 .. Rivals : /\ best[i].score >= list[p].score
                                 /\ p <= Seats /\ ~best[i].seated => best[i].score > list[p].score

\* Points are those of good solutions that were processed.
Earned(list, flags) ==
  \A i \in DOMAIN list :
    list[i].score <= Cardinality({s \in flags : s.miner = list[i].key /\ s.good})

\* The solutions of the own computors are kept once, and are known to be good; one that was
\* processed is kept, and will not be published.
OwnKept(own, flags) ==
  /\ \A i, j \in DOMAIN own : i # j => own[i].solution # own[j].solution
  /\ \A i \in DOMAIN own :
       LET s == own[i].solution IN
       /\ s.miner \in OwnComputor /\ s.good /\ s.seed # 0
       /\ s \in flags => own[i].publication < 0
  /\ \A s \in flags : s.miner \in OwnComputor => \E i \in DOMAIN own : own[i].solution = s

\* The transactions of own computors after a tick are those that were planned, not processed
\* yet, and the mining seed stays until then.
OwnPlanned(own, flags, txs, tick) ==
  \A t \in DOMAIN txs : \A s \in txs[t] :
    t >= tick /\ s.miner \in OwnComputor =>
      /\ s \notin flags /\ s.seed = miningSeed
      /\ \A u \in miningTick + 1 .. t : TickInCycle(u) \notin {0, Internal + SeedMargin}
      /\ \E i \in DOMAIN own : own[i].solution = s /\ own[i].publication = t

MiningInv ==
  /\ MiningTypeOK
  /\ IsInjective(computors)
  /\ Ranked(miners)
  /\ \/ futureComputors = [i \in 1 .. Seats |-> Nobody]
     \/ SeatsWon(miners, competitors) /\ futureComputors = Seated(miners, competitors)
  /\ Earned(miners, solutionFlags)
  /\ OwnKept(ownSolutions, solutionFlags)
  /\ OwnPlanned(ownSolutions, solutionFlags, solutionTxs, miningTick)
  /\ NoDepositLost
  /\ IndicesStable
===============================================================================

------------------------- MODULE TickConsensusProofs -------------------------
(***************************************************************************)
(* Proofs about TickConsensus for every number of nodes, computors and     *)
(* ticks, every set of tick data and every behaviour of the Byzantine      *)
(* computors that the assumptions of that module allow.                    *)
(***************************************************************************)
EXTENDS TickConsensus, FiniteSetTheorems, TLAPS

USE DEF Computor, Honest, Digest, Ledger

-----------------------------------------------------------------------------
(***************************************************************************)
(* Quorums.                                                                *)
(***************************************************************************)

\* The computors, 0 .. N - 1, are a finite set of NUMBER_OF_COMPUTORS elements.
LEMMA ComputorFinite ==
  /\ IsFiniteSet(Computor)
  /\ Cardinality(Computor) = NumberOfComputors
<1>1. NumberOfComputors \in Nat /\ NumberOfComputors > 0
  BY ComputorAssumption
<1>2. /\ IsFiniteSet(0 .. NumberOfComputors - 1)
      /\ Cardinality(0 .. NumberOfComputors - 1) = NumberOfComputors
  BY <1>1, FS_Interval
<1>3. QED
  BY <1>2

\* Two quorums have an honest computor in common.
LEMMA QuorumsMeet ==
  ASSUME NEW S \in SUBSET Computor, NEW T \in SUBSET Computor,
         Cardinality(S) >= QuorumSize, Cardinality(T) >= QuorumSize
  PROVE  \E c \in Honest : c \in S /\ c \in T
<1>1. /\ IsFiniteSet(S) /\ IsFiniteSet(T) /\ IsFiniteSet(S \cup T)
      /\ Cardinality(S) \in Nat /\ Cardinality(T) \in Nat
      /\ Cardinality(S \cup T) <= NumberOfComputors
      /\ Cardinality(S \cup T) \in Nat
  <2>1. IsFiniteSet(S) /\ IsFiniteSet(T) /\ S \cup T \subseteq Computor
    BY ComputorFinite, FS_Subset
  <2>2. IsFiniteSet(S \cup T) /\ Cardinality(S \cup T) <= Cardinality(Computor)
    BY <2>1, ComputorFinite, FS_Subset
  <2>3. QED
    BY <2>1, <2>2, ComputorFinite, FS_CardinalityType
<1>2. Cardinality(S \cup T) = Cardinality(S) + Cardinality(T) - Cardinality(S \cap T)
  BY <1>1, FS_Union
<1>3. IsFiniteSet(S \cap T) /\ Cardinality(S \cap T) \in Nat
  BY <1>1, FS_Intersection, FS_CardinalityType
<1>4. IsFiniteSet(Byzantine) /\ Cardinality(Byzantine) \in Nat
  BY ComputorFinite, ComputorAssumption, FS_Subset, FS_CardinalityType
<1>5. Cardinality(S \cap T) > Cardinality(Byzantine)
  BY <1>1, <1>2, <1>3, <1>4, QuorumAssumption, ComputorAssumption
<1>6. ~(S \cap T \subseteq Byzantine)
  <2>1. S \cap T \subseteq Byzantine => Cardinality(S \cap T) <= Cardinality(Byzantine)
    BY <1>4, FS_Subset
  <2>2. QED
    BY <2>1, <1>3, <1>4, <1>5
<1>7. QED
  BY <1>6

-----------------------------------------------------------------------------
(***************************************************************************)
(* Types.                                                                  *)
(***************************************************************************)

\* Executing a tick yields a ledger.
LEMMA ExecutedType ==
  ASSUME NEW e \in Etalon
  PROVE  Executed(e) \in Ledger
<1>1. e.prev \in Seq(Data) /\ e.data \in Data \cup {Empty}
  BY DEF Etalon
<1>2. CASE e.data \in Data
  BY <1>1, <1>2 DEF Executed
<1>3. CASE e.data \notin Data
  BY <1>1, <1>3 DEF Executed
<1>4. QED
  BY <1>2, <1>3

\* The rule for the next tick's data yields a digest or no decision.
LEMMA DecidedType ==
  ASSUME NEW digest
  PROVE  Decided(digest) \in Digest \cup {Unknown}
<1>1. CASE \E v \in Digest : Support(digest, v) >= QuorumSize
  BY <1>1 DEF Decided
<1>2. CASE ~(\E v \in Digest : Support(digest, v) >= QuorumSize)
  BY <1>2 DEF Decided
<1>3. QED
  BY <1>1, <1>2

\* Facts about ticks.
LEMMA TickFacts ==
  /\ MaxTick \in Nat /\ 1 \in Tick /\ 0 \in 0 .. MaxTick
  /\ \A t \in Tick : t \in Nat /\ t \in 0 .. MaxTick /\ t >= 1
  /\ \A t \in Tick : t < MaxTick => t + 1 \in Tick
  /\ \A t \in Tick : t # 1 => t - 1 \in Tick
BY BoundAssumption DEF Tick

\* An update of one slot of a table keeps the type of the table.
LEMMA SlotType ==
  ASSUME NEW S, NEW T, NEW V, NEW f \in [S -> [T -> V]],
         NEW s \in S, NEW t \in T, NEW v \in V
  PROVE  [f EXCEPT ![s][t] = v] \in [S -> [T -> V]]
OBVIOUS

\* beginEpoch() leaves every variable with its type.
LEMMA InitType == Init => TypeOK
<1>1. 1 \in Tick /\ 0 \in 0 .. MaxTick
  BY BoundAssumption DEF Tick
<1>2. QED
  BY <1>1 DEF Init, TypeOK

\* A step of the request processors keeps the types.
LEMMA HandlerType ==
  ASSUME TypeOK, NEW n \in Node,
         \/ \E c \in Computor, t \in Tick : \E body \in Receivable(c, t) :
               ReceiveVote(n, c, t, body)
         \/ \E m \in ReceivableData : CheckTickData(n, m)
         \/ \E m \in handling[n] : StoreTickData(n, m)
         \/ \E d \in Data : ReceiveTransactions(n, d)
  PROVE  TypeOK'
<1>1. ASSUME NEW c \in Computor, NEW t \in Tick, NEW body \in Receivable(c, t),
             ReceiveVote(n, c, t, body)
      PROVE  TypeOK'
  <2>1. body \in VoteBody
    BY BoundAssumption DEF Receivable, TypeOK
  <2>2. ticks' \in [Node -> [Tick -> [Computor -> VoteBody \cup {None}]]]
    BY <1>1, <2>1 DEF ReceiveVote, TypeOK
  <2>3. QED
    BY <1>1, <2>2 DEF ReceiveVote, TypeOK
<1>2. ASSUME NEW m \in ReceivableData, CheckTickData(n, m)
      PROVE  TypeOK'
  <2>1. m \in [tick : Tick, data : Data]
    BY BoundAssumption DEF ReceivableData, TypeOK
  <2>2. handling' \in [Node -> SUBSET [tick : Tick, data : Data]]
    BY <1>2, <2>1 DEF CheckTickData, TypeOK
  <2>3. QED
    BY <1>2, <2>2 DEF CheckTickData, TypeOK
<1>3. ASSUME NEW m \in handling[n], StoreTickData(n, m)
      PROVE  TypeOK'
  <2>1. m \in [tick : Tick, data : Data]
    BY DEF TypeOK
  <2>2. handling' \in [Node -> SUBSET [tick : Tick, data : Data]]
    BY <1>3 DEF StoreTickData, TypeOK
  <2>3. tickData' = tickData \/ tickData' = [tickData EXCEPT ![n][m.tick] = m.data]
    BY <1>3 DEF StoreTickData
  <2>4. tickData' \in [Node -> [Tick -> Data \cup {None, Invalidated}]]
    <3>1. m.tick \in Tick /\ m.data \in Data \cup {None, Invalidated}
      BY <2>1
    <3>2. tickData \in [Node -> [Tick -> Data \cup {None, Invalidated}]]
      BY DEF TypeOK
    <3>3. [tickData EXCEPT ![n][m.tick] = m.data]
            \in [Node -> [Tick -> Data \cup {None, Invalidated}]]
      BY <3>1, <3>2, SlotType
    <3>4. QED
      BY <2>3, <3>2, <3>3
  <2>5. QED
    BY <1>3, <2>2, <2>4 DEF StoreTickData, TypeOK
<1>4. ASSUME NEW d \in Data, ReceiveTransactions(n, d)
      PROVE  TypeOK'
  BY <1>4 DEF ReceiveTransactions, TypeOK
<1>5. QED
  BY <1>1, <1>2, <1>3, <1>4

\* processTick() keeps the types.
LEMMA ProcessType ==
  ASSUME TypeOK, EtalonOK, VotedDataExecuted, NEW n \in Node, ProcessTick(n)
  PROVE  TypeOK'
<1> DEFINE t == tick[n]
           prev == IF t = 1 THEN << >> ELSE Executed(etalon[n][t - 1])
<1>1. /\ t \in Tick /\ t \in Nat /\ t \in 0 .. MaxTick
      /\ t < MaxTick /\ t > latestProcessedTick[n]
  BY BoundAssumption DEF ProcessTick, TypeOK, Tick
<1>2. prev \in Ledger
  <2>1. CASE t = 1
    BY <2>1
  <2>2. CASE t # 1
    <3>1. t - 1 \in Tick /\ t - 1 <= latestProcessedTick[n]
      BY <1>1, <2>2, TickFacts DEF EtalonOK, TypeOK
    <3>2. etalon[n][t - 1] \in Etalon
      BY <3>1 DEF EtalonOK, TypeOK
    <3>3. QED
      BY <2>2, <3>2, ExecutedType
  <2>3. QED
    BY <2>1, <2>2
<1>3. DataDigest(n, t) \in Digest
  BY DEF DataDigest
<1>4. [prev |-> prev, data |-> DataDigest(n, t)] \in Etalon
  BY <1>2, <1>3 DEF Etalon
<1>5. etalon' \in [Node -> [Tick -> Etalon \cup {None}]]
  <2>1. etalon' = [etalon EXCEPT ![n][t] = [prev |-> prev, data |-> DataDigest(n, t)]]
    BY DEF ProcessTick
  <2>2. QED
    BY <1>1, <1>4, <2>1 DEF TypeOK
<1>6. latestProcessedTick' \in [Node -> 0 .. MaxTick]
  BY <1>1 DEF ProcessTick, TypeOK
<1>7. /\ sentData' \subseteq [tick : Tick, data : Data]
      /\ transactions' \in [Node -> SUBSET Data]
  <2>1. CASE UNCHANGED <<sentData, transactions>>
    BY <2>1 DEF TypeOK
  <2>2. ASSUME NEW d \in Data, t + Offset \in Tick,
               sentData' = sentData \cup {[tick |-> t + Offset, data |-> d]},
               transactions' = [transactions EXCEPT ![n] = @ \cup {d}]
        PROVE  /\ sentData' \subseteq [tick : Tick, data : Data]
               /\ transactions' \in [Node -> SUBSET Data]
    BY <2>2 DEF TypeOK
  <2>3. QED
    BY <2>1, <2>2 DEF ProcessTick
<1>8. QED
  BY <1>5, <1>6, <1>7 DEF ProcessTick, TypeOK

\* What a node votes for is the etalon of the tick it has processed.
LEMMA CurrentFollows ==
  ASSUME TypeOK, EtalonOK, VotedDataExecuted, NEW n \in Node, latestProcessedTick[n] = tick[n]
  PROVE  /\ etalon[n][tick[n]] \in Etalon
         /\ CurrentEtalon(n) = etalon[n][tick[n]]
<1>1. tick[n] \in Tick /\ tick[n] <= tick[n]
  BY TickFacts DEF TypeOK
<1>2. /\ etalon[n][tick[n]] \in Etalon
      /\ etalon[n][tick[n]].data = DataDigest(n, tick[n])
  BY <1>1, ValueAssumption DEF EtalonOK, VotedDataExecuted, TypeOK
<1>3. QED
  BY <1>2 DEF CurrentEtalon, Etalon

\* The rest of the tick processor's loop keeps the types.
LEMMA LoopType ==
  ASSUME TypeOK, EtalonOK, VotedDataExecuted, NEW n \in Node,
         FindTarget(n) \/ Halt(n) \/ DiscardTimelock(n) \/ VoteAndCount(n) \/ ResendVotes(n)
  PROVE  TypeOK'
<1>1. CASE FindTarget(n)
  <2>1. FromNextTickVotes(n) \in Digest \cup {Unknown}
    BY DecidedType DEF FromNextTickVotes
  <2>2. FromCurrentTickVotes(n) \in Digest \cup {Unknown}
    BY DecidedType DEF FromCurrentTickVotes
  <2>3. target' \in [Node -> Digest \cup {Unknown}]
    BY <1>1, <2>1, <2>2 DEF FindTarget, TypeOK
  <2>4. QED
    BY <1>1, <2>3 DEF FindTarget, TypeOK
<1>2. CASE Halt(n)
  BY <1>2 DEF Halt, TypeOK
<1>3. CASE DiscardTimelock(n)
  <2>1. tick[n] + 1 \in Tick
    BY <1>3, BoundAssumption DEF DiscardTimelock, TypeOK, Tick
  <2>2. QED
    BY <1>3, <2>1 DEF DiscardTimelock, TypeOK
<1>4. CASE VoteAndCount(n)
  <2> DEFINE t == tick[n]
             e == CurrentEtalon(n)
  <2>1. /\ t \in Tick /\ t + 1 \in Tick /\ t \in 0 .. MaxTick
    BY <1>4, BoundAssumption DEF VoteAndCount, TypeOK, Tick
  <2>2. e \in Etalon
    BY <1>4, CurrentFollows DEF VoteAndCount
  <2>3. PICK nd \in NextTickData(n) :
          LET next == IF nd \in Data THEN nd ELSE Empty
              body == [prev |-> e.prev, data |-> e.data, next |-> next]
          IN
          /\ expectedNext' = [expectedNext EXCEPT ![n] = next]
          /\ sentVotes' = IF MayVote(n) THEN sentVotes \cup VotesOf(n, body) ELSE sentVotes
          /\ latestCreatedTick' =
               IF MayVote(n) /\ t # InitialTick THEN [latestCreatedTick EXCEPT ![n] = t]
               ELSE latestCreatedTick
          /\ \/ /\ tickData' = [tickData EXCEPT ![n][t + 1] = nd]
                /\ UNCHANGED <<tick, target, ticks>>
             \/ /\ tickData' = [tickData EXCEPT ![n][t + 1] = nd]
                /\ LeaveTick(n)
             \/ /\ tickData' = [tickData EXCEPT ![n][t + 1] = Invalidated]
                /\ LeaveTick(n)
    BY <1>4 DEF VoteAndCount
  <2> DEFINE next == IF nd \in Data THEN nd ELSE Empty
             body == [prev |-> e.prev, data |-> e.data, next |-> next]
  <2>4. nd \in Data \cup {None, Invalidated}
    BY <2>1, <2>3 DEF NextTickData, TypeOK
  <2>5. body \in VoteBody /\ next \in Digest
    BY <2>2 DEF Etalon, VoteBody
  <2>6. VotesOf(n, body) \subseteq [computor : Honest, tick : Tick, body : VoteBody]
    BY <2>1, <2>5 DEF VotesOf, Own
  <2>7. sentVotes' \subseteq [computor : Honest, tick : Tick, body : VoteBody]
    BY <2>3, <2>6 DEF TypeOK
  <2>8. expectedNext' \in [Node -> Digest]
    BY <2>3, <2>5 DEF TypeOK
  <2>9. latestCreatedTick' \in [Node -> 0 .. MaxTick]
    BY <2>1, <2>3 DEF TypeOK
  <2>10. tickData' \in [Node -> [Tick -> Data \cup {None, Invalidated}]]
    <3>1. tickData \in [Node -> [Tick -> Data \cup {None, Invalidated}]]
      BY DEF TypeOK
    <3>2. \A v \in Data \cup {None, Invalidated} :
            [tickData EXCEPT ![n][t + 1] = v] \in [Node -> [Tick -> Data \cup {None, Invalidated}]]
      BY <2>1, <3>1, SlotType
    <3>3. QED
      BY <2>3, <2>4, <3>2
  <2>11. /\ tick' \in [Node -> Tick]
         /\ target' \in [Node -> Digest \cup {Unknown}]
         /\ ticks' \in [Node -> [Tick -> [Computor -> VoteBody \cup {None}]]]
    <3>1. CASE UNCHANGED <<tick, target, ticks>>
      BY <3>1 DEF TypeOK
    <3>2. CASE LeaveTick(n)
      BY <2>1, <3>2 DEF LeaveTick, TypeOK
    <3>3. QED
      BY <2>3, <3>1, <3>2
  <2>12. QED
    BY <1>4, <2>7, <2>8, <2>9, <2>10, <2>11 DEF VoteAndCount, TypeOK
<1>5. CASE ResendVotes(n)
  <2>1. latestCreatedTick[n] \in 0 .. MaxTick /\ latestCreatedTick[n] - 1 \in 0 .. MaxTick
    BY <1>5, BoundAssumption DEF ResendVotes, TypeOK, Tick
  <2>2. QED
    BY <1>5, <2>1 DEF ResendVotes, TypeOK
<1>6. QED
  BY <1>1, <1>2, <1>3, <1>4, <1>5

-----------------------------------------------------------------------------
(***************************************************************************)
(* The inductive invariant.                                                *)
(***************************************************************************)

\* A pass that votes and counts either stays in the tick or leaves it with a
\* quorum of matching votes and settled data for the next tick.
LEMMA VoteCases ==
  ASSUME TypeOK, EtalonOK, VotedDataExecuted, NEW n \in Node, VoteAndCount(n)
  PROVE  /\ tick[n] + 1 \in Tick
         /\ latestProcessedTick[n] = tick[n]
         /\ etalon[n][tick[n]] \in Etalon
         /\ \E next \in Digest :
              LET e == etalon[n][tick[n]]
                  body == [prev |-> e.prev, data |-> e.data, next |-> next]
              IN  sentVotes' = sentVotes \/ sentVotes' = sentVotes \cup VotesOf(n, body)
         /\ \/ /\ UNCHANGED <<tick, ticks>>
               /\ \E nd \in NextTickData(n) : tickData' = [tickData EXCEPT ![n][tick[n] + 1] = nd]
            \/ /\ LeaveTick(n)
               /\ Cardinality(Matching(n, tick[n], etalon[n][tick[n]])) >= QuorumSize
               /\ \/ /\ target[n] # Unknown
                     /\ \E nd \in NextTickData(n) :
                          tickData' = [tickData EXCEPT ![n][tick[n] + 1] = nd]
                  \/ tickData' = [tickData EXCEPT ![n][tick[n] + 1] = Invalidated]
         /\ UNCHANGED <<latestProcessedTick, etalon, transactions, handling>>
<1> DEFINE t == tick[n]
           e == etalon[n][t]
<1>1. t \in Tick /\ t + 1 \in Tick /\ latestProcessedTick[n] = t
  BY TickFacts DEF VoteAndCount, TypeOK
<1>2. e \in Etalon /\ CurrentEtalon(n) = e
  BY <1>1, CurrentFollows
<1>3. PICK nd \in NextTickData(n) :
        LET next == IF nd \in Data THEN nd ELSE Empty
            body == [prev |-> e.prev, data |-> e.data, next |-> next]
        IN
        /\ sentVotes' = IF MayVote(n) THEN sentVotes \cup VotesOf(n, body) ELSE sentVotes
        /\ \/ /\ tickData' = [tickData EXCEPT ![n][t + 1] = nd]
              /\ UNCHANGED <<tick, target, ticks>>
           \/ /\ Cardinality(Matching(n, t, e)) >= QuorumSize
              /\ target[n] # Unknown
              /\ tickData' = [tickData EXCEPT ![n][t + 1] = nd]
              /\ LeaveTick(n)
           \/ /\ Cardinality(Matching(n, t, e)) >= QuorumSize
              /\ tickData' = [tickData EXCEPT ![n][t + 1] = Invalidated]
              /\ LeaveTick(n)
  BY <1>2 DEF VoteAndCount
<1> DEFINE next == IF nd \in Data THEN nd ELSE Empty
           body == [prev |-> e.prev, data |-> e.data, next |-> next]
<1>4. next \in Digest
  OBVIOUS
<1>5. sentVotes' = sentVotes \/ sentVotes' = sentVotes \cup VotesOf(n, body)
  BY <1>3
<1>6. UNCHANGED <<latestProcessedTick, etalon, transactions, handling>>
  BY DEF VoteAndCount
<1>7. \/ /\ UNCHANGED <<tick, ticks>>
         /\ tickData' = [tickData EXCEPT ![n][t + 1] = nd]
      \/ /\ LeaveTick(n)
         /\ Cardinality(Matching(n, t, e)) >= QuorumSize
         /\ \/ target[n] # Unknown /\ tickData' = [tickData EXCEPT ![n][t + 1] = nd]
            \/ tickData' = [tickData EXCEPT ![n][t + 1] = Invalidated]
  BY <1>3
<1>8. QED
  BY <1>1, <1>2, <1>4, <1>5, <1>6, <1>7

\* The etalon of a processed tick never changes, and no vote is unsent.
LEMMA Stable ==
  ASSUME TypeOK, EtalonOK, VotedDataExecuted, Next
  PROVE  /\ \A n \in Node, t \in Tick : etalon[n][t] # None => etalon'[n][t] = etalon[n][t]
         /\ sentVotes \subseteq sentVotes'
<1> SUFFICES ASSUME NEW k \in Node, Step(k)
             PROVE  /\ \A n \in Node, t \in Tick :
                          etalon[n][t] # None => etalon'[n][t] = etalon[n][t]
                    /\ sentVotes \subseteq sentVotes'
  BY DEF Next
<1>1. CASE ProcessTick(k)
  <2>1. tick[k] \in Tick /\ ~(tick[k] <= latestProcessedTick[k])
    BY <1>1, TickFacts DEF ProcessTick, TypeOK
  <2>2. etalon[k][tick[k]] = None
    BY <2>1 DEF EtalonOK
  <2>3. \E e : etalon' = [etalon EXCEPT ![k][tick[k]] = e]
    BY <1>1 DEF ProcessTick
  <2>4. QED
    BY <1>1, <2>2, <2>3 DEF ProcessTick, TypeOK
<1>2. CASE VoteAndCount(k)
  BY <1>2, VoteCases
<1>3. CASE FindTarget(k) \/ Halt(k) \/ DiscardTimelock(k) \/ ResendVotes(k)
  BY <1>3 DEF FindTarget, Halt, DiscardTimelock, ResendVotes
<1>4. QED
  BY <1>1, <1>2, <1>3 DEF Step, ReceiveVote, CheckTickData, StoreTickData, ReceiveTransactions

\* Which steps of a node may change which variables.
LEMMA Frames ==
  ASSUME NEW k \in Node, Step(k)
  PROVE  /\ UNCHANGED <<tick, sentVotes>> \/ VoteAndCount(k)
         /\ UNCHANGED <<latestProcessedTick, etalon>> \/ ProcessTick(k)
         /\ \/ UNCHANGED ticks
            \/ \E c \in Computor, t \in Tick : \E body \in Receivable(c, t) :
                  ReceiveVote(k, c, t, body)
            \/ VoteAndCount(k)
         /\ \/ UNCHANGED handling
            \/ \E m \in ReceivableData : CheckTickData(k, m)
            \/ \E m \in handling[k] : StoreTickData(k, m)
         /\ \/ UNCHANGED tickData
            \/ \E m \in handling[k] : StoreTickData(k, m)
            \/ DiscardTimelock(k)
            \/ VoteAndCount(k)
         /\ \/ UNCHANGED transactions
            \/ \E d \in Data : ReceiveTransactions(k, d)
            \/ ProcessTick(k)
<1>1. CASE ProcessTick(k)
  BY <1>1 DEF ProcessTick
<1>2. CASE VoteAndCount(k)
  BY <1>2 DEF VoteAndCount
<1>3. CASE FindTarget(k) \/ Halt(k) \/ DiscardTimelock(k) \/ ResendVotes(k)
  BY <1>3 DEF FindTarget, Halt, DiscardTimelock, ResendVotes
<1>4. QED
  BY <1>1, <1>2, <1>3 DEF Step, ReceiveVote, CheckTickData, StoreTickData, ReceiveTransactions

\* The invariant holds when the epoch begins.
LEMMA InitInvariant == Init => IInv
<1> SUFFICES ASSUME Init PROVE IInv
  OBVIOUS
<1>1. TypeOK
  BY InitType
<1>2. EtalonOK
  BY TickFacts DEF Init, EtalonOK
<1>3. VotesFollowState
  BY DEF Init, VotesFollowState
<1>4. StoredVotesSent
  BY DEF Init, StoredVotesSent
<1>5. FinalBacked
  BY TickFacts DEF Init, FinalBacked, Final
<1>6. SettledData
  BY TickFacts DEF Init, SettledData
<1>7. TransactionsKnown
  BY ValueAssumption DEF Init, TransactionsKnown
<1>8. VotedDataExecuted
  BY DEF Init, VotedDataExecuted
<1>9. QED
  BY <1>1, <1>2, <1>3, <1>4, <1>5, <1>6, <1>7, <1>8 DEF IInv

\* Every step keeps the types.
LEMMA TypeStep ==
  ASSUME TypeOK, EtalonOK, VotedDataExecuted, Next
  PROVE  TypeOK'
BY HandlerType, ProcessType, LoopType DEF Next, Step

\* Every step keeps VotesFollowState: votes are made from the etalon of a tick
\* that is never processed again.
LEMMA VotesStep ==
  ASSUME TypeOK, EtalonOK, VotedDataExecuted, VotesFollowState, Next
  PROVE  VotesFollowState'
<1>1. PICK k \in Node : Step(k)
  BY DEF Next
<1> SUFFICES ASSUME NEW v \in sentVotes'
             PROVE  LET e == etalon[Host[v.computor]][v.tick]
                    IN  (e # None /\ v.body.prev = e.prev /\ v.body.data = e.data)'
  BY DEF VotesFollowState
<1>2. CASE v \in sentVotes
  <2>1. v.computor \in Honest /\ v.tick \in Tick
    BY <1>2 DEF TypeOK
  <2>2. Host[v.computor] \in Node
    BY <2>1, ComputorAssumption
  <2>3. QED
    BY <1>2, <2>1, <2>2, Stable DEF VotesFollowState
<1>3. CASE v \notin sentVotes
  <2>1. VoteAndCount(k)
    BY <1>1, <1>3, Frames
  <2> DEFINE e == etalon[k][tick[k]]
  <2>2. PICK next \in Digest :
          v \in VotesOf(k, [prev |-> e.prev, data |-> e.data, next |-> next])
    BY <1>3, <2>1, VoteCases
  <2>3. /\ Host[v.computor] = k /\ v.tick = tick[k]
        /\ v.body = [prev |-> e.prev, data |-> e.data, next |-> next]
    BY <2>2 DEF VotesOf, Own
  <2>4. e \in Etalon /\ UNCHANGED etalon
    BY <2>1, VoteCases
  <2>5. QED
    BY <2>3, <2>4, ValueAssumption
<1>4. QED
  BY <1>2, <1>3

\* Every step keeps StoredVotesSent.
LEMMA StoredStep ==
  ASSUME TypeOK, EtalonOK, VotedDataExecuted, StoredVotesSent, Next
  PROVE  StoredVotesSent'
<1>1. PICK k \in Node : Step(k)
  BY DEF Next
<1>2. sentVotes \subseteq sentVotes'
  BY Stable
<1>3. CASE UNCHANGED ticks
  BY <1>2, <1>3 DEF StoredVotesSent
<1>4. ASSUME NEW c \in Computor, NEW t \in Tick, NEW body \in Receivable(c, t),
             ReceiveVote(k, c, t, body)
      PROVE  StoredVotesSent'
  <2>1. ticks' = [ticks EXCEPT ![k][t][c] = body]
    BY <1>4 DEF ReceiveVote
  <2>2. c \in Honest => [computor |-> c, tick |-> t, body |-> body] \in sentVotes
    <3>1. PICK v \in sentVotes \cup ByzantineVotes :
            v.computor = c /\ v.tick = t /\ v.body = body
      BY DEF Receivable
    <3>2. c \in Honest => v \in sentVotes
      BY <3>1, BoundAssumption
    <3>3. v \in sentVotes => v = [computor |-> c, tick |-> t, body |-> body]
      BY <3>1 DEF TypeOK
    <3>4. QED
      BY <3>2, <3>3
  <2>3. QED
    BY <1>2, <2>1, <2>2 DEF StoredVotesSent, TypeOK
<1>5. CASE LeaveTick(k)
  <2>1. tick[k] \in Tick
    BY DEF TypeOK
  <2>2. QED
    BY <1>2, <1>5, <2>1 DEF LeaveTick, StoredVotesSent, TypeOK
<1>6. CASE VoteAndCount(k)
  BY <1>3, <1>5, <1>6, VoteCases
<1>7. QED
  BY <1>1, <1>3, <1>4, <1>6, Frames

\* A step moves at most one node, by one tick, and then by VoteAndCount.
LEMMA TickMoves ==
  ASSUME TypeOK, EtalonOK, VotedDataExecuted, NEW k \in Node, Step(k), NEW n \in Node
  PROVE  \/ tick'[n] = tick[n]
         \/ n = k /\ VoteAndCount(k) /\ LeaveTick(k) /\ tick'[n] = tick[n] + 1
<1>1. CASE UNCHANGED tick
  BY <1>1
<1>2. CASE VoteAndCount(k)
  <2>1. tick' = tick \/ LeaveTick(k)
    BY <1>2, VoteCases
  <2>2. LeaveTick(k) => tick' = [tick EXCEPT ![k] = @ + 1]
    BY DEF LeaveTick
  <2>3. tick \in [Node -> Tick]
    BY DEF TypeOK
  <2>4. QED
    BY <1>2, <2>1, <2>2, <2>3
<1>3. QED
  BY <1>1, <1>2, Frames

\* The votes that match the etalon of a node are backed by computors that sent
\* them.
LEMMA MatchingBacked ==
  ASSUME TypeOK, StoredVotesSent, NEW n \in Node, NEW t \in Tick, NEW e
  PROVE  Matching(n, t, e) \subseteq Backers(sentVotes, e, t)
<1> SUFFICES ASSUME NEW c \in Matching(n, t, e), c \in Honest
             PROVE  c \in Backers(sentVotes, e, t)
  BY DEF Matching, Backers
<1> DEFINE v == [computor |-> c, tick |-> t, body |-> ticks[n][t][c]]
<1>1. v \in sentVotes /\ v.body.prev = e.prev /\ v.body.data = e.data
  BY DEF Matching, StoredVotesSent
<1>2. QED
  BY <1>1 DEF Backers

\* Every step keeps FinalBacked: a node leaves a tick with a quorum of matching
\* votes, and the votes and etalons of final ticks stay.
LEMMA FinalStep ==
  ASSUME TypeOK, EtalonOK, VotedDataExecuted, StoredVotesSent, FinalBacked, Next
  PROVE  FinalBacked'
<1>1. PICK k \in Node : Step(k)
  BY DEF Next
<1> SUFFICES ASSUME NEW n \in Node, NEW t \in Tick, t < tick'[n]
             PROVE  Cardinality(Backers(sentVotes', etalon'[n][t], t)) >= QuorumSize
  BY DEF FinalBacked, Final
<1> DEFINE e == etalon[n][t]
<1>2. t < tick[n] \/ (t = tick[n] /\ n = k /\ VoteAndCount(k) /\ LeaveTick(k))
  <2>1. tick[n] \in Nat /\ t \in Nat
    BY TickFacts DEF TypeOK
  <2>2. QED
    BY <1>1, <2>1, TickMoves
<1>3. etalon'[n][t] = e
  <2>1. tick[n] \in Nat /\ t \in Nat /\ latestProcessedTick[n] \in {tick[n] - 1, tick[n]}
    BY TickFacts DEF TypeOK, EtalonOK
  <2>2. t <= latestProcessedTick[n]
    <3>1. CASE t < tick[n]
      BY <2>1, <3>1
    <3>2. CASE VoteAndCount(n) /\ t = tick[n]
      BY <2>1, <3>2 DEF VoteAndCount
    <3>3. QED
      BY <1>2, <3>1, <3>2
  <2>3. QED
    BY <2>2, Stable DEF EtalonOK
<1>4. Backers(sentVotes, e, t) \subseteq Backers(sentVotes', e, t)
  BY Stable DEF Backers
<1>5. /\ IsFiniteSet(Backers(sentVotes', e, t))
      /\ Cardinality(Backers(sentVotes, e, t)) \in Nat /\ Cardinality(Backers(sentVotes', e, t)) \in Nat
      /\ Cardinality(Backers(sentVotes, e, t)) <= Cardinality(Backers(sentVotes', e, t))
  <2>1. Backers(sentVotes', e, t) \subseteq Computor
    BY ComputorAssumption DEF Backers
  <2>2. IsFiniteSet(Backers(sentVotes', e, t))
    BY <2>1, ComputorFinite, FS_Subset
  <2>3. QED
    BY <1>4, <2>2, FS_Subset, FS_CardinalityType
<1>6. Cardinality(Backers(sentVotes, e, t)) >= QuorumSize
  <2>1. CASE t < tick[n]
    BY <2>1 DEF FinalBacked, Final
  <2>2. CASE t = tick[n] /\ n = k /\ VoteAndCount(k) /\ LeaveTick(k)
    <3>1. tick' # tick
      <4>1. tick \in [Node -> Tick] /\ tick[k] \in Nat
        BY TickFacts DEF TypeOK
      <4>2. QED
        BY <2>2, <4>1 DEF LeaveTick
    <3>2. Cardinality(Matching(n, t, e)) >= QuorumSize
      BY <2>2, <3>1, VoteCases
    <3>3. Matching(n, t, e) \subseteq Backers(sentVotes, e, t)
      BY MatchingBacked
    <3>4. IsFiniteSet(Backers(sentVotes, e, t))
      <4>1. Backers(sentVotes, e, t) \subseteq Computor
        BY ComputorAssumption DEF Backers
      <4>2. QED
        BY <4>1, ComputorFinite, FS_Subset
    <3>5. /\ Cardinality(Matching(n, t, e)) <= Cardinality(Backers(sentVotes, e, t))
          /\ Cardinality(Matching(n, t, e)) \in Nat
      BY <3>3, <3>4, FS_Subset, FS_CardinalityType
    <3>6. QED
      BY <3>2, <3>5, <1>5, ComputorAssumption
  <2>3. QED
    BY <1>2, <2>1, <2>2
<1>7. Cardinality(Backers(sentVotes', e, t)) >= QuorumSize
  BY <1>5, <1>6, ComputorAssumption
<1>8. QED
  BY <1>3, <1>7

\* Storing tick data changes only ticks that have not begun, although the check
\* of the tick may be long past: data of a begun tick are settled.
LEMMA StoreLate ==
  ASSUME TypeOK, SettledData, NEW k \in Node, NEW m \in handling[k], StoreTickData(k, m)
  PROVE  \/ tickData' = tickData
         \/ /\ m.tick \in Tick /\ m.data \in Data
            /\ m.tick > tick[k]
            /\ tickData' = [tickData EXCEPT ![k][m.tick] = m.data]
<1>1. m.tick \in Tick /\ m.tick > 1 /\ m.data \in Data
  BY DEF TypeOK, SettledData
<1>2. m.tick \in Nat /\ tick[k] \in Nat
  BY <1>1, TickFacts DEF TypeOK
<1>3. CASE m.tick > tick[k]
  BY <1>1, <1>3 DEF StoreTickData
<1>4. CASE ~(m.tick > tick[k])
  <2>1. m.tick # tick[k] + 1 /\ m.tick <= tick[k]
    BY <1>2, <1>4
  <2>2. tickData[k][m.tick] # None
    BY <1>1, <2>1 DEF SettledData
  <2>3. QED
    BY <2>1, <2>2 DEF StoreTickData
<1>5. QED
  BY <1>3, <1>4

\* No step changes the tick data of a tick that has begun.
LEMMA DataStep ==
  ASSUME TypeOK, EtalonOK, VotedDataExecuted, SettledData, Next, NEW n \in Node, NEW t \in Tick, t <= tick[n]
  PROVE  tickData'[n][t] = tickData[n][t]
<1>1. PICK k \in Node : Step(k)
  BY DEF Next
<1>2. tick[n] \in Nat /\ t \in Nat /\ tick[k] \in Nat
  BY TickFacts DEF TypeOK
<1>3. tickData \in [Node -> [Tick -> Data \cup {None, Invalidated}]]
  BY DEF TypeOK
<1>4. CASE UNCHANGED tickData
  BY <1>4
<1>5. ASSUME NEW m \in handling[k], StoreTickData(k, m)
      PROVE  tickData'[n][t] = tickData[n][t]
  <2>1. CASE tickData' = tickData
    BY <2>1
  <2>2. CASE m.tick > tick[k] /\ tickData' = [tickData EXCEPT ![k][m.tick] = m.data]
    <3>1. n = k => t # m.tick
      BY <1>2, <2>2
    <3>2. QED
      BY <1>3, <2>2, <3>1
  <2>3. QED
    BY <1>5, <2>1, <2>2, StoreLate
<1>6. CASE DiscardTimelock(k) \/ VoteAndCount(k)
  <2>1. \E d : tickData' = [tickData EXCEPT ![k][tick[k] + 1] = d]
    BY <1>6, VoteCases DEF DiscardTimelock
  <2>2. n = k => t # tick[k] + 1
    BY <1>2
  <2>3. QED
    BY <1>3, <2>1, <2>2
<1>7. QED
  BY <1>1, <1>4, <1>5, <1>6, Frames

\* Every step keeps EtalonOK: a node processes a tick once, and before it
\* leaves it.
LEMMA EtalonStep ==
  ASSUME TypeOK, EtalonOK, VotedDataExecuted, Next
  PROVE  EtalonOK'
<1>1. PICK k \in Node : Step(k)
  BY DEF Next
<1>2. CASE ProcessTick(k)
  <2> DEFINE t == tick[k]
             prev == IF t = 1 THEN << >> ELSE Executed(etalon[k][t - 1])
             e == [prev |-> prev, data |-> DataDigest(k, t)]
  <2>1. /\ t \in Tick /\ t > latestProcessedTick[k]
        /\ latestProcessedTick' = [latestProcessedTick EXCEPT ![k] = t]
        /\ etalon' = [etalon EXCEPT ![k][t] = e]
        /\ tick' = tick
    BY <1>2 DEF ProcessTick, TypeOK
  <2>2. latestProcessedTick[k] = t - 1 /\ t \in Nat
    BY <2>1, TickFacts DEF EtalonOK, TypeOK
  <2>3. e # None
    <3>1. prev \in Ledger
      <4>1. CASE t = 1
        BY <4>1
      <4>2. CASE t # 1
        <5>1. t - 1 \in Tick /\ t - 1 <= latestProcessedTick[k]
          BY <2>2, <2>1, <4>2, TickFacts
        <5>2. etalon[k][t - 1] \in Etalon
          BY <5>1 DEF EtalonOK, TypeOK
        <5>3. QED
          BY <4>2, <5>2, ExecutedType
      <4>3. QED
        BY <4>1, <4>2
    <3>2. e \in Etalon
      BY <3>1 DEF Etalon, DataDigest
    <3>3. QED
      BY <3>2, ValueAssumption
  <2>4. QED
    <3>0. SUFFICES ASSUME NEW n \in Node
                   PROVE  /\ latestProcessedTick'[n] \in {tick'[n] - 1, tick'[n]}
                          /\ \A u \in Tick : etalon'[n][u] # None <=> u <= latestProcessedTick'[n]
      BY DEF EtalonOK
    <3>1. CASE n # k
      BY <2>1, <3>1 DEF EtalonOK, TypeOK
    <3>2. CASE n = k
      <4>1. latestProcessedTick'[n] = t /\ tick'[n] = t
        BY <2>1, <3>2 DEF TypeOK
      <4>2. \A u \in Tick : etalon'[n][u] = IF u = t THEN e ELSE etalon[n][u]
        BY <2>1, <3>2 DEF TypeOK
      <4>3. ASSUME NEW u \in Tick
            PROVE  etalon'[n][u] # None <=> u <= t
        <5>1. u = t => etalon'[n][u] # None /\ u <= t
          BY <4>2, <2>3, <2>2
        <5>2. u # t => (u <= t <=> u <= latestProcessedTick[k])
          BY <2>2, TickFacts
        <5>3. etalon[k][u] # None <=> u <= latestProcessedTick[k]
          BY DEF EtalonOK
        <5>4. QED
          BY <5>1, <5>2, <5>3, <4>2, <3>2
      <4>4. QED
        BY <4>1, <4>3
    <3>3. QED
      BY <3>1, <3>2
<1>3. CASE VoteAndCount(k)
  <2>1. /\ UNCHANGED <<latestProcessedTick, etalon>>
        /\ latestProcessedTick[k] = tick[k]
        /\ tick' = tick \/ LeaveTick(k)
    BY <1>3, VoteCases
  <2>2. tick[k] \in Nat /\ \A n \in Node : tick'[n] = tick[n] \/ (n = k /\ tick'[n] = tick[n] + 1)
    <3>1. tick[k] \in Nat
      BY TickFacts DEF TypeOK
    <3>2. tick' = tick \/ tick' = [tick EXCEPT ![k] = @ + 1]
      BY <2>1 DEF LeaveTick
    <3>3. QED
      BY <3>1, <3>2 DEF TypeOK
  <2>3. ASSUME NEW n \in Node
        PROVE  /\ latestProcessedTick'[n] \in {tick'[n] - 1, tick'[n]}
               /\ \A u \in Tick : etalon'[n][u] # None <=> u <= latestProcessedTick'[n]
    <3>1. \A u \in Tick : etalon'[n][u] # None <=> u <= latestProcessedTick'[n]
      BY <2>1 DEF EtalonOK
    <3>2. latestProcessedTick'[n] = latestProcessedTick[n]
      BY <2>1
    <3>3. CASE tick'[n] = tick[n]
      BY <3>1, <3>2, <3>3 DEF EtalonOK
    <3>4. CASE n = k /\ tick'[n] = tick[n] + 1
      BY <3>1, <3>2, <3>4, <2>1, <2>2
    <3>5. QED
      BY <3>3, <3>4, <2>2
  <2>4. QED
    BY <2>3 DEF EtalonOK
<1>4. CASE UNCHANGED <<tick, latestProcessedTick, etalon>>
  BY <1>4 DEF EtalonOK
<1>5. QED
  BY <1>1, <1>2, <1>3, <1>4, Frames

\* Every step keeps VotedDataExecuted: a tick that was processed has begun, and
\* its tick data never change.
LEMMA VotedDataStep ==
  ASSUME TypeOK, EtalonOK, VotedDataExecuted, SettledData, Next
  PROVE  VotedDataExecuted'
<1>1. PICK k \in Node : Step(k)
  BY DEF Next
<1> SUFFICES ASSUME NEW n \in Node, NEW t \in Tick, etalon'[n][t] # None
             PROVE  etalon'[n][t].data = DataDigest(n, t)'
  BY DEF VotedDataExecuted
<1>2. t <= tick[n] => DataDigest(n, t)' = DataDigest(n, t)
  BY DataStep DEF DataDigest
<1>3. CASE etalon[n][t] # None
  <2>1. t <= tick[n]
    <3>1. t <= latestProcessedTick[n] /\ latestProcessedTick[n] \in {tick[n] - 1, tick[n]}
      BY <1>3 DEF EtalonOK
    <3>2. tick[n] \in Nat /\ t \in Nat
      BY TickFacts DEF TypeOK
    <3>3. QED
      BY <3>1, <3>2
  <2>2. QED
    BY <1>2, <1>3, <2>1, Stable DEF VotedDataExecuted
<1>4. CASE etalon[n][t] = None
  <2>1. ProcessTick(k)
    BY <1>1, <1>4, Frames
  <2>2. n = k /\ t = tick[n] /\ etalon'[n][t].data = DataDigest(n, t)
    BY <1>4, <2>1 DEF ProcessTick, TypeOK
  <2>3. t <= tick[n]
    BY <2>2, TickFacts
  <2>4. QED
    BY <1>2, <2>2, <2>3
<1>5. QED
  BY <1>3, <1>4

\* The tick data of a tick are settled, with all their transactions, by the step
\* that begins it.
LEMMA EnterData ==
  ASSUME TypeOK, EtalonOK, VotedDataExecuted, NEW k \in Node, VoteAndCount(k), LeaveTick(k)
  PROVE  tickData'[k][tick[k] + 1] \in transactions[k] \cup {Invalidated}
<1>1. /\ tick[k] + 1 \in Tick
      /\ tickData \in [Node -> [Tick -> Data \cup {None, Invalidated}]]
      /\ target[k] \in Digest \cup {Unknown}
  BY VoteCases DEF TypeOK
<1>2. tick' # tick
  <2>1. tick \in [Node -> Tick] /\ tick[k] \in Nat
    BY TickFacts DEF TypeOK
  <2>2. QED
    BY <2>1 DEF LeaveTick
<1>3. CASE tickData' = [tickData EXCEPT ![k][tick[k] + 1] = Invalidated]
  BY <1>1, <1>3
<1>4. CASE /\ target[k] # Unknown
           /\ \E nd \in NextTickData(k) : tickData' = [tickData EXCEPT ![k][tick[k] + 1] = nd]
  <2>1. NextTickData(k) \subseteq transactions[k] \cup {Invalidated}
    BY <1>4 DEF NextTickData
  <2>2. QED
    BY <1>1, <1>4, <2>1
<1>5. QED
  BY <1>2, <1>3, <1>4, VoteCases

\* Every step keeps SettledData.
LEMMA SettledStep ==
  ASSUME TypeOK, EtalonOK, VotedDataExecuted, SettledData, Next
  PROVE  SettledData'
<1>1. PICK k \in Node : Step(k)
  BY DEF Next
<1> SUFFICES ASSUME NEW n \in Node
             PROVE  /\ \A t \in Tick : 1 < t /\ t <= tick'[n] => tickData'[n][t] # None
                    /\ \A m \in handling'[n] : m.tick > 1
                    /\ tickData'[n][1] = None
  BY DEF SettledData
<1>2. tick[n] \in Nat /\ tick[n] >= 1 /\ tick[n] \in Tick /\ 1 \in Tick
  BY TickFacts DEF TypeOK
<1>3. ASSUME NEW t \in Tick, 1 < t, t <= tick'[n]
      PROVE  tickData'[n][t] # None
  <2>1. CASE t <= tick[n]
    BY <1>3, <2>1, DataStep DEF SettledData
  <2>2. CASE ~(t <= tick[n])
    <3>1. n = k /\ VoteAndCount(k) /\ LeaveTick(k) /\ t = tick[n] + 1
      <4>1. t \in Nat
        BY TickFacts
      <4>2. QED
        BY <1>1, <1>2, <1>3, <2>2, <4>1, TickMoves
    <3>2. transactions[k] \subseteq Data
      BY DEF TypeOK
    <3>3. QED
      BY <3>1, <3>2, EnterData, ValueAssumption
  <2>3. QED
    BY <2>1, <2>2
<1>4. ASSUME NEW m \in handling'[n]
      PROVE  m.tick > 1
  <2>1. CASE m \in handling[n]
    BY <2>1 DEF SettledData
  <2>2. CASE m \notin handling[n]
    <3>1. PICK w \in ReceivableData : CheckTickData(k, w)
      <4>1. handling' # handling
        BY <1>4, <2>2
      <4>2. ASSUME NEW w \in handling[k], StoreTickData(k, w)
            PROVE  FALSE
        BY <1>4, <2>2, <4>2 DEF StoreTickData, TypeOK
      <4>3. QED
        BY <1>1, <4>1, <4>2, Frames
    <3>2. m = w /\ n = k /\ m.tick > tick[n]
      BY <1>4, <2>2, <3>1 DEF CheckTickData, TypeOK
    <3>3. m.tick \in Nat
      BY <3>2, TickFacts, BoundAssumption DEF ReceivableData, TypeOK
    <3>4. QED
      BY <1>2, <3>2, <3>3
  <2>3. QED
    BY <2>1, <2>2
<1>5. tickData'[n][1] = None
  BY <1>2, DataStep DEF SettledData
<1>6. QED
  BY <1>3, <1>4, <1>5

\* Every step keeps TransactionsKnown.
LEMMA TransactionsStep ==
  ASSUME TypeOK, EtalonOK, VotedDataExecuted, SettledData, TransactionsKnown, Next
  PROVE  TransactionsKnown'
<1>1. PICK k \in Node : Step(k)
  BY DEF Next
<1> SUFFICES ASSUME NEW n \in Node, NEW t \in Tick,
                    t <= tick'[n], tickData'[n][t] \in Data
             PROVE  tickData'[n][t] \in transactions'[n]
  BY DEF TransactionsKnown
<1>2. transactions[n] \subseteq transactions'[n]
  <2>1. transactions \in [Node -> SUBSET Data]
    BY DEF TypeOK
  <2>2. ASSUME NEW d \in Data, ReceiveTransactions(k, d)
        PROVE  transactions[n] \subseteq transactions'[n]
    BY <2>1, <2>2 DEF ReceiveTransactions
  <2>3. CASE ProcessTick(k)
    <3>1. \/ transactions' = transactions
          \/ \E d \in Data : transactions' = [transactions EXCEPT ![k] = @ \cup {d}]
      BY <2>3 DEF ProcessTick
    <3>2. QED
      BY <2>1, <3>1
  <2>4. QED
    BY <1>1, <2>2, <2>3, Frames
<1>3. CASE t <= tick[n]
  BY <1>2, <1>3, DataStep DEF TransactionsKnown
<1>4. CASE ~(t <= tick[n])
  <2>1. n = k /\ VoteAndCount(k) /\ LeaveTick(k) /\ t = tick[n] + 1
    <3>1. tick[n] \in Nat /\ t \in Nat
      BY TickFacts DEF TypeOK
    <3>2. QED
      BY <1>1, <1>4, <3>1, TickMoves
  <2>2. tickData'[n][t] \in transactions[n]
    BY <2>1, EnterData, ValueAssumption
  <2>3. QED
    BY <1>2, <2>2
<1>5. QED
  BY <1>3, <1>4

\* IInv is inductive.
LEMMA InvariantStep == IInv /\ [Next]_vars => IInv'
<1> SUFFICES ASSUME IInv, [Next]_vars PROVE IInv'
  OBVIOUS
<1>1. CASE Next
  BY <1>1, TypeStep, EtalonStep, VotedDataStep, VotesStep, StoredStep, FinalStep, SettledStep,
     TransactionsStep DEF IInv
<1>2. CASE UNCHANGED vars
  <2>1. /\ TypeOK' /\ EtalonOK' /\ VotedDataExecuted'
    BY <1>2 DEF IInv, TypeOK, EtalonOK, VotedDataExecuted, DataDigest, vars, nodeVars
  <2>2. /\ VotesFollowState' /\ StoredVotesSent'
    BY <1>2 DEF IInv, VotesFollowState, StoredVotesSent, vars, nodeVars
  <2>3. FinalBacked'
    BY <1>2 DEF IInv, FinalBacked, Final, Backers, vars, nodeVars
  <2>4. /\ SettledData' /\ TransactionsKnown'
    BY <1>2 DEF IInv, SettledData, TransactionsKnown, vars, nodeVars
  <2>5. QED
    BY <2>1, <2>2, <2>3, <2>4 DEF IInv
<1>3. QED
  BY <1>1, <1>2

\* Two nodes that have left a tick executed the same thing in it: a computor
\* that is honest stands behind both etalons, and all its votes for the tick
\* say the same.
LEMMA AgreementFollows == IInv => Agreement
<1> SUFFICES ASSUME IInv, NEW m \in Node, NEW n \in Node, NEW t \in Tick,
                    t < tick[m], t < tick[n]
             PROVE  etalon[m][t] = etalon[n][t]
  BY DEF Agreement, Final
<1>1. /\ Cardinality(Backers(sentVotes, etalon[m][t], t)) >= QuorumSize
      /\ Cardinality(Backers(sentVotes, etalon[n][t], t)) >= QuorumSize
  BY DEF IInv, FinalBacked, Final
<1>2. /\ Backers(sentVotes, etalon[m][t], t) \subseteq Computor
      /\ Backers(sentVotes, etalon[n][t], t) \subseteq Computor
  BY ComputorAssumption DEF Backers
<1>3. PICK c \in Honest : /\ c \in Backers(sentVotes, etalon[m][t], t)
                          /\ c \in Backers(sentVotes, etalon[n][t], t)
  BY <1>1, <1>2, QuorumsMeet
<1>4. ASSUME NEW k \in Node, c \in Backers(sentVotes, etalon[k][t], t)
      PROVE  /\ etalon[k][t].prev = etalon[Host[c]][t].prev
             /\ etalon[k][t].data = etalon[Host[c]][t].data
  BY <1>3, <1>4 DEF Backers, IInv, VotesFollowState
<1>5. ASSUME NEW k \in Node, t < tick[k]
      PROVE  etalon[k][t] \in Etalon
  <2>1. t \in Nat /\ tick[k] \in Nat /\ latestProcessedTick[k] \in {tick[k] - 1, tick[k]}
    BY TickFacts DEF IInv, TypeOK, EtalonOK
  <2>2. t <= latestProcessedTick[k]
    BY <1>5, <2>1
  <2>3. QED
    BY <2>2 DEF IInv, TypeOK, EtalonOK
<1>6. etalon[m][t].prev = etalon[n][t].prev /\ etalon[m][t].data = etalon[n][t].data
  BY <1>3, <1>4
<1>7. QED
  BY <1>5, <1>6 DEF Etalon

-----------------------------------------------------------------------------
(***************************************************************************)
(* The results.                                                            *)
(***************************************************************************)

\* The inductive invariant holds in every behaviour of the protocol.
THEOREM Invariance == Spec => []IInv
BY InitInvariant, InvariantStep, PTL DEF Spec

\* Every variable always has its type: no step indexes the tick storage, the
\* etalons or the tick data outside the ticks of the epoch.
THEOREM TypeCorrect == Spec => []TypeOK
<1>1. IInv => TypeOK
  BY DEF IInv
<1>2. QED
  BY <1>1, Invariance, PTL

\* Consensus: no two honest nodes ever leave a tick with different tick data or
\* different states, for any number of computors of which less than the
\* assumption allows are Byzantine.
THEOREM Consensus == Spec => []Agreement
BY Invariance, AgreementFollows, PTL

\* All votes of an honest computor for a tick claim the state of its node.
THEOREM HonestVotes == Spec => []VotesFollowState
<1>1. IInv => VotesFollowState
  BY DEF IInv
<1>2. QED
  BY <1>1, Invariance, PTL

\* A node never begins a tick of which it lacks a transaction.
THEOREM Completeness == Spec => []TransactionsKnown
<1>1. IInv => TransactionsKnown
  BY DEF IInv
<1>2. QED
  BY <1>1, Invariance, PTL

\* Every tick a node has left is backed by a quorum of votes that were sent.
THEOREM QuorumBehindTick == Spec => []FinalBacked
<1>1. IInv => FinalBacked
  BY DEF IInv
<1>2. QED
  BY <1>1, Invariance, PTL

\* A request processor that checked system.tick long ago never changes the tick
\* data of a tick that has begun since.
THEOREM NoLateData == Spec => ExecutedDataFixed
<1>1. IInv /\ [Next]_vars =>
        [\A n \in Node : \A t \in Tick : t <= tick[n] => tickData'[n][t] = tickData[n][t]]_vars
  <2> SUFFICES ASSUME IInv, Next, NEW n \in Node, NEW t \in Tick, t <= tick[n]
               PROVE  tickData'[n][t] = tickData[n][t]
    OBVIOUS
  <2>1. QED
    BY DataStep DEF IInv
<1>2. QED
  BY <1>1, Invariance, PTL DEF Spec, ExecutedDataFixed

-----------------------------------------------------------------------------
(***************************************************************************)
(* Tick data that commit to a foreign state.                               *)
(***************************************************************************)

\* The tick data of a tick that has begun do not commit to a foreign state.
NoForeign == \A n \in Node : \A t \in Tick : t <= tick[n] => tickData[n][t] \notin BadTimelock

\* A tick begins with tick data that passed the check of the time lock in the
\* same pass, or with none.
LEMMA EnterOwn ==
  ASSUME TypeOK, EtalonOK, VotedDataExecuted, NEW k \in Node, VoteAndCount(k), LeaveTick(k)
  PROVE  tickData'[k][tick[k] + 1] \notin BadTimelock
<1>1. /\ tick[k] + 1 \in Tick
      /\ tickData \in [Node -> [Tick -> Data \cup {None, Invalidated}]]
  BY VoteCases DEF TypeOK
<1>2. tick' # tick
  <2>1. tick \in [Node -> Tick] /\ tick[k] \in Nat
    BY TickFacts DEF TypeOK
  <2>2. QED
    BY <2>1 DEF LeaveTick
<1>3. NextTickData(k) \cap BadTimelock = {}
  BY ValueAssumption DEF NextTickData
<1>4. \/ tickData' = [tickData EXCEPT ![k][tick[k] + 1] = Invalidated]
      \/ \E nd \in NextTickData(k) : tickData' = [tickData EXCEPT ![k][tick[k] + 1] = nd]
  BY <1>2, VoteCases
<1>5. QED
  BY <1>1, <1>3, <1>4, ValueAssumption

\* Every step keeps NoForeign: data that arrive after the check find the tick
\* begun and its data settled.
LEMMA ForeignStep == IInv /\ NoForeign /\ [Next]_vars => NoForeign'
<1> SUFFICES ASSUME IInv, NoForeign, [Next]_vars PROVE NoForeign'
  OBVIOUS
<1>1. CASE Next
  <2>1. PICK k \in Node : Step(k)
    BY <1>1 DEF Next
  <2> SUFFICES ASSUME NEW n \in Node, NEW t \in Tick, t <= tick'[n]
               PROVE  tickData'[n][t] \notin BadTimelock
    BY DEF NoForeign
  <2>2. CASE t <= tick[n]
    BY <1>1, <2>2, DataStep DEF IInv, NoForeign
  <2>3. CASE ~(t <= tick[n])
    <3>1. tick[n] \in Nat /\ t \in Nat
      BY TickFacts DEF IInv, TypeOK
    <3>2. n = k /\ VoteAndCount(k) /\ LeaveTick(k) /\ t = tick[n] + 1
      BY <2>1, <2>3, <3>1, TickMoves DEF IInv
    <3>3. QED
      BY <3>2, EnterOwn DEF IInv
  <2>4. QED
    BY <2>2, <2>3
<1>2. CASE UNCHANGED vars
  BY <1>2 DEF NoForeign, vars, nodeVars
<1>3. QED
  BY <1>1, <1>2

\* Tick data that commit to a foreign state are never executed, whatever data
\* Byzantine leaders sign and whenever they arrive.
THEOREM ForeignNeverExecuted == Spec => []ForeignDataNotExecuted
<1>1. Init => NoForeign
  BY TickFacts, ValueAssumption DEF Init, NoForeign
<1>2. IInv /\ NoForeign => ForeignDataNotExecuted
  <2> SUFFICES ASSUME IInv, NoForeign, NEW n \in Node, NEW t \in Tick, etalon[n][t] # None
               PROVE  etalon[n][t].data \notin BadTimelock
    BY DEF ForeignDataNotExecuted
  <2>1. t <= tick[n]
    <3>1. tick[n] \in Nat /\ t \in Nat
      BY TickFacts DEF IInv, TypeOK
    <3>2. t <= latestProcessedTick[n] /\ latestProcessedTick[n] \in {tick[n] - 1, tick[n]}
      BY DEF IInv, EtalonOK
    <3>3. QED
      BY <3>1, <3>2
  <2>2. QED
    BY <2>1, ValueAssumption DEF IInv, VotedDataExecuted, NoForeign, DataDigest
<1>3. QED
  BY <1>1, <1>2, ForeignStep, Invariance, PTL DEF Spec

\* What a node votes for is what it executed.
THEOREM VotesMatchExecution == Spec => []VotedDataExecuted
<1>1. IInv => VotedDataExecuted
  BY DEF IInv
<1>2. QED
  BY <1>1, Invariance, PTL

-----------------------------------------------------------------------------
(***************************************************************************)
(* The error loops of a node that is not in MAIN mode.                     *)
(***************************************************************************)

\* Node n stores a vote of computor c for the next tick that claims another
\* state than the one n has after its tick.
Disputes(n, c) ==
  LET vote == ticks[n][tick[n] + 1][c]
  IN  vote # None /\ vote.prev # Executed(etalon[n][tick[n]])

\* A node in an error loop stays at its tick, and stores a vote that disputes its
\* state.
HaltedDisputed ==
  \A n \in Node :
    halted[n] => /\ tick[n] + 1 \in Tick
                 /\ latestProcessedTick[n] = tick[n]
                 /\ \E c \in Computor : Disputes(n, c)

\* When no stored vote disputes the node's state, that state is the quorum's as
\* soon as all votes are in, and no other state ever is.
LEMMA HaltDisputed ==
  ASSUME IInv, NEW n \in Node, Halt(n)
  PROVE  \E c \in Computor : Disputes(n, c)
<1> SUFFICES ASSUME \A c \in Computor : ~Disputes(n, c) PROVE FALSE
  OBVIOUS
<1> DEFINE t    == tick[n]
           s    == Executed(etalon[n][t])
           prev == Field(n, t + 1, "prev")
<1>1. t \in Tick /\ t \in Nat /\ t + 1 \in Tick /\ latestProcessedTick[n] = t
  BY TickFacts DEF Halt, IInv, TypeOK
<1>2. etalon[n][t] \in Etalon
  BY <1>1, CurrentFollows DEF IInv
<1>3. s # None
  BY <1>2, ExecutedType, ValueAssumption
<1>4. ASSUME NEW c \in Computor
      PROVE  prev[c] = IF ticks[n][t + 1][c] = None THEN None ELSE s
  BY DEF Field, Disputes
<1>5. QuorumState(n) \subseteq {s}
  BY <1>4 DEF QuorumState
<1>6. QuorumState(n) # {} => Verified(n)
  BY <1>5 DEF Verified
<1>7. QuorumState(n) = {} /\ AllFutureVotes(n)
  BY <1>6 DEF Halt
<1>8. \A c \in Computor : prev[c] = s
  BY <1>4, <1>7 DEF AllFutureVotes
<1>9. Support(prev, s) >= QuorumSize
  <2>1. {c \in Computor : prev[c] = s} = Computor
    BY <1>8
  <2>2. Support(prev, s) = NumberOfComputors
    BY <2>1, ComputorFinite DEF Support
  <2>3. QED
    BY <2>2, ComputorAssumption
<1>10. 0 \in Computor /\ \A c \in Computor : 0 <= c
  BY ComputorAssumption
<1> HIDE DEF s, prev
<1>11. s \in QuorumState(n)
  <2>1. \A d \in Computor : prev[0] = s /\ prev[0] # None /\ Support(prev, prev[0]) = Support(prev, prev[d])
    BY <1>3, <1>8, <1>10
  <2>2. QED
    BY <1>9, <1>10, <2>1 DEF QuorumState, prev
<1>12. QED
  BY <1>7, <1>11

\* Nothing moves a node in an error loop, and the votes it stores for the next
\* tick are never replaced.
LEMMA HaltedStays ==
  ASSUME IInv, NEW k \in Node, Step(k), NEW n \in Node, halted[n],
         latestProcessedTick[n] = tick[n], NEW c \in Computor, tick[n] + 1 \in Tick,
         Disputes(n, c)
  PROVE  /\ tick'[n] = tick[n] /\ latestProcessedTick'[n] = latestProcessedTick[n]
         /\ Disputes(n, c)'
<1> DEFINE t == tick[n]
<1>1. t \in Tick /\ etalon[n][t] \in Etalon
  BY CurrentFollows DEF IInv, TypeOK
<1>2. /\ tick'[n] = t /\ latestProcessedTick'[n] = latestProcessedTick[n]
      /\ etalon'[n] = etalon[n]
      /\ ticks'[n][t + 1][c] = ticks[n][t + 1][c]
  <2>1. CASE ProcessTick(k)
    <3>1. k # n
      BY <2>1 DEF ProcessTick
    <3>2. QED
      BY <2>1, <3>1 DEF ProcessTick, IInv, TypeOK
  <2>2. CASE VoteAndCount(k)
    <3>1. k # n
      BY <2>2 DEF VoteAndCount
    <3>2. UNCHANGED <<latestProcessedTick, etalon>>
      BY <2>2 DEF VoteAndCount
    <3>3. UNCHANGED <<tick, ticks>> \/ LeaveTick(k)
      BY <2>2 DEF VoteAndCount
    <3>4. QED
      BY <3>1, <3>2, <3>3 DEF LeaveTick, IInv, TypeOK
  <2>3. CASE \E d \in Computor, u \in Tick : \E body \in Receivable(d, u) : ReceiveVote(k, d, u, body)
    <3>1. PICK d \in Computor, u \in Tick : \E body \in Receivable(d, u) : ReceiveVote(k, d, u, body)
      BY <2>3
    <3>2. PICK body \in Receivable(d, u) : ReceiveVote(k, d, u, body)
      BY <3>1
    <3>3. /\ ticks[k][u][d] = None /\ ticks' = [ticks EXCEPT ![k][u][d] = body]
          /\ UNCHANGED <<tick, latestProcessedTick, etalon>>
      BY <3>2 DEF ReceiveVote
    <3>4. ~(k = n /\ u = t + 1 /\ d = c)
      BY <3>3 DEF Disputes
    <3>5. ticks \in [Node -> [Tick -> [Computor -> VoteBody \cup {None}]]]
      BY DEF IInv, TypeOK
    <3>6. ticks'[n][t + 1][c] = ticks[n][t + 1][c]
      BY <3>3, <3>4, <3>5
    <3>7. QED
      BY <3>3, <3>6
  <2>4. CASE FindTarget(k) \/ Halt(k) \/ DiscardTimelock(k) \/ ResendVotes(k)
    BY <2>4 DEF FindTarget, Halt, DiscardTimelock, ResendVotes
  <2>5. QED
    BY <2>1, <2>2, <2>3, <2>4 DEF Step, CheckTickData, StoreTickData, ReceiveTransactions
<1>3. QED
  BY <1>2 DEF Disputes

\* Every step keeps HaltedDisputed.
LEMMA HaltedStep == IInv /\ HaltedDisputed /\ [Next]_vars => HaltedDisputed'
<1> SUFFICES ASSUME IInv, HaltedDisputed, [Next]_vars PROVE HaltedDisputed'
  OBVIOUS
<1>1. CASE Next
  <2>1. PICK k \in Node : Step(k)
    BY <1>1 DEF Next
  <2> SUFFICES ASSUME NEW n \in Node, halted'[n]
               PROVE  /\ tick'[n] + 1 \in Tick
                      /\ latestProcessedTick'[n] = tick'[n]
                      /\ \E c \in Computor : Disputes(n, c)'
    BY DEF HaltedDisputed
  <2>2. CASE halted[n]
    <3>1. PICK c \in Computor : Disputes(n, c)
      BY <2>2 DEF HaltedDisputed
    <3>2. tick[n] + 1 \in Tick /\ latestProcessedTick[n] = tick[n]
      BY <2>2 DEF HaltedDisputed
    <3>3. tick'[n] = tick[n] /\ latestProcessedTick'[n] = latestProcessedTick[n] /\ Disputes(n, c)'
      BY <2>1, <2>2, <3>1, <3>2, HaltedStays
    <3>4. QED
      BY <3>2, <3>3
  <2>3. CASE ~halted[n]
    <3>1. Halt(k)
      BY <2>1, <2>3 DEF Step, ReceiveVote, CheckTickData, StoreTickData, ReceiveTransactions,
         ProcessTick, FindTarget, DiscardTimelock, VoteAndCount, ResendVotes
    <3>2. k = n
      BY <2>3, <3>1 DEF Halt, IInv, TypeOK
    <3>3. \E c \in Computor : Disputes(n, c)
      BY <3>1, <3>2, HaltDisputed
    <3>4. UNCHANGED <<tick, latestProcessedTick, etalon, ticks>>
      BY <3>1 DEF Halt
    <3>5. tick[n] + 1 \in Tick /\ latestProcessedTick[n] = tick[n]
      BY <3>1, <3>2, TickFacts DEF Halt, IInv, TypeOK
    <3>6. QED
      BY <3>3, <3>4, <3>5 DEF Disputes
  <2>4. QED
    BY <2>2, <2>3
<1>2. CASE UNCHANGED vars
  BY <1>2 DEF HaltedDisputed, Disputes, vars, nodeVars
<1>3. QED
  BY <1>1, <1>2

\* A node ends in an error loop of the check against the quorum's state only if a
\* Byzantine vote disputes its state, or an honest node has processed the next
\* tick from another state.
THEOREM HaltsMisled == Spec => []HaltsOnlyMisled
<1>1. Init => HaltedDisputed
  BY DEF Init, HaltedDisputed
<1>2. IInv /\ HaltedDisputed => HaltsOnlyMisled
  <2> SUFFICES ASSUME IInv, HaltedDisputed, NEW n \in Node, halted[n]
               PROVE  LET t == tick[n]
                          s == Executed(etalon[n][t])
                      IN  \/ \E c \in Byzantine : ticks[n][t + 1][c] # None /\ ticks[n][t + 1][c].prev # s
                          \/ \E m \in Node : etalon[m][t + 1] # None /\ etalon[m][t + 1].prev # s
    BY DEF HaltsOnlyMisled
  <2> DEFINE t == tick[n]
             s == Executed(etalon[n][t])
  <2>1. PICK c \in Computor : ticks[n][t + 1][c] # None /\ ticks[n][t + 1][c].prev # s
    BY DEF HaltedDisputed, Disputes
  <2>2. t + 1 \in Tick
    BY DEF HaltedDisputed
  <2>3. CASE c \in Byzantine
    BY <2>1, <2>3
  <2>4. CASE c \in Honest
    <3> DEFINE v == [computor |-> c, tick |-> t + 1, body |-> ticks[n][t + 1][c]]
    <3>1. v \in sentVotes
      BY <2>1, <2>2, <2>4 DEF IInv, StoredVotesSent
    <3>2. /\ etalon[Host[c]][t + 1] # None
          /\ ticks[n][t + 1][c].prev = etalon[Host[c]][t + 1].prev
      BY <3>1 DEF IInv, VotesFollowState
    <3>3. Host[c] \in Node
      BY <2>4, ComputorAssumption
    <3>4. QED
      BY <2>1, <3>2, <3>3
  <2>5. QED
    BY <2>3, <2>4
<1>3. QED
  BY <1>1, <1>2, HaltedStep, Invariance, PTL DEF Spec

-----------------------------------------------------------------------------
(***************************************************************************)
(* Votes that are not repeated.                                            *)
(***************************************************************************)

\* No vote is made twice after the first tick of the epoch.
NoRepeat == Resending \cap MainNode = {}

\* A vote that was made is remembered, so it is not made again.
VotesCreated ==
  \A v \in sentVotes : v.tick # InitialTick => v.tick <= latestCreatedTick[Host[v.computor]]

\* A pass sends the votes of a tick it had not voted for, and remembers that.
LEMMA VoteOnce ==
  ASSUME TypeOK, NEW n \in Node, VoteAndCount(n)
  PROVE  \/ UNCHANGED <<sentVotes, latestCreatedTick>>
         \/ \E body :
              /\ sentVotes' = sentVotes \cup VotesOf(n, body)
              /\ \/ tick[n] = InitialTick /\ UNCHANGED latestCreatedTick
                 \/ /\ tick[n] > latestCreatedTick[n]
                    /\ latestCreatedTick' = [latestCreatedTick EXCEPT ![n] = tick[n]]
<1>1. \E body : /\ sentVotes' = IF MayVote(n) THEN sentVotes \cup VotesOf(n, body) ELSE sentVotes
                /\ latestCreatedTick' =
                     IF MayVote(n) /\ tick[n] # InitialTick
                     THEN [latestCreatedTick EXCEPT ![n] = tick[n]]
                     ELSE latestCreatedTick
  BY DEF VoteAndCount
<1>2. QED
  BY <1>1 DEF MayVote

\* Only VoteAndCount, and ResendVotes where it is enabled, touch the votes made.
LEMMA CreatedFrame ==
  ASSUME NEW n \in Node, Step(n), NoRepeat
  PROVE  UNCHANGED <<sentVotes, latestCreatedTick>> \/ VoteAndCount(n)
<1>1. ~ResendVotes(n)
  BY DEF ResendVotes, NoRepeat
<1>2. CASE ProcessTick(n)
  BY <1>2 DEF ProcessTick
<1>3. CASE FindTarget(n) \/ Halt(n) \/ DiscardTimelock(n)
  BY <1>3 DEF FindTarget, Halt, DiscardTimelock
<1>4. QED
  BY <1>1, <1>2, <1>3 DEF Step, ReceiveVote, CheckTickData, StoreTickData, ReceiveTransactions

\* Every step keeps HonestVotesUnique and VotesCreated.
LEMMA UniqueStep ==
  ASSUME NoRepeat, TypeOK, HonestVotesUnique, VotesCreated, Next
  PROVE  HonestVotesUnique' /\ VotesCreated'
<1>1. PICK k \in Node : Step(k)
  BY DEF Next
<1>2. CASE UNCHANGED <<sentVotes, latestCreatedTick>>
  BY <1>2 DEF HonestVotesUnique, VotesCreated
<1>3. ASSUME NEW body, VoteAndCount(k),
             sentVotes' = sentVotes \cup VotesOf(k, body),
             \/ tick[k] = InitialTick /\ UNCHANGED latestCreatedTick
             \/ /\ tick[k] > latestCreatedTick[k]
                /\ latestCreatedTick' = [latestCreatedTick EXCEPT ![k] = tick[k]]
      PROVE  HonestVotesUnique' /\ VotesCreated'
  <2>1. /\ \A v \in sentVotes : v.computor \in Honest /\ v.tick \in Nat
        /\ latestCreatedTick \in [Node -> 0 .. MaxTick] /\ tick[k] \in Nat
        /\ \A c \in Honest : Host[c] \in Node
    BY TickFacts, ComputorAssumption DEF TypeOK
  <2>2. \A v \in VotesOf(k, body) : /\ v = [computor |-> v.computor, tick |-> tick[k], body |-> body]
                                    /\ Host[v.computor] = k /\ v.tick = tick[k]
    BY DEF VotesOf, Own
  <2>3. HonestVotesUnique'
    <3> SUFFICES ASSUME NEW v \in sentVotes', NEW w \in sentVotes',
                        v.computor = w.computor, v.tick = w.tick, v.tick # InitialTick
                 PROVE  v = w
      BY DEF HonestVotesUnique
    <3>1. CASE v \in sentVotes /\ w \in sentVotes
      BY <3>1 DEF HonestVotesUnique
    <3>2. CASE v \in VotesOf(k, body) /\ w \in VotesOf(k, body)
      BY <2>2, <3>2
    <3>3. ASSUME NEW x \in sentVotes, NEW y \in VotesOf(k, body),
                 x.computor = y.computor, x.tick = y.tick, x.tick # InitialTick
          PROVE  FALSE
      <4>1. x.tick = tick[k] /\ Host[x.computor] = k /\ tick[k] # InitialTick
        BY <2>2, <3>3
      <4>2. x.tick <= latestCreatedTick[k]
        BY <3>3, <4>1 DEF VotesCreated
      <4>3. latestCreatedTick[k] \in Nat
        BY <2>1
      <4>4. QED
        BY <1>3, <2>1, <4>1, <4>2, <4>3
    <3>4. QED
      BY <1>3, <3>1, <3>2, <3>3
  <2>4. \A n \in Node : latestCreatedTick[n] \in Nat /\ latestCreatedTick'[n] \in Nat
                        /\ latestCreatedTick[n] <= latestCreatedTick'[n]
    BY <1>3, <2>1
  <2>5. VotesCreated'
    <3> SUFFICES ASSUME NEW v \in sentVotes', v.tick # InitialTick
                 PROVE  v.tick <= latestCreatedTick'[Host[v.computor]]
      BY DEF VotesCreated
    <3>1. CASE v \in sentVotes
      <4>1. v.tick <= latestCreatedTick[Host[v.computor]] /\ v.tick \in Nat /\ Host[v.computor] \in Node
        BY <2>1, <3>1 DEF VotesCreated
      <4>2. QED
        BY <2>4, <4>1
    <3>2. CASE v \in VotesOf(k, body)
      <4>1. v.tick = tick[k] /\ Host[v.computor] = k /\ latestCreatedTick'[k] = tick[k]
        BY <1>3, <2>1, <2>2, <3>2
      <4>2. QED
        BY <2>1, <4>1
    <3>3. QED
      BY <1>3, <3>1, <3>2
  <2>6. QED
    BY <2>3, <2>5
<1>4. QED
  BY <1>1, <1>2, <1>3, CreatedFrame, VoteOnce

\* Without repeated votes no honest computor contradicts itself after the first
\* tick of the epoch, whatever Byzantine computors do.
THEOREM VotesMadeOnce == ASSUME NoRepeat PROVE Spec => []HonestVotesUnique
<1>1. Init => HonestVotesUnique /\ VotesCreated
  BY DEF Init, HonestVotesUnique, VotesCreated
<1>2. IInv /\ HonestVotesUnique /\ VotesCreated /\ [Next]_vars
        => (HonestVotesUnique /\ VotesCreated)'
  <2>1. CASE UNCHANGED vars
    BY <2>1 DEF HonestVotesUnique, VotesCreated, vars, nodeVars
  <2>2. QED
    BY <2>1, UniqueStep DEF IInv
<1>3. QED
  BY <1>1, <1>2, Invariance, PTL DEF Spec

-----------------------------------------------------------------------------
(***************************************************************************)
(* Epochs without faults: no computor is Byzantine, no node forces a tick  *)
(* to be empty and no vote is repeated.  Then the nodes never come apart,  *)
(* not even in what they decide about the next tick.                       *)
(***************************************************************************)

\* The conditions of such an epoch.  Tick data may still be signed by anyone.
AllHonest == NoRepeat /\ Byzantine = {} /\ Forcing = {} /\ InitialTick = 0

\* The computors that expect data d in the tick after t, and those that have
\* not voted for t.
Expecting(votes, t, d) ==
  {c \in Computor : \E v \in votes : v.computor = c /\ v.tick = t /\ v.body.next = d}
Silent(votes, t) == {c \in Computor : \A v \in votes : ~(v.computor = c /\ v.tick = t)}

\* The votes that were sent for t decide d, and the votes still to come cannot
\* decide otherwise.
Settled(votes, t, d) ==
  IF d = Empty
  THEN \/ Cardinality(Expecting(votes, t, Empty)) > NumberOfComputors - QuorumSize
       \/ \A x \in Data : Cardinality(Expecting(votes, t, x) \cup Silent(votes, t)) < QuorumSize
  ELSE Cardinality(Expecting(votes, t, d)) >= QuorumSize

\* No computor has two votes for a tick after the first.
OneVote(votes) ==
  \A v, w \in votes :
    v.computor = w.computor /\ v.tick = w.tick /\ v.tick # InitialTick => v = w

\* What a node has decided about the next tick is settled.
TargetsSettled ==
  \A n \in Node : target[n] # Unknown => Settled(sentVotes, tick[n], target[n])

\* The tick data a node has gone on with were settled in the tick before.
DataSettled ==
  \A n \in Node : \A t \in Tick :
    1 < t /\ t <= tick[n] => Settled(sentVotes, t - 1, DataDigest(n, t))

\* The etalon of a tick follows from the one of the tick before.
EtalonsFollow ==
  \A n \in Node : \A t \in Tick :
    etalon[n][t] # None => etalon[n][t].prev = IF t = 1 THEN << >> ELSE Executed(etalon[n][t - 1])

\* All nodes execute the same in a tick.
EtalonsAgree ==
  \A m, n \in Node : \A t \in Tick :
    etalon[m][t] # None /\ etalon[n][t] # None => etalon[m][t] = etalon[n][t]

\* The inductive invariant of an epoch without faults.
HonestInv ==
  /\ IInv
  /\ HonestVotesUnique
  /\ VotesCreated
  /\ TargetsSettled
  /\ DataSettled
  /\ EtalonsFollow
  /\ EtalonsAgree
  /\ NeverHalts

\* Sets of computors are finite, and the larger ones have the more members.
LEMMA ComputorSets ==
  ASSUME NEW S \in SUBSET Computor
  PROVE  /\ IsFiniteSet(S)
         /\ Cardinality(S) \in Nat
         /\ Cardinality(S) <= NumberOfComputors
         /\ \A T \in SUBSET S : Cardinality(T) \in Nat /\ Cardinality(T) <= Cardinality(S)
<1>1. IsFiniteSet(S) /\ Cardinality(S) <= Cardinality(Computor)
  BY ComputorFinite, FS_Subset
<1>2. Cardinality(S) \in Nat
  BY <1>1, FS_CardinalityType
<1>3. ASSUME NEW T \in SUBSET S
      PROVE  Cardinality(T) \in Nat /\ Cardinality(T) <= Cardinality(S)
  BY <1>1, FS_Subset, FS_CardinalityType
<1>4. QED
  BY <1>1, <1>2, <1>3, ComputorFinite

\* The members of two sets of computors together: at most the sum, and less
\* than the sum where the sets have a common member.
LEMMA TwoSets ==
  ASSUME NEW S \in SUBSET Computor, NEW T \in SUBSET Computor
  PROVE  /\ Cardinality(S \cup T) <= Cardinality(S) + Cardinality(T)
         /\ S \cap T = {} => Cardinality(S) + Cardinality(T) <= NumberOfComputors
<1>1. IsFiniteSet(S) /\ IsFiniteSet(T) /\ S \cup T \in SUBSET Computor /\ S \cap T \in SUBSET Computor
  BY ComputorSets
<1>2. Cardinality(S \cup T) = Cardinality(S) + Cardinality(T) - Cardinality(S \cap T)
  BY <1>1, FS_Union
<1>3. /\ Cardinality(S \cup T) <= NumberOfComputors /\ Cardinality(S \cup T) \in Nat
      /\ Cardinality(S \cap T) \in Nat
  BY <1>1, ComputorSets
<1>4. Cardinality(S) \in Nat /\ Cardinality(T) \in Nat /\ NumberOfComputors \in Nat
  BY ComputorSets, ComputorAssumption
<1>5. S \cap T = {} => Cardinality(S \cap T) = 0
  BY FS_EmptySet
<1>6. QED
  BY <1>2, <1>3, <1>4, <1>5

\* Without Byzantine computors a quorum is more than half of the computors.
LEMMA HonestQuorum ==
  ASSUME AllHonest
  PROVE  /\ NumberOfComputors \in Nat /\ NumberOfComputors > 0
         /\ QuorumSize \in Nat /\ QuorumSize > 0 /\ QuorumSize <= NumberOfComputors
         /\ 2 * QuorumSize > NumberOfComputors
         /\ Honest = Computor
<1>1. Cardinality(Byzantine) = 0
  BY FS_EmptySet DEF AllHonest
<1>2. QED
  BY <1>1, ComputorAssumption, QuorumAssumption DEF AllHonest

\* The votes for a tick settle at most one decision.
LEMMA SettledOnce ==
  ASSUME AllHonest, NEW votes, OneVote(votes), NEW t \in Tick,
         NEW v \in Digest, NEW w \in Digest, Settled(votes, t, v), Settled(votes, t, w)
  PROVE  v = w
<1>1. \A d : Expecting(votes, t, d) \in SUBSET Computor
  BY DEF Expecting
<1>2. ASSUME NEW x, NEW y, x # y
      PROVE  Cardinality(Expecting(votes, t, x)) + Cardinality(Expecting(votes, t, y))
               <= NumberOfComputors
  <2>1. Expecting(votes, t, x) \cap Expecting(votes, t, y) = {}
    <3> SUFFICES ASSUME NEW c \in Computor,
                        NEW p \in votes, p.computor = c, p.tick = t, p.body.next = x,
                        NEW q \in votes, q.computor = c, q.tick = t, q.body.next = y
                 PROVE  FALSE
      BY DEF Expecting
    <3>1. t # InitialTick
      BY TickFacts DEF AllHonest
    <3>2. p = q
      BY <3>1 DEF OneVote
    <3>3. QED
      BY <1>2, <3>2
  <2>2. QED
    BY <1>1, <2>1, TwoSets
<1>3. \A d : Cardinality(Expecting(votes, t, d)) \in Nat
  BY <1>1, ComputorSets
<1>4. ASSUME NEW x \in Data, Settled(votes, t, x), Settled(votes, t, Empty)
      PROVE  FALSE
  <2>1. Cardinality(Expecting(votes, t, x)) >= QuorumSize
    BY <1>4, ValueAssumption DEF Settled
  <2>2. ~(Cardinality(Expecting(votes, t, Empty)) > NumberOfComputors - QuorumSize)
    <3>1. x # Empty
      BY ValueAssumption
    <3>2. Cardinality(Expecting(votes, t, x)) + Cardinality(Expecting(votes, t, Empty))
            <= NumberOfComputors
      BY <1>2, <3>1
    <3>3. QED
      BY <1>3, <2>1, <3>2, HonestQuorum
  <2>3. Cardinality(Expecting(votes, t, x) \cup Silent(votes, t)) < QuorumSize
    BY <1>4, <2>2 DEF Settled
  <2>4. Expecting(votes, t, x) \cup Silent(votes, t) \in SUBSET Computor
    BY DEF Expecting, Silent
  <2>5. /\ Cardinality(Expecting(votes, t, x) \cup Silent(votes, t)) \in Nat
        /\ Cardinality(Expecting(votes, t, x))
             <= Cardinality(Expecting(votes, t, x) \cup Silent(votes, t))
    BY <2>4, ComputorSets
  <2>6. QED
    BY <1>3, <2>1, <2>3, <2>5, HonestQuorum
<1>5. CASE v \in Data /\ w \in Data
  <2>1. /\ Cardinality(Expecting(votes, t, v)) >= QuorumSize
        /\ Cardinality(Expecting(votes, t, w)) >= QuorumSize
    BY <1>5, ValueAssumption DEF Settled
  <2>2. v # w => Cardinality(Expecting(votes, t, v)) + Cardinality(Expecting(votes, t, w))
                   <= NumberOfComputors
    BY <1>2
  <2>3. QED
    BY <1>3, <2>1, <2>2, HonestQuorum
<1>6. QED
  BY <1>4, <1>5

\* A decision stays settled when more votes are sent.
LEMMA SettledStays ==
  ASSUME AllHonest, NEW votes, NEW more, votes \subseteq more, OneVote(more),
         NEW t \in Tick, NEW d, Settled(votes, t, d)
  PROVE  Settled(more, t, d)
<1>1. t # InitialTick
  BY TickFacts DEF AllHonest
<1>2. ASSUME NEW x
      PROVE  /\ Expecting(more, t, x) \in SUBSET Computor
             /\ Expecting(votes, t, x) \in SUBSET Expecting(more, t, x)
             /\ Expecting(votes, t, x) \cup Silent(votes, t) \in SUBSET Computor
             /\ Expecting(more, t, x) \cup Silent(more, t)
                  \in SUBSET (Expecting(votes, t, x) \cup Silent(votes, t))
  <2>1. /\ Expecting(more, t, x) \in SUBSET Computor
        /\ Expecting(votes, t, x) \in SUBSET Expecting(more, t, x)
        /\ Expecting(votes, t, x) \cup Silent(votes, t) \in SUBSET Computor
        /\ Silent(more, t) \subseteq Silent(votes, t)
    BY DEF Expecting, Silent
  <2>2. ASSUME NEW c \in Expecting(more, t, x), c \notin Silent(votes, t)
        PROVE  c \in Expecting(votes, t, x)
    <3>1. c \in Computor
      BY DEF Expecting
    <3>2. PICK p \in more : p.computor = c /\ p.tick = t /\ p.body.next = x
      BY DEF Expecting
    <3>3. PICK q \in votes : q.computor = c /\ q.tick = t
      BY <2>2, <3>1 DEF Silent
    <3>4. p = q
      BY <1>1, <3>2, <3>3 DEF OneVote
    <3>5. QED
      BY <3>1, <3>2, <3>3, <3>4 DEF Expecting
  <2>3. QED
    BY <2>1, <2>2
<1>3. ASSUME NEW x
      PROVE  /\ Cardinality(Expecting(votes, t, x)) \in Nat
             /\ Cardinality(Expecting(more, t, x)) \in Nat
             /\ Cardinality(Expecting(votes, t, x)) <= Cardinality(Expecting(more, t, x))
             /\ Cardinality(Expecting(more, t, x) \cup Silent(more, t)) \in Nat
             /\ Cardinality(Expecting(votes, t, x) \cup Silent(votes, t)) \in Nat
             /\ Cardinality(Expecting(more, t, x) \cup Silent(more, t))
                  <= Cardinality(Expecting(votes, t, x) \cup Silent(votes, t))
  BY <1>2, ComputorSets
<1>4. NumberOfComputors \in Nat /\ QuorumSize \in Nat
  BY HonestQuorum
<1>5. CASE d = Empty
  <2>1. CASE Cardinality(Expecting(votes, t, Empty)) > NumberOfComputors - QuorumSize
    <3>1. /\ Cardinality(Expecting(votes, t, Empty)) \in Nat
          /\ Cardinality(Expecting(more, t, Empty)) \in Nat
          /\ Cardinality(Expecting(votes, t, Empty)) <= Cardinality(Expecting(more, t, Empty))
      BY <1>3
    <3>2. Cardinality(Expecting(more, t, Empty)) > NumberOfComputors - QuorumSize
      BY <1>4, <2>1, <3>1
    <3>3. QED
      BY <1>5, <3>2 DEF Settled
  <2>2. CASE \A x \in Data : Cardinality(Expecting(votes, t, x) \cup Silent(votes, t)) < QuorumSize
    <3>1. ASSUME NEW x \in Data
          PROVE  Cardinality(Expecting(more, t, x) \cup Silent(more, t)) < QuorumSize
      <4>1. /\ Cardinality(Expecting(more, t, x) \cup Silent(more, t)) \in Nat
            /\ Cardinality(Expecting(votes, t, x) \cup Silent(votes, t)) \in Nat
            /\ Cardinality(Expecting(more, t, x) \cup Silent(more, t))
                 <= Cardinality(Expecting(votes, t, x) \cup Silent(votes, t))
        BY <1>3
      <4>2. Cardinality(Expecting(votes, t, x) \cup Silent(votes, t)) < QuorumSize
        BY <2>2
      <4>3. QED
        BY <1>4, <4>1, <4>2
    <3>2. QED
      BY <1>5, <3>1 DEF Settled
  <2>3. QED
    BY <1>5, <2>1, <2>2 DEF Settled
<1>6. CASE d # Empty
  <2>1. Cardinality(Expecting(votes, t, d)) >= QuorumSize
    BY <1>6 DEF Settled
  <2>2. /\ Cardinality(Expecting(votes, t, d)) \in Nat
        /\ Cardinality(Expecting(more, t, d)) \in Nat
        /\ Cardinality(Expecting(votes, t, d)) <= Cardinality(Expecting(more, t, d))
    BY <1>3
  <2>3. Cardinality(Expecting(more, t, d)) >= QuorumSize
    BY <1>4, <2>1, <2>2
  <2>4. QED
    BY <1>5, <2>3 DEF Settled
<1>7. QED
  BY <1>5, <1>6

\* How the rule of both findNextTickDataDigestFrom...Votes() can decide d.
LEMMA DecidedCases ==
  ASSUME NEW digest, Decided(digest) # Unknown
  PROVE  /\ Decided(digest) \in Digest
         /\ \/ Support(digest, Decided(digest)) >= QuorumSize
            \/ /\ Decided(digest) = Empty
               /\ \/ Support(digest, Empty) > NumberOfComputors - QuorumSize
                  \/ \A v \in Digest : Support(digest, v) + Missing(digest) < QuorumSize
<1>1. CASE \E v \in Digest : Support(digest, v) >= QuorumSize
  BY <1>1 DEF Decided
<1>2. CASE ~(\E v \in Digest : Support(digest, v) >= QuorumSize)
  BY <1>2 DEF Decided
<1>3. QED
  BY <1>1, <1>2

\* The votes a node stores are votes that were sent.
LEMMA StoredHonest ==
  ASSUME AllHonest, TypeOK, StoredVotesSent, NEW n \in Node, NEW t \in Tick, NEW c \in Computor,
         ticks[n][t][c] # None
  PROVE  /\ ticks[n][t][c] \in VoteBody
         /\ [computor |-> c, tick |-> t, body |-> ticks[n][t][c]] \in sentVotes
<1>1. c \in Honest
  BY HonestQuorum
<1>2. QED
  BY <1>1 DEF StoredVotesSent, TypeOK

\* A decision from the votes of the current tick is settled: no vote that is
\* missing can change it.
LEMMA DecidedNow ==
  ASSUME AllHonest, TypeOK, StoredVotesSent, HonestVotesUnique, NEW n \in Node, NEW t \in Tick,
         Decided(Field(n, t, "next")) # Unknown
  PROVE  Settled(sentVotes, t, Decided(Field(n, t, "next")))
<1> DEFINE digest == Field(n, t, "next")
           d == Decided(digest)
<1>1. t # InitialTick
  BY TickFacts DEF AllHonest
<1>2. \A c \in Computor : digest[c] = IF ticks[n][t][c] = None THEN None ELSE ticks[n][t][c].next
  BY DEF Field
<1>3. ASSUME NEW x \in Digest
      PROVE  /\ {c \in Computor : digest[c] = x} \in SUBSET Expecting(sentVotes, t, x)
             /\ Expecting(sentVotes, t, x) \cup Silent(sentVotes, t)
                  \in SUBSET ({c \in Computor : digest[c] = x} \cup {c \in Computor : digest[c] = None})
  <2>1. ASSUME NEW c \in Computor, digest[c] = x
        PROVE  c \in Expecting(sentVotes, t, x)
    <3>1. ticks[n][t][c] # None /\ ticks[n][t][c].next = x
      BY <1>2, <2>1, ValueAssumption
    <3>2. [computor |-> c, tick |-> t, body |-> ticks[n][t][c]] \in sentVotes
      BY <3>1, StoredHonest
    <3>3. QED
      BY <3>1, <3>2 DEF Expecting
  <2>2. ASSUME NEW c \in Computor, ticks[n][t][c] # None
        PROVE  /\ c \notin Silent(sentVotes, t)
               /\ c \in Expecting(sentVotes, t, x) => digest[c] = x
    <3> DEFINE v == [computor |-> c, tick |-> t, body |-> ticks[n][t][c]]
    <3>1. v \in sentVotes
      BY <2>2, StoredHonest
    <3>2. c \notin Silent(sentVotes, t)
      BY <3>1 DEF Silent
    <3>3. ASSUME NEW w \in sentVotes, w.computor = c, w.tick = t, w.body.next = x
          PROVE  digest[c] = x
      <4>1. w = v
        BY <1>1, <3>1, <3>3 DEF HonestVotesUnique
      <4>2. QED
        BY <1>2, <2>2, <3>3, <4>1
    <3>4. QED
      BY <3>2, <3>3 DEF Expecting
  <2>3. Expecting(sentVotes, t, x) \subseteq Computor /\ Silent(sentVotes, t) \subseteq Computor
    BY DEF Expecting, Silent
  <2>4. QED
    BY <1>2, <2>1, <2>2, <2>3
<1>4. ASSUME NEW x \in Digest
      PROVE  /\ Support(digest, x) \in Nat /\ Missing(digest) \in Nat
             /\ Cardinality(Expecting(sentVotes, t, x)) \in Nat
             /\ Cardinality(Expecting(sentVotes, t, x) \cup Silent(sentVotes, t)) \in Nat
             /\ Support(digest, x) <= Cardinality(Expecting(sentVotes, t, x))
             /\ Cardinality(Expecting(sentVotes, t, x) \cup Silent(sentVotes, t))
                  <= Support(digest, x) + Missing(digest)
  <2> DEFINE A == {c \in Computor : digest[c] = x}
             B == {c \in Computor : digest[c] = None}
  <2>1. Support(digest, x) = Cardinality(A) /\ Missing(digest) = Cardinality(B)
    BY DEF Support, Missing
  <2>2. A \in SUBSET Computor /\ B \in SUBSET Computor /\ A \cup B \in SUBSET Computor
    OBVIOUS
  <2>3. Expecting(sentVotes, t, x) \in SUBSET Computor
    BY DEF Expecting
  <2> HIDE DEF A, B
  <2>4. Cardinality(A) \in Nat /\ Cardinality(B) \in Nat /\ Cardinality(A \cup B) \in Nat
    BY <2>2, ComputorSets
  <2>5. /\ Cardinality(Expecting(sentVotes, t, x)) \in Nat
        /\ Cardinality(A) <= Cardinality(Expecting(sentVotes, t, x))
    BY <1>3, <2>3, ComputorSets DEF A
  <2>6. /\ Cardinality(Expecting(sentVotes, t, x) \cup Silent(sentVotes, t)) \in Nat
        /\ Cardinality(Expecting(sentVotes, t, x) \cup Silent(sentVotes, t)) <= Cardinality(A \cup B)
    <3>1. Expecting(sentVotes, t, x) \cup Silent(sentVotes, t) \in SUBSET (A \cup B)
      BY <1>3 DEF A, B
    <3>2. QED
      BY <2>2, <3>1, ComputorSets
  <2>7. Cardinality(A \cup B) <= Cardinality(A) + Cardinality(B)
    BY <2>2, TwoSets
  <2>8. QED
    BY <2>1, <2>4, <2>5, <2>6, <2>7
<1>5. /\ NumberOfComputors \in Nat /\ QuorumSize \in Nat
      /\ 2 * QuorumSize > NumberOfComputors
  BY HonestQuorum
<1>6. ASSUME NEW x \in Digest, Support(digest, x) >= QuorumSize
      PROVE  Settled(sentVotes, t, x)
  <2>1. /\ Cardinality(Expecting(sentVotes, t, x)) \in Nat /\ Support(digest, x) \in Nat
        /\ Support(digest, x) <= Cardinality(Expecting(sentVotes, t, x))
    BY <1>4
  <2> HIDE DEF digest
  <2>2. /\ Cardinality(Expecting(sentVotes, t, x)) >= QuorumSize
        /\ Cardinality(Expecting(sentVotes, t, x)) > NumberOfComputors - QuorumSize
    BY <1>6, <1>5, <2>1
  <2>3. QED
    BY <2>2 DEF Settled
<1>7. ASSUME \/ Support(digest, Empty) > NumberOfComputors - QuorumSize
             \/ \A v \in Digest : Support(digest, v) + Missing(digest) < QuorumSize
      PROVE  Settled(sentVotes, t, Empty)
  <2>1. CASE Support(digest, Empty) > NumberOfComputors - QuorumSize
    <3>1. /\ Cardinality(Expecting(sentVotes, t, Empty)) \in Nat /\ Support(digest, Empty) \in Nat
          /\ Support(digest, Empty) <= Cardinality(Expecting(sentVotes, t, Empty))
      BY <1>4
    <3> HIDE DEF digest
    <3>2. Cardinality(Expecting(sentVotes, t, Empty)) > NumberOfComputors - QuorumSize
      BY <1>5, <2>1, <3>1
    <3>3. QED
      BY <3>2 DEF Settled
  <2>2. CASE \A v \in Digest : Support(digest, v) + Missing(digest) < QuorumSize
    <3>1. ASSUME NEW x \in Data
          PROVE  Cardinality(Expecting(sentVotes, t, x) \cup Silent(sentVotes, t)) < QuorumSize
      <4>1. Support(digest, x) + Missing(digest) < QuorumSize
        BY <2>2
      <4>2. /\ Support(digest, x) \in Nat /\ Missing(digest) \in Nat
            /\ Cardinality(Expecting(sentVotes, t, x) \cup Silent(sentVotes, t)) \in Nat
            /\ Cardinality(Expecting(sentVotes, t, x) \cup Silent(sentVotes, t))
                 <= Support(digest, x) + Missing(digest)
        BY <1>4
      <4> HIDE DEF digest
      <4>3. QED
        BY <1>5, <4>1, <4>2
    <3>2. QED
      BY <3>1 DEF Settled
  <2>3. QED
    BY <1>7, <2>1, <2>2
<1>8. QED
  BY <1>6, <1>7, DecidedCases

\* A vote a node stores for tick t + 1 was made by a node that had settled tick
\* data, and it claims the state every node reaches after tick t.
LEMMA LaterVotes ==
  ASSUME AllHonest, IInv, DataSettled, NEW n \in Node, NEW t \in Tick, t + 1 \in Tick,
         NEW c \in Computor, ticks[n][t + 1][c] # None
  PROVE  /\ ticks[n][t + 1][c].data \in Digest
         /\ Settled(sentVotes, t, ticks[n][t + 1][c].data)
         /\ Host[c] \in Node
         /\ etalon[Host[c]][t + 1] # None
         /\ ticks[n][t + 1][c].prev = etalon[Host[c]][t + 1].prev
<1> DEFINE body == ticks[n][t + 1][c]
           v    == [computor |-> c, tick |-> t + 1, body |-> body]
           h    == Host[c]
<1>1. body \in VoteBody /\ v \in sentVotes
  BY StoredHonest DEF IInv
<1>2. h \in Node
  BY HonestQuorum, ComputorAssumption
<1>3. /\ etalon[h][t + 1] # None
      /\ body.prev = etalon[h][t + 1].prev
      /\ body.data = etalon[h][t + 1].data
  BY <1>1 DEF IInv, VotesFollowState
<1>4. t + 1 <= tick[h] /\ 1 < t + 1 /\ (t + 1) - 1 = t
  <2>1. t \in Nat /\ t >= 1 /\ tick[h] \in Nat
    BY <1>2, TickFacts DEF IInv, TypeOK
  <2>2. t + 1 <= latestProcessedTick[h] /\ latestProcessedTick[h] \in {tick[h] - 1, tick[h]}
    BY <1>2, <1>3 DEF IInv, EtalonOK
  <2>3. QED
    BY <2>1, <2>2
<1>5. body.data = DataDigest(h, t + 1)
  BY <1>2, <1>3 DEF IInv, VotedDataExecuted
<1>6. Settled(sentVotes, (t + 1) - 1, DataDigest(h, t + 1))
  BY <1>2, <1>4 DEF DataSettled
<1>7. QED
  BY <1>1, <1>2, <1>3, <1>4, <1>5, <1>6 DEF VoteBody

\* A decision from the votes of the next tick is settled: whoever voted for that
\* tick had settled what is in it.
LEMMA DecidedLater ==
  ASSUME AllHonest, IInv, HonestVotesUnique, DataSettled, NEW n \in Node, NEW t \in Tick,
         t + 1 \in Tick, NEW c \in Computor, ticks[n][t + 1][c] # None,
         Decided(Field(n, t + 1, "data")) # Unknown
  PROVE  Settled(sentVotes, t, Decided(Field(n, t + 1, "data")))
<1> DEFINE digest == Field(n, t + 1, "data")
           w      == ticks[n][t + 1][c].data
<1>1. w \in Digest /\ Settled(sentVotes, t, w)
  BY LaterVotes
<1>2. OneVote(sentVotes)
  BY DEF HonestVotesUnique, OneVote
<1>3. ASSUME NEW b \in Computor
      PROVE  digest[b] \in {None, w}
  <2>1. CASE ticks[n][t + 1][b] = None
    BY <2>1 DEF Field
  <2>2. CASE ticks[n][t + 1][b] # None
    <3>1. /\ ticks[n][t + 1][b].data \in Digest
          /\ Settled(sentVotes, t, ticks[n][t + 1][b].data)
      BY <2>2, LaterVotes
    <3>2. ticks[n][t + 1][b].data = w
      BY <1>1, <1>2, <3>1, SettledOnce
    <3>3. QED
      BY <2>2, <3>2 DEF Field
  <2>3. QED
    BY <2>1, <2>2
<1> HIDE DEF digest, w
<1>4. w # None
  BY <1>1, ValueAssumption
<1>5. ASSUME NEW v \in Digest, v # w
      PROVE  Support(digest, v) = 0
  <2>1. v # None
    BY ValueAssumption
  <2>2. {b \in Computor : digest[b] = v} = {}
    BY <1>3, <1>5, <2>1
  <2>3. QED
    BY <2>2, FS_EmptySet DEF Support
<1>6. Support(digest, w) + Missing(digest) >= NumberOfComputors
  <2> DEFINE A == {b \in Computor : digest[b] = w}
             B == {b \in Computor : digest[b] = None}
  <2>1. Support(digest, w) = Cardinality(A) /\ Missing(digest) = Cardinality(B)
    BY DEF Support, Missing
  <2>2. A \in SUBSET Computor /\ B \in SUBSET Computor /\ A \cup B = Computor
    BY <1>3
  <2> HIDE DEF A, B
  <2>3. Cardinality(A \cup B) <= Cardinality(A) + Cardinality(B)
    BY <2>2, TwoSets
  <2>4. Cardinality(A \cup B) = NumberOfComputors
    BY <2>2, ComputorFinite
  <2>5. Cardinality(A) \in Nat /\ Cardinality(B) \in Nat /\ NumberOfComputors \in Nat
    BY <2>2, ComputorSets, HonestQuorum
  <2>6. QED
    BY <2>1, <2>3, <2>4, <2>5
<1>7. \A v : Support(digest, v) \in Nat
  <2>1. \A v : {b \in Computor : digest[b] = v} \in SUBSET Computor
    OBVIOUS
  <2>2. QED
    BY <2>1, ComputorSets DEF Support
<1>8. /\ NumberOfComputors \in Nat /\ QuorumSize \in Nat /\ QuorumSize > 0
      /\ QuorumSize <= NumberOfComputors
  BY HonestQuorum
<1>9. Decided(digest) = w
  <2> DEFINE d == Decided(digest)
  <2>1. d \in Digest /\ Decided(digest) # Unknown
    BY DecidedCases DEF digest
  <2>2. CASE Support(digest, d) >= QuorumSize
    BY <1>5, <1>7, <1>8, <2>1, <2>2
  <2>3. CASE d = Empty /\ Support(digest, Empty) > NumberOfComputors - QuorumSize
    BY <1>5, <1>7, <1>8, <2>1, <2>3
  <2>4. CASE \A v \in Digest : Support(digest, v) + Missing(digest) < QuorumSize
    <3>1. Support(digest, w) + Missing(digest) < QuorumSize
      BY <1>1, <2>4
    <3>2. Support(digest, w) \in Nat /\ Missing(digest) \in Nat
      BY <1>7 DEF Missing
    <3>3. QED
      BY <1>6, <1>8, <3>1, <3>2
  <2>5. QED
    BY <2>1, <2>2, <2>3, <2>4, DecidedCases
<1>10. QED
  BY <1>1, <1>9 DEF digest

\* FindTarget only takes settled decisions.
LEMMA TargetFound ==
  ASSUME AllHonest, IInv, HonestVotesUnique, DataSettled, NEW n \in Node, FindTarget(n)
  PROVE  Settled(sentVotes, tick[n], target'[n])
<1> DEFINE t == tick[n]
<1>1. t \in Tick /\ t + 1 \in Tick /\ target \in [Node -> Digest \cup {Unknown}]
  BY TickFacts DEF FindTarget, IInv, TypeOK
<1>2. ASSUME FromNextTickVotes(n) # Unknown
      PROVE  Settled(sentVotes, t, FromNextTickVotes(n))
  <2>1. EnoughFutureVotes(n) /\ FromNextTickVotes(n) = Decided(Field(n, t + 1, "data"))
    BY <1>2 DEF FromNextTickVotes
  <2>2. \E c \in Computor : ticks[n][t + 1][c] # None
    <3> SUFFICES ASSUME \A c \in Computor : ticks[n][t + 1][c] = None
                 PROVE  FALSE
      OBVIOUS
    <3>1. {c \in Computor : ticks[n][t + 1][c] # None} = {}
      OBVIOUS
    <3>2. Cardinality({c \in Computor : ticks[n][t + 1][c] # None}) = 0
      BY <3>1, FS_EmptySet
    <3>3. 0 > NumberOfComputors - QuorumSize
      BY <2>1, <3>2 DEF EnoughFutureVotes
    <3>4. QED
      BY <3>3, HonestQuorum
  <2>3. QED
    BY <1>1, <1>2, <2>1, <2>2, DecidedLater
<1>3. ASSUME FromCurrentTickVotes(n) # Unknown
      PROVE  Settled(sentVotes, t, FromCurrentTickVotes(n))
  <2>1. FromCurrentTickVotes(n) = Decided(Field(n, t, "next"))
    BY <1>3 DEF FromCurrentTickVotes
  <2>2. QED
    BY <1>1, <1>3, <2>1, DecidedNow DEF IInv
<1>4. \/ FromNextTickVotes(n) # Unknown /\ target'[n] = FromNextTickVotes(n)
      \/ FromCurrentTickVotes(n) # Unknown /\ target'[n] = FromCurrentTickVotes(n)
  BY <1>1 DEF FindTarget
<1>5. QED
  BY <1>2, <1>3, <1>4

\* A node goes on with the tick data it has decided.
LEMMA LeaveDecided ==
  ASSUME AllHonest, TypeOK, NEW k \in Node, VoteAndCount(k), tick'[k] # tick[k],
         NEW t \in Tick, t = tick[k] + 1
  PROVE  /\ target[k] \in Digest
         /\ DataDigest(k, t)' = target[k]
<1>1. /\ tickData \in [Node -> [Tick -> Data \cup {None, Invalidated}]]
      /\ target[k] \in Digest \cup {Unknown}
  BY DEF TypeOK
<1>2. PICK nd \in NextTickData(k) :
        target[k] # Unknown /\ tickData' = [tickData EXCEPT ![k][tick[k] + 1] = nd]
  BY DEF VoteAndCount, AllHonest
<1>3. tickData'[k][t] = nd
  BY <1>1, <1>2
<1>4. CASE target[k] = Empty
  <2>1. nd = Invalidated
    BY <1>2, <1>4 DEF NextTickData
  <2>2. QED
    BY <1>3, <1>4, <2>1, ValueAssumption DEF DataDigest
<1>5. CASE target[k] # Empty
  <2>1. nd = target[k] /\ target[k] \in Data
    BY <1>1, <1>2, <1>5 DEF NextTickData
  <2>2. QED
    BY <1>3, <2>1 DEF DataDigest
<1>6. QED
  BY <1>1, <1>2, <1>4, <1>5

\* The check of an AUX node never fails: every vote of the next tick claims the
\* state the node itself has reached.
LEMMA NoHalt ==
  ASSUME AllHonest, IInv, DataSettled, EtalonsFollow, EtalonsAgree, NEW n \in Node
  PROVE  ~Halt(n)
<1> SUFFICES ASSUME Halt(n) PROVE FALSE
  OBVIOUS
<1> DEFINE t    == tick[n]
           s    == Executed(etalon[n][t])
           prev == Field(n, t + 1, "prev")
<1>1. t \in Tick /\ t \in Nat /\ t >= 1 /\ t + 1 \in Tick /\ latestProcessedTick[n] = t
  BY TickFacts DEF Halt, IInv, TypeOK
<1>2. etalon[n][t] \in Etalon
  BY <1>1, CurrentFollows DEF IInv
<1>3. s # None
  BY <1>2, ExecutedType, ValueAssumption
<1>4. ASSUME NEW c \in Computor
      PROVE  prev[c] = IF ticks[n][t + 1][c] = None THEN None ELSE s
  <2>1. CASE ticks[n][t + 1][c] = None
    BY <2>1 DEF Field
  <2>2. CASE ticks[n][t + 1][c] # None
    <3> DEFINE h == Host[c]
    <3>1. h \in Node /\ etalon[h][t + 1] # None /\ prev[c] = etalon[h][t + 1].prev
      BY <1>1, <2>2, LaterVotes DEF Field
    <3>2. t + 1 # 1 /\ (t + 1) - 1 = t
      BY <1>1
    <3>3. etalon[h][t + 1].prev = Executed(etalon[h][t])
      BY <1>1, <3>1, <3>2 DEF EtalonsFollow
    <3>4. etalon[h][t] # None
      <4>1. t + 1 <= latestProcessedTick[h] /\ latestProcessedTick[h] \in Int
        BY <1>1, <3>1 DEF IInv, EtalonOK, TypeOK
      <4>2. t <= latestProcessedTick[h]
        BY <1>1, <4>1
      <4>3. QED
        BY <1>1, <3>1, <4>2 DEF IInv, EtalonOK
    <3>5. etalon[h][t] = etalon[n][t]
      BY <1>1, <1>2, <3>1, <3>4, ValueAssumption DEF EtalonsAgree
    <3>6. QED
      BY <2>2, <3>1, <3>3, <3>5
  <2>3. QED
    BY <2>1, <2>2
<1>5. PICK c \in Computor : ticks[n][t + 1][c] # None /\ ticks[n][t + 1][c].prev # s
  BY HaltDisputed DEF Disputes
<1>6. prev[c] = ticks[n][t + 1][c].prev
  BY <1>5 DEF Field
<1>7. QED
  BY <1>4, <1>5, <1>6

\* Which steps change what a node has decided, and which halt it.
LEMMA TargetFrame ==
  ASSUME NEW k \in Node, Step(k)
  PROVE  /\ UNCHANGED <<tick, target>> \/ VoteAndCount(k) \/ (FindTarget(k) /\ UNCHANGED tick)
         /\ UNCHANGED halted \/ Halt(k)
         /\ VoteAndCount(k) => UNCHANGED <<tick, target>> \/ LeaveTick(k)
<1>1. CASE ProcessTick(k)
  BY <1>1 DEF ProcessTick, VoteAndCount
<1>2. CASE VoteAndCount(k)
  BY <1>2 DEF VoteAndCount
<1>3. CASE FindTarget(k) \/ Halt(k) \/ DiscardTimelock(k) \/ ResendVotes(k)
  BY <1>3 DEF FindTarget, Halt, DiscardTimelock, ResendVotes, VoteAndCount
<1>4. QED
  BY <1>1, <1>2, <1>3 DEF Step, ReceiveVote, CheckTickData, StoreTickData, ReceiveTransactions,
     VoteAndCount

\* Every step keeps TargetsSettled.
LEMMA TargetsStep ==
  ASSUME AllHonest, HonestInv, Next, HonestVotesUnique'
  PROVE  TargetsSettled'
<1>1. PICK k \in Node : Step(k)
  BY DEF Next
<1> SUFFICES ASSUME NEW n \in Node, target'[n] # Unknown
             PROVE  Settled(sentVotes', tick'[n], target'[n])
  BY DEF TargetsSettled
<1>2. /\ sentVotes \subseteq sentVotes' /\ OneVote(sentVotes')
      /\ tick \in [Node -> Tick] /\ target \in [Node -> Digest \cup {Unknown}]
  BY Stable DEF HonestInv, IInv, TypeOK, HonestVotesUnique, OneVote
<1>3. ASSUME tick'[n] = tick[n], Settled(sentVotes, tick[n], target'[n])
      PROVE  Settled(sentVotes', tick'[n], target'[n])
  BY <1>2, <1>3, SettledStays
<1>4. CASE tick'[n] = tick[n] /\ target'[n] = target[n]
  BY <1>3, <1>4 DEF HonestInv, TargetsSettled
<1>5. CASE FindTarget(k) /\ UNCHANGED tick
  <2>1. n # k => target'[n] = target[n]
    BY <1>2, <1>5 DEF FindTarget
  <2>2. Settled(sentVotes, tick[k], target'[k])
    BY <1>5, TargetFound DEF HonestInv
  <2>3. QED
    BY <1>3, <1>4, <1>5, <2>1, <2>2
<1>6. CASE LeaveTick(k)
  <2>1. n = k => target'[n] = Unknown
    BY <1>2, <1>6 DEF LeaveTick
  <2>2. n # k => tick'[n] = tick[n] /\ target'[n] = target[n]
    BY <1>2, <1>6 DEF LeaveTick
  <2>3. QED
    BY <1>4, <2>1, <2>2
<1>7. QED
  BY <1>1, <1>4, <1>5, <1>6, TargetFrame

\* Every step keeps DataSettled: a node goes on with what it has decided.
LEMMA DataSettledStep ==
  ASSUME AllHonest, HonestInv, Next, HonestVotesUnique'
  PROVE  DataSettled'
<1>1. PICK k \in Node : Step(k)
  BY DEF Next
<1> SUFFICES ASSUME NEW n \in Node, NEW t \in Tick, 1 < t, t <= tick'[n]
             PROVE  Settled(sentVotes', t - 1, DataDigest(n, t)')
  BY DEF DataSettled
<1>2. /\ sentVotes \subseteq sentVotes' /\ OneVote(sentVotes')
      /\ tick[n] \in Tick /\ tick[n] \in Nat /\ t \in Nat /\ t - 1 \in Tick
  <2>1. sentVotes \subseteq sentVotes' /\ OneVote(sentVotes')
    BY Stable DEF HonestInv, IInv, HonestVotesUnique, OneVote
  <2>2. tick[n] \in Tick
    BY DEF HonestInv, IInv, TypeOK
  <2>3. t # 1
    BY TickFacts
  <2>4. QED
    BY <2>1, <2>2, <2>3, TickFacts
<1>3. CASE t <= tick[n]
  <2>1. DataDigest(n, t)' = DataDigest(n, t)
    BY <1>3, DataStep DEF DataDigest, HonestInv, IInv
  <2>2. Settled(sentVotes, t - 1, DataDigest(n, t))
    BY <1>3 DEF HonestInv, DataSettled
  <2>3. QED
    BY <1>2, <2>1, <2>2, SettledStays
<1>4. CASE ~(t <= tick[n])
  <2>1. n = k /\ VoteAndCount(k) /\ tick'[k] # tick[k] /\ t = tick[k] + 1
    BY <1>1, <1>2, <1>4, TickMoves DEF HonestInv, IInv
  <2>2. target[k] \in Digest /\ DataDigest(k, t)' = target[k]
    BY <2>1, LeaveDecided DEF HonestInv, IInv
  <2>3. target[k] # Unknown /\ tick[k] = t - 1
    BY <1>2, <2>1, <2>2, ValueAssumption
  <2>4. Settled(sentVotes, t - 1, target[k])
    BY <2>3 DEF HonestInv, TargetsSettled
  <2>5. QED
    BY <1>2, <2>1, <2>2, <2>4, SettledStays
<1>5. QED
  BY <1>3, <1>4

\* What processTick() makes the etalon of a tick.
LEMMA NewEtalon ==
  ASSUME TypeOK, EtalonOK, VotedDataExecuted, NEW k \in Node, Step(k), NEW n \in Node, NEW t \in Tick,
         etalon[n][t] = None, etalon'[n][t] # None
  PROVE  /\ n = k /\ t = tick[k] /\ t \in Nat /\ t >= 1
         /\ etalon'[n][t] = [prev |-> IF t = 1 THEN << >> ELSE Executed(etalon[n][t - 1]),
                             data |-> DataDigest(n, t)]
         /\ t # 1 => t - 1 \in Tick /\ etalon[n][t - 1] # None /\ etalon'[n][t - 1] = etalon[n][t - 1]
<1>1. ProcessTick(k)
  BY Frames
<1>2. /\ n = k /\ t = tick[k] /\ t \in Nat /\ t >= 1
      /\ etalon' = [etalon EXCEPT ![k][t] =
                      [prev |-> IF t = 1 THEN << >> ELSE Executed(etalon[k][t - 1]),
                       data |-> DataDigest(k, t)]]
  BY <1>1, TickFacts DEF ProcessTick, TypeOK
<1>3. ASSUME t # 1
      PROVE  t - 1 \in Tick /\ etalon[n][t - 1] # None /\ etalon'[n][t - 1] = etalon[n][t - 1]
  <2>1. t - 1 \in Tick /\ t - 1 # t
    BY <1>2, <1>3, TickFacts
  <2>2. t - 1 <= latestProcessedTick[n]
    BY <1>2 DEF EtalonOK
  <2>3. QED
    BY <1>2, <2>1, <2>2 DEF EtalonOK, TypeOK
<1>4. QED
  BY <1>2, <1>3 DEF TypeOK

\* Every step keeps EtalonsFollow.
LEMMA FollowStep ==
  ASSUME HonestInv, Next
  PROVE  EtalonsFollow'
<1>1. PICK k \in Node : Step(k)
  BY DEF Next
<1> SUFFICES ASSUME NEW n \in Node, NEW t \in Tick, etalon'[n][t] # None
             PROVE  etalon'[n][t].prev = IF t = 1 THEN << >> ELSE Executed(etalon'[n][t - 1])
  BY DEF EtalonsFollow, Executed
<1>2. CASE etalon[n][t] # None
  <2>1. etalon'[n][t] = etalon[n][t]
    BY <1>2, Stable DEF HonestInv, IInv
  <2>2. t # 1 => etalon'[n][t - 1] = etalon[n][t - 1]
    <3> SUFFICES ASSUME t # 1 PROVE etalon'[n][t - 1] = etalon[n][t - 1]
      OBVIOUS
    <3>1. t - 1 \in Tick /\ t \in Nat /\ latestProcessedTick[n] \in Int
      BY TickFacts DEF HonestInv, IInv, TypeOK
    <3>2. t <= latestProcessedTick[n]
      BY <1>2 DEF HonestInv, IInv, EtalonOK
    <3>3. t - 1 <= latestProcessedTick[n]
      BY <3>1, <3>2
    <3>4. etalon[n][t - 1] # None
      BY <3>1, <3>3 DEF HonestInv, IInv, EtalonOK
    <3>5. QED
      BY <3>1, <3>4, Stable DEF HonestInv, IInv
  <2>3. QED
    BY <1>2, <2>1, <2>2 DEF HonestInv, EtalonsFollow
<1>3. CASE etalon[n][t] = None
  <2>1. /\ etalon'[n][t].prev = IF t = 1 THEN << >> ELSE Executed(etalon[n][t - 1])
        /\ t # 1 => etalon'[n][t - 1] = etalon[n][t - 1]
    <3>1. TypeOK /\ EtalonOK /\ VotedDataExecuted
      BY DEF HonestInv, IInv
    <3>2. /\ etalon'[n][t] = [prev |-> IF t = 1 THEN << >> ELSE Executed(etalon[n][t - 1]),
                              data |-> DataDigest(n, t)]
          /\ t # 1 => etalon'[n][t - 1] = etalon[n][t - 1]
      BY <1>1, <1>3, <3>1, NewEtalon
    <3>3. QED
      BY <3>2
  <2>2. QED
    BY <2>1
<1>4. QED
  BY <1>2, <1>3

\* A node that processes a tick after another one executes the same in it.
LEMMA SameEtalon ==
  ASSUME AllHonest, HonestInv, NEW k \in Node, Step(k), NEW m \in Node, NEW n \in Node, NEW t \in Tick,
         etalon[m][t] # None, etalon[n][t] = None, etalon'[n][t] # None
  PROVE  etalon'[n][t] = etalon[m][t]
<1>1. /\ t = tick[n] /\ t \in Nat /\ t >= 1
      /\ etalon'[n][t] = [prev |-> IF t = 1 THEN << >> ELSE Executed(etalon[n][t - 1]),
                          data |-> DataDigest(n, t)]
      /\ t # 1 => t - 1 \in Tick /\ etalon[n][t - 1] # None
  BY NewEtalon DEF HonestInv, IInv
<1>2. /\ etalon[m][t] \in Etalon /\ t <= tick[m]
      /\ t # 1 => etalon[m][t - 1] # None
  <2>1. etalon[m][t] \in Etalon
    BY DEF HonestInv, IInv, TypeOK
  <2>2. t <= latestProcessedTick[m] /\ latestProcessedTick[m] \in {tick[m] - 1, tick[m]} /\ tick[m] \in Nat
    BY TickFacts DEF HonestInv, IInv, EtalonOK, TypeOK
  <2>3. t <= tick[m] /\ t - 1 <= latestProcessedTick[m]
    BY <1>1, <2>2
  <2>4. QED
    BY <1>1, <2>1, <2>3 DEF HonestInv, IInv, EtalonOK
<1>3. etalon[m][t].prev = etalon'[n][t].prev
  <2>1. etalon[m][t].prev = IF t = 1 THEN << >> ELSE Executed(etalon[m][t - 1])
    BY DEF HonestInv, EtalonsFollow
  <2>2. t # 1 => etalon[m][t - 1] = etalon[n][t - 1]
    BY <1>1, <1>2 DEF HonestInv, EtalonsAgree
  <2>3. QED
    BY <1>1, <2>1, <2>2
<1>4. etalon[m][t].data = DataDigest(m, t)
  BY DEF HonestInv, IInv, VotedDataExecuted
<1>5. DataDigest(m, t) = DataDigest(n, t)
  <2>1. CASE t = 1
    <3>1. tickData[m][1] = None /\ tickData[n][1] = None
      BY DEF HonestInv, IInv, SettledData
    <3>2. QED
      BY <2>1, <3>1, ValueAssumption DEF DataDigest
  <2>2. CASE t # 1
    <3>1. 1 < t /\ t <= tick[n] /\ t <= tick[m] /\ t - 1 \in Tick
      BY <1>1, <1>2, <2>2
    <3>2. Settled(sentVotes, t - 1, DataDigest(m, t)) /\ Settled(sentVotes, t - 1, DataDigest(n, t))
      BY <3>1 DEF HonestInv, DataSettled
    <3>3. DataDigest(m, t) \in Digest /\ DataDigest(n, t) \in Digest /\ OneVote(sentVotes)
      BY DEF DataDigest, HonestInv, HonestVotesUnique, OneVote
    <3>4. QED
      BY <3>1, <3>2, <3>3, SettledOnce
  <2>3. QED
    BY <2>1, <2>2
<1>6. QED
  BY <1>1, <1>2, <1>3, <1>4, <1>5 DEF Etalon

\* Every step keeps EtalonsAgree.
LEMMA AgreeStep ==
  ASSUME AllHonest, HonestInv, Next
  PROVE  EtalonsAgree'
<1>1. PICK k \in Node : Step(k)
  BY DEF Next
<1> SUFFICES ASSUME NEW m \in Node, NEW n \in Node, NEW t \in Tick,
                    etalon'[m][t] # None, etalon'[n][t] # None
             PROVE  etalon'[m][t] = etalon'[n][t]
  BY DEF EtalonsAgree
<1>2. /\ etalon[m][t] # None => etalon'[m][t] = etalon[m][t]
      /\ etalon[n][t] # None => etalon'[n][t] = etalon[n][t]
  BY Stable DEF HonestInv, IInv
<1>3. CASE etalon[m][t] # None /\ etalon[n][t] # None
  BY <1>2, <1>3 DEF HonestInv, EtalonsAgree
<1>4. CASE etalon[m][t] # None /\ etalon[n][t] = None
  BY <1>1, <1>2, <1>4, SameEtalon
<1>5. CASE etalon[m][t] = None /\ etalon[n][t] # None
  BY <1>1, <1>2, <1>5, SameEtalon
<1>6. CASE etalon[m][t] = None /\ etalon[n][t] = None
  <2>1. ProcessTick(k)
    BY <1>1, <1>6, Frames
  <2>2. \E e : etalon' = [etalon EXCEPT ![k][tick[k]] = e]
    BY <2>1 DEF ProcessTick
  <2>3. etalon \in [Node -> [Tick -> Etalon \cup {None}]]
    BY DEF HonestInv, IInv, TypeOK
  <2>4. m = k /\ n = k
    BY <1>6, <2>2, <2>3
  <2>5. QED
    BY <2>4
<1>7. QED
  BY <1>3, <1>4, <1>5, <1>6

\* HonestInv is inductive in an epoch without faults.
LEMMA HonestStep == ASSUME AllHonest PROVE HonestInv /\ [Next]_vars => HonestInv'
<1> SUFFICES ASSUME HonestInv, [Next]_vars PROVE HonestInv'
  OBVIOUS
<1>1. IInv'
  BY InvariantStep DEF HonestInv
<1>2. CASE Next
  <2>1. HonestVotesUnique' /\ VotesCreated'
    BY <1>2, UniqueStep DEF HonestInv, IInv, AllHonest
  <2>2. NeverHalts'
    <3>1. PICK k \in Node : Step(k)
      BY <1>2 DEF Next
    <3>2. UNCHANGED halted
      BY <3>1, NoHalt, TargetFrame DEF HonestInv
    <3>3. QED
      BY <3>2 DEF HonestInv, NeverHalts
  <2>3. QED
    BY <1>1, <1>2, <2>1, <2>2, TargetsStep, DataSettledStep, FollowStep, AgreeStep DEF HonestInv
<1>3. CASE UNCHANGED vars
  <2>1. HonestVotesUnique' /\ VotesCreated' /\ NeverHalts'
    BY <1>3 DEF HonestInv, HonestVotesUnique, VotesCreated, NeverHalts, vars, nodeVars
  <2>2. TargetsSettled'
    BY <1>3 DEF HonestInv, TargetsSettled, vars, nodeVars
  <2>3. DataSettled'
    BY <1>3 DEF HonestInv, DataSettled, DataDigest, vars, nodeVars
  <2>4. EtalonsFollow' /\ EtalonsAgree'
    BY <1>3 DEF HonestInv, EtalonsFollow, EtalonsAgree, vars, nodeVars
  <2>5. QED
    BY <1>1, <2>1, <2>2, <2>3, <2>4 DEF HonestInv
<1>4. QED
  BY <1>2, <1>3

\* In an epoch without faults the nodes execute the same in every tick, and all
\* decisions about next tick data are settled when they are taken.
THEOREM HonestInvariance == ASSUME AllHonest PROVE Spec => []HonestInv
<1>1. Init => HonestInv
  <2> SUFFICES ASSUME Init PROVE HonestInv
    OBVIOUS
  <2>1. HonestVotesUnique /\ VotesCreated /\ NeverHalts /\ TargetsSettled
    BY DEF Init, HonestVotesUnique, VotesCreated, NeverHalts, TargetsSettled
  <2>2. DataSettled
    BY TickFacts DEF Init, DataSettled
  <2>3. EtalonsFollow /\ EtalonsAgree
    BY DEF Init, EtalonsFollow, EtalonsAgree
  <2>4. QED
    BY <2>1, <2>2, <2>3, InitInvariant DEF HonestInv
<1>2. QED
  BY <1>1, HonestStep, PTL DEF Spec

\* In an epoch without faults two nodes at the same tick never decide
\* different next tick data, although each decides from the votes it happens to
\* have, and from those of the current tick or of the next.
THEOREM TargetsAgree == ASSUME AllHonest PROVE Spec => []TargetAgreement
<1>1. HonestInv => TargetAgreement
  <2> SUFFICES ASSUME HonestInv, NEW m \in Node, NEW n \in Node,
                      tick[m] = tick[n], target[m] # Unknown, target[n] # Unknown
               PROVE  target[m] = target[n]
    BY DEF TargetAgreement
  <2>1. /\ target[m] \in Digest /\ target[n] \in Digest /\ tick[n] \in Tick
        /\ OneVote(sentVotes)
    BY DEF HonestInv, IInv, TypeOK, HonestVotesUnique, OneVote
  <2>2. Settled(sentVotes, tick[n], target[m]) /\ Settled(sentVotes, tick[n], target[n])
    BY DEF HonestInv, TargetsSettled
  <2>3. QED
    BY <2>1, <2>2, SettledOnce
<1>2. QED
  BY <1>1, HonestInvariance, PTL

\* In an epoch without faults an AUX node never ends in an error loop: the check
\* of its state against the quorum's never fails.
THEOREM AuxNeverHalts == ASSUME AllHonest PROVE Spec => []NeverHalts
<1>1. HonestInv => NeverHalts
  BY DEF HonestInv
<1>2. QED
  BY <1>1, HonestInvariance, PTL

\* A node in an epoch without faults never replaces a decision by another one.
THEOREM TargetsFixed == ASSUME AllHonest PROVE Spec => TargetFixed
<1>1. HonestInv /\ HonestInv' /\ [Next]_vars =>
        [\A n \in Node : target[n] # Unknown /\ tick'[n] = tick[n] => target'[n] = target[n]]_vars
  <2> SUFFICES ASSUME HonestInv, HonestInv', Next, NEW n \in Node,
                      target[n] # Unknown, tick'[n] = tick[n]
               PROVE  target'[n] = target[n]
    OBVIOUS
  <2>1. PICK k \in Node : Step(k)
    BY DEF Next
  <2>2. /\ target \in [Node -> Digest \cup {Unknown}] /\ tick \in [Node -> Tick]
        /\ target'[n] \in Digest \cup {Unknown} /\ tick[n] \in Tick /\ tick[n] \in Nat
    BY TickFacts DEF HonestInv, IInv, TypeOK
  <2>3. CASE target'[n] = Unknown
    <3>1. ~FindTarget(k)
      <4>1. FindTarget(k) => target'[k] # Unknown
        BY <2>2 DEF FindTarget
      <4>2. FindTarget(k) /\ n # k => target'[n] = target[n]
        BY <2>2 DEF FindTarget
      <4>3. QED
        BY <4>1, <4>2, <2>3
    <3>2. LeaveTick(k) => n # k
      BY <2>2 DEF LeaveTick
    <3>3. LeaveTick(k) /\ n # k => target'[n] = target[n]
      BY <2>2 DEF LeaveTick
    <3>4. QED
      BY <2>1, <2>3, <3>1, <3>2, <3>3, TargetFrame
  <2>4. CASE target'[n] # Unknown
    <3>1. /\ Settled(sentVotes, tick[n], target[n])
          /\ Settled(sentVotes', tick[n], target'[n])
      BY <2>4 DEF HonestInv, TargetsSettled
    <3>2. sentVotes \subseteq sentVotes' /\ OneVote(sentVotes')
      BY Stable DEF HonestInv, IInv, HonestVotesUnique, OneVote
    <3>3. Settled(sentVotes', tick[n], target[n])
      BY <2>2, <3>1, <3>2, SettledStays
    <3>4. QED
      BY <2>2, <2>4, <3>1, <3>2, <3>3, SettledOnce
  <2>5. QED
    BY <2>3, <2>4
<1>2. QED
  BY <1>1, HonestInvariance, PTL DEF Spec, TargetFixed
=============================================================================

---------------------------- MODULE TickConsensus ----------------------------
(***************************************************************************)
(* The quorum protocol by which the nodes of one epoch agree on the        *)
(* contents of every tick: tick leaders publish tick data, every computor  *)
(* votes on the state it has reached and on the tick data it expects next, *)
(* and a node goes to the next tick when a quorum of votes matches its own *)
(* "etalon" tick and the next tick's data are decided.                     *)
(*                                                                         *)
(* A step of a node is one pass over a part of the loop of                 *)
(* tickProcessor(), a message handler of a request processor, or the       *)
(* re-vote timer of the main loop.  Time-outs may fire whenever the code   *)
(* would test them.  Messages are lost by never being received, and        *)
(* arrive late, repeated and in any order because a message that was sent  *)
(* stays receivable.                                                       *)
(***************************************************************************)
EXTENDS Integers, Sequences, FiniteSets

CONSTANTS
  Node,               \* the honest nodes
  MainNode,           \* the nodes in MAIN mode: they vote and lead ticks
  NumberOfComputors,  \* computors are 0 .. NumberOfComputors - 1
  QuorumSize,         \* QUORUM
  Byzantine,          \* computors that may sign anything
  Host,               \* the node that holds a computor's seed
  Data,               \* digests of non-empty tick data
  BadTimelock,        \* tick data that commit to a foreign state
  None,               \* an empty slot of the tick storage
  Empty,              \* the zero digest: an empty tick
  Invalidated,        \* INVALIDATED_TICK_DATA
  Unknown,            \* targetNextTickDataDigestIsKnown is false
  InitialTick,        \* system.initialTick; 0 when the epoch began before tick 1
  MaxTick,            \* last tick the storage of the epoch has room for
  Offset,             \* TICK_TRANSACTIONS_PUBLICATION_OFFSET
  RequestProcessors,  \* number of request processor threads of a node
  Forcing,            \* nodes where F5 or its automatic variant may fire
  Resending,          \* nodes where the re-vote timer or F9 may fire
  ByzantineVotes,     \* votes Byzantine computors sign
  ByzantineData       \* tick data Byzantine leaders sign

Computor == 0 .. NumberOfComputors - 1
Tick     == 1 .. MaxTick
Honest   == Computor \ Byzantine
Digest   == Data \cup {Empty}

(***************************************************************************)
(* The ledger stands for the spectrum, universe and computer digests.      *)
(* Executing an empty tick may leave all three unchanged, so the ledger is *)
(* the sequence of the non-empty tick data executed, and two histories     *)
(* that differ in empty ticks only have the same ledger.                   *)
(***************************************************************************)
Ledger == Seq(Data)

\* What a vote says of the current tick, and the whole vote of a computor.
Etalon   == [prev : Ledger, data : Digest]
VoteBody == [prev : Ledger, data : Digest, next : Digest]

ASSUME ComputorAssumption ==
  /\ NumberOfComputors \in Nat \ {0}
  /\ QuorumSize \in 1 .. NumberOfComputors
  /\ Byzantine \subseteq Computor
  /\ Host \in [Honest -> MainNode]
  /\ MainNode \subseteq Node

\* QUORUM is 2/3 of the computors plus one: any two quorums share an honest
\* computor.
ASSUME QuorumAssumption ==
  2 * QuorumSize - NumberOfComputors > Cardinality(Byzantine)

ASSUME ValueAssumption ==
  /\ BadTimelock \subseteq Data
  /\ Empty \notin Data /\ None \notin Data
  /\ Invalidated \notin Data /\ Unknown \notin Data
  /\ None # Empty /\ None # Invalidated /\ Unknown # Empty
  /\ None \notin VoteBody /\ None \notin Etalon /\ None \notin Ledger

ASSUME BoundAssumption ==
  /\ InitialTick \in {0, 1}
  /\ MaxTick \in Nat \ {0}
  /\ Offset \in Nat \ {0}
  /\ RequestProcessors \in Nat \ {0}
  /\ Forcing \subseteq Node
  /\ Resending \subseteq Node
  /\ ByzantineVotes \subseteq [computor : Byzantine, tick : Tick, body : VoteBody]
  /\ ByzantineData \subseteq [tick : Tick, data : Data]

VARIABLES
  tick,                 \* system.tick
  latestProcessedTick,  \* local variable of tickProcessor()
  latestCreatedTick,    \* system.latestCreatedTick
  etalon,               \* etalonTick of every tick the node has processed
  expectedNext,         \* etalonTick.expectedNextTickTransactionDigest
  target,               \* targetNextTickDataDigest, or Unknown
  ticks,                \* ts.ticks: the votes stored per tick and computor
  tickData,             \* ts.tickData
  transactions,         \* tick data whose transactions are all stored
  handling,             \* tick data a request processor has checked, not stored
  halted,               \* the tick processor spins in an error loop
  sentVotes,            \* BroadcastTick messages of honest computors
  sentData              \* BroadcastFutureTickData messages of honest computors

nodeVars == <<tick, latestProcessedTick, latestCreatedTick, etalon, expectedNext,
              target, ticks, tickData, transactions, handling, halted>>
vars == <<nodeVars, sentVotes, sentData>>

TypeOK ==
  /\ tick \in [Node -> Tick]
  /\ latestProcessedTick \in [Node -> 0 .. MaxTick]
  /\ latestCreatedTick \in [Node -> 0 .. MaxTick]
  /\ etalon \in [Node -> [Tick -> Etalon \cup {None}]]
  /\ expectedNext \in [Node -> Digest]
  /\ target \in [Node -> Digest \cup {Unknown}]
  /\ ticks \in [Node -> [Tick -> [Computor -> VoteBody \cup {None}]]]
  /\ tickData \in [Node -> [Tick -> Data \cup {None, Invalidated}]]
  /\ transactions \in [Node -> SUBSET Data]
  /\ handling \in [Node -> SUBSET [tick : Tick, data : Data]]
  /\ halted \in [Node -> BOOLEAN]
  /\ sentVotes \subseteq [computor : Honest, tick : Tick, body : VoteBody]
  /\ sentData \subseteq [tick : Tick, data : Data]

-----------------------------------------------------------------------------
\* The computor that leads tick t.
Leader(t) == t % NumberOfComputors

\* The computors whose seeds node n holds.
Own(n) == {c \in Honest : Host[c] = n}

\* The digest of the tick data stored for tick t, zero if there are none.
DataDigest(n, t) == IF tickData[n][t] \in Data THEN tickData[n][t] ELSE Empty

\* The state after executing what etalon e says of its tick.
Executed(e) == IF e.data \in Data THEN Append(e.prev, e.data) ELSE e.prev

\* All nodes have just entered tick 1 with the same state.
Init ==
  /\ tick = [n \in Node |-> 1]
  /\ latestProcessedTick = [n \in Node |-> 0]
  /\ latestCreatedTick = [n \in Node |-> 0]
  /\ etalon = [n \in Node |-> [t \in Tick |-> None]]
  /\ expectedNext = [n \in Node |-> Empty]
  /\ target = [n \in Node |-> Unknown]
  /\ ticks = [n \in Node |-> [t \in Tick |-> [c \in Computor |-> None]]]
  /\ tickData = [n \in Node |-> [t \in Tick |-> None]]
  /\ transactions = [n \in Node |-> {}]
  /\ handling = [n \in Node |-> {}]
  /\ halted = [n \in Node |-> FALSE]
  /\ sentVotes = {}
  /\ sentData = {}

-----------------------------------------------------------------------------
(***************************************************************************)
(* Message handlers of the request processors.                             *)
(***************************************************************************)

\* Mutant: the signature of a vote is not checked.
AnySigner(c, t) == {v.body : v \in {w \in sentVotes \cup ByzantineVotes : w.tick = t}}

\* What a node may receive as the vote of computor c for tick t.
Receivable(c, t) ==
  {v.body : v \in {w \in sentVotes \cup ByzantineVotes : w.computor = c /\ w.tick = t}}

\* processBroadcastTick(): the first vote of a computor for a tick is kept.  (A
\* later one that differs only sets a flag the operator sees, faultyComputorFlags.)
ReceiveVote(n, c, t, body) ==
  /\ t >= tick[n]
  /\ ticks[n][t][c] = None
  /\ ticks' = [ticks EXCEPT ![n][t][c] = body]
  /\ UNCHANGED <<tick, latestProcessedTick, latestCreatedTick, etalon, expectedNext,
                 target, tickData, transactions, handling, halted, sentVotes, sentData>>

\* Tick data a node may receive.
ReceivableData == sentData \cup ByzantineData

\* processBroadcastFutureTickData() up to the lock: system.tick is read here,
\* long before the slot is written.
CheckTickData(n, m) ==
  /\ m.tick > tick[n]
  /\ Cardinality(handling[n]) < RequestProcessors
  /\ handling' = [handling EXCEPT ![n] = @ \cup {m}]
  /\ UNCHANGED <<tick, latestProcessedTick, latestCreatedTick, etalon, expectedNext,
                 target, ticks, tickData, transactions, halted, sentVotes, sentData>>

\* processBroadcastFutureTickData() under the tick data lock.  Once the target
\* digest is known only matching data are stored, and they replace others;
\* before that the first data are kept.
StoreTickData(n, m) ==
  /\ m \in handling[n]
  /\ handling' = [handling EXCEPT ![n] = @ \ {m}]
  /\ LET stored == tickData[n][m.tick]
         targeted == m.tick = tick[n] + 1 /\ target[n] # Unknown
         keep == tickData' = [tickData EXCEPT ![n][m.tick] = m.data]
     IN  \/ /\ stored = Invalidated
            /\ UNCHANGED tickData
         \/ /\ stored # Invalidated /\ targeted
            /\ IF target[n] = m.data THEN keep ELSE UNCHANGED tickData
         \/ /\ stored \in Data /\ ~targeted
            /\ UNCHANGED tickData
         \/ /\ stored = None /\ ~targeted
            /\ keep
  /\ UNCHANGED <<tick, latestProcessedTick, latestCreatedTick, etalon, expectedNext,
                 target, ticks, transactions, halted, sentVotes, sentData>>

\* processBroadcastTransaction() for the last missing transaction of d.  Nothing
\* looks at the transactions of d before d is stored: they arrive after it.
ReceiveTransactions(n, d) ==
  /\ d \notin transactions[n]
  /\ \E t \in Tick : tickData[n][t] = d
  /\ transactions' = [transactions EXCEPT ![n] = @ \cup {d}]
  /\ UNCHANGED <<tick, latestProcessedTick, latestCreatedTick, etalon, expectedNext,
                 target, ticks, tickData, handling, halted, sentVotes, sentData>>

-----------------------------------------------------------------------------
(***************************************************************************)
(* The loop of tickProcessor().                                            *)
(***************************************************************************)

\* processTick(): execute the tick, then publish tick data if a computor of
\* this node leads the tick Offset ahead.
ProcessTick(n) ==
  LET t    == tick[n]
      prev == IF t = 1 THEN << >> ELSE Executed(etalon[n][t - 1])
      led  == t + Offset
      leads == led \in Tick /\ Leader(led) \in Own(n)
  IN  /\ ~halted[n]
      /\ t < MaxTick
      /\ t > latestProcessedTick[n]
      /\ latestProcessedTick' = [latestProcessedTick EXCEPT ![n] = t]
      /\ etalon' = [etalon EXCEPT ![n][t] = [prev |-> prev, data |-> DataDigest(n, t)]]
      /\ \/ /\ leads
            /\ \E d \in Data \ BadTimelock :
                 /\ sentData' = sentData \cup {[tick |-> led, data |-> d]}
                 /\ transactions' = [transactions EXCEPT ![n] = @ \cup {d}]
         \/ /\ ~leads
            /\ UNCHANGED <<sentData, transactions>>
      /\ UNCHANGED <<tick, latestCreatedTick, expectedNext, target, ticks, tickData,
                     handling, halted, sentVotes>>

\* The decision rule of both findNextTickDataDigestFrom...Votes(): digest[c] is
\* what computor c votes for, or None.
Support(digest, v) == Cardinality({c \in Computor : digest[c] = v})

Missing(digest) == Support(digest, None)

\* Mutant: an empty tick is decided without regard to votes that are missing.
DecidedEarly(digest) ==
  IF \E v \in Digest : Support(digest, v) >= QuorumSize
  THEN CHOOSE v \in Digest : Support(digest, v) >= QuorumSize
  ELSE Empty

Decided(digest) ==
  IF \E v \in Digest : Support(digest, v) >= QuorumSize
  THEN CHOOSE v \in Digest : Support(digest, v) >= QuorumSize
  ELSE IF \/ Support(digest, Empty) > NumberOfComputors - QuorumSize
          \/ \A v \in Digest : Support(digest, v) + Missing(digest) < QuorumSize
       THEN Empty
       ELSE Unknown

\* The field f of the votes node n stores for tick t.
Field(n, t, f) ==
  [c \in Computor |-> IF ticks[n][t][c] = None THEN None ELSE ticks[n][t][c][f]]

\* gFutureTickTotalNumberOfComputors > NUMBER_OF_COMPUTORS - QUORUM
EnoughFutureVotes(n) ==
  Cardinality({c \in Computor : ticks[n][tick[n] + 1][c] # None})
    > NumberOfComputors - QuorumSize

FromNextTickVotes(n) ==
  IF EnoughFutureVotes(n) THEN Decided(Field(n, tick[n] + 1, "data")) ELSE Unknown

\* Mutant: only an AUX node decides from the votes of the current tick.
FromCurrentTickVotesOfAux(n) ==
  IF n \notin MainNode /\ (\E c \in Computor : ticks[n][tick[n]][c] # None)
  THEN Decided(Field(n, tick[n], "next"))
  ELSE Unknown

\* Only a MAIN node decides from the votes of the current tick.
FromCurrentTickVotes(n) ==
  IF n \in MainNode /\ (\E c \in Computor : ticks[n][tick[n]][c] # None)
  THEN Decided(Field(n, tick[n], "next"))
  ELSE Unknown

\* Votes of the next tick come first, and replace an earlier decision.
FindTarget(n) ==
  LET later == FromNextTickVotes(n)
      now   == FromCurrentTickVotes(n)
  IN  /\ ~halted[n]
      /\ tick[n] < MaxTick
      /\ latestProcessedTick[n] = tick[n]
      /\ \/ /\ later # Unknown
            /\ target' = [target EXCEPT ![n] = later]
         \/ /\ later = Unknown /\ target[n] = Unknown /\ now # Unknown
            /\ target' = [target EXCEPT ![n] = now]
      /\ UNCHANGED <<tick, latestProcessedTick, latestCreatedTick, etalon, expectedNext,
                     ticks, tickData, transactions, handling, halted,
                     sentVotes, sentData>>

\* findCurrentDigestsFromNextTickVotes(): the state most votes of the next tick
\* claim, in a set of its own, if they are enough.  Among equally popular states
\* the one of the lowest computor counts.
QuorumState(n) ==
  LET prev    == Field(n, tick[n] + 1, "prev")
      voters  == {c \in Computor : prev[c] # None}
      Leads(c, d) == \/ Support(prev, prev[c]) > Support(prev, prev[d])
                     \/ Support(prev, prev[c]) = Support(prev, prev[d]) /\ c <= d
      popular == {prev[c] : c \in {c \in voters : \A d \in voters : Leads(c, d)}}
  IN  {s \in popular : \/ Support(prev, s) >= QuorumSize
                       \/ /\ target[n] = Empty
                          /\ Support(prev, s) > NumberOfComputors - QuorumSize}

AllFutureVotes(n) == \A c \in Computor : ticks[n][tick[n] + 1][c] # None

\* A node that is not in MAIN mode checks its state against the quorum's.
MustVerify(n) == n \notin MainNode /\ target[n] # Unknown

\* Mutant: the state before the tick is compared with the quorum's.
VerifiedBefore(n) == QuorumState(n) = {etalon[n][tick[n]].prev}

Verified(n) == QuorumState(n) = {Executed(etalon[n][tick[n]])}

\* The two endless error loops of that check: no state has a quorum although
\* all votes are in, or the node's own state is another one.
Halt(n) ==
  /\ ~halted[n]
  /\ tick[n] < MaxTick
  /\ latestProcessedTick[n] = tick[n]
  /\ MustVerify(n)
  /\ \/ QuorumState(n) = {} /\ AllFutureVotes(n)
     \/ QuorumState(n) # {} /\ ~Verified(n)
  /\ halted' = [halted EXCEPT ![n] = TRUE]
  /\ UNCHANGED <<tick, latestProcessedTick, latestCreatedTick, etalon, expectedNext,
                 target, ticks, tickData, transactions, handling,
                 sentVotes, sentData>>

\* Mutant: votes count that agree on the state but not on the tick data.
MatchingState(n, t, e) ==
  {c \in Computor : ticks[n][t][c] # None /\ ticks[n][t][c].prev = e.prev}

\* updateVotesCount(): the computors whose vote for t matches etalon e.
Matching(n, t, e) ==
  {c \in Computor : /\ ticks[n][t][c] # None
                    /\ ticks[n][t][c].prev = e.prev
                    /\ ticks[n][t][c].data = e.data}

\* Tick data whose time lock does not commit to this node's state are dropped
\* before anything else is done with them (at every tick with the default
\* securityTick of 1).
DiscardTimelock(n) ==
  /\ ~halted[n]
  /\ tick[n] < MaxTick
  /\ latestProcessedTick[n] = tick[n]
  /\ tickData[n][tick[n] + 1] \in BadTimelock
  /\ tickData' = [tickData EXCEPT ![n][tick[n] + 1] = None]
  /\ UNCHANGED <<tick, latestProcessedTick, latestCreatedTick, etalon, expectedNext,
                 target, ticks, transactions, handling, halted,
                 sentVotes, sentData>>

\* Mutant: tick data are complete without their transactions.
AnyTransactions(n) ==
  LET stored == tickData[n][tick[n] + 1]
  IN  IF stored \in BadTimelock THEN {}
      ELSE IF target[n] = Empty THEN {Invalidated}
      ELSE IF target[n] = Unknown THEN {stored}
      ELSE {stored} \cap {target[n]}

\* Mutant: a time lock that was checked once is not checked again.
AnyTimelock(n) ==
  LET stored == tickData[n][tick[n] + 1]
  IN  IF target[n] = Empty THEN {Invalidated}
      ELSE IF target[n] = Unknown
      THEN IF stored \in Data \ transactions[n] THEN {None} ELSE {stored}
      ELSE {stored} \cap {target[n]} \cap transactions[n]

\* Mutant: the tick data of an empty tick are removed instead of invalidated.
RemovedData(n) ==
  LET stored == tickData[n][tick[n] + 1]
  IN  IF stored \in BadTimelock THEN {}
      ELSE IF target[n] = Empty THEN {None}
      ELSE IF target[n] = Unknown
      THEN IF stored \in Data \ transactions[n] THEN {None} ELSE {stored}
      ELSE {stored} \cap {target[n]} \cap transactions[n]

\* The tick data of the next tick a pass can go on with, if any: an empty
\* target invalidates what is stored; data without all transactions are
\* dropped on time-out while the target is unknown; a known target must be
\* stored with all its transactions.
NextTickData(n) ==
  LET stored == tickData[n][tick[n] + 1]
  IN  IF stored \in BadTimelock THEN {}
      ELSE IF target[n] = Empty THEN {Invalidated}
      ELSE IF target[n] = Unknown
      THEN IF stored \in Data \ transactions[n] THEN {None} ELSE {stored}
      ELSE {stored} \cap {target[n]} \cap transactions[n]

\* What a pass votes for and compares the votes with: the state that
\* processTick() found, and the digest of the tick data stored now.
CurrentEtalon(n) ==
  [prev |-> etalon[n][tick[n]].prev, data |-> DataDigest(n, tick[n])]

\* Mutant: a tick that was voted for is voted for again.
MayVoteAgain(n) == tick[n] >= latestCreatedTick[n] \/ tick[n] = InitialTick

\* The first tick of the epoch is voted for in every pass, others once.
MayVote(n) == tick[n] > latestCreatedTick[n] \/ tick[n] = InitialTick

\* Mutant: the computors' seeds are on every MAIN node.
VotesOfAll(n, body) == {[computor |-> c, tick |-> tick[n], body |-> body] : c \in Honest}

\* The votes broadcastTickVotes() sends.
VotesOf(n, body) == {[computor |-> c, tick |-> tick[n], body |-> body] : c \in Own(n)}

\* Go to the next tick.  The votes of the tick left behind stay in the storage,
\* where the protocol never reads them again: the model empties their slots.
LeaveTick(n) ==
  /\ tick' = [tick EXCEPT ![n] = @ + 1]
  /\ target' = [target EXCEPT ![n] = Unknown]
  /\ ticks' = [ticks EXCEPT ![n][tick[n]] = [c \in Computor |-> None]]

\* One pass from the copy of the next tick data to the end of the loop: vote
\* if no vote was made for this tick, count the votes, and go to the next
\* tick when a quorum matches and the target is known or forced to be empty.
VoteAndCount(n) ==
  LET t == tick[n]
      e == CurrentEtalon(n)
  IN
  /\ ~halted[n]
  /\ t < MaxTick
  /\ latestProcessedTick[n] = t
  /\ MustVerify(n) => Verified(n)
  /\ \E nd \in NextTickData(n) :
       LET next == IF nd \in Data THEN nd ELSE Empty
           body == [prev |-> e.prev, data |-> e.data, next |-> next]
       IN
       /\ expectedNext' = [expectedNext EXCEPT ![n] = next]
       /\ sentVotes' = IF MayVote(n) THEN sentVotes \cup VotesOf(n, body) ELSE sentVotes
       /\ latestCreatedTick' =
            IF MayVote(n) /\ t # InitialTick THEN [latestCreatedTick EXCEPT ![n] = t]
            ELSE latestCreatedTick
       /\ \/ \* no quorum yet, or nothing decided
             /\ \/ Cardinality(Matching(n, t, e)) < QuorumSize
                \/ target[n] = Unknown
             /\ tickData' = [tickData EXCEPT ![n][t + 1] = nd]
             /\ UNCHANGED <<tick, target>>
             /\ UNCHANGED ticks
          \/ \* quorum on this tick, next tick data decided
             /\ Cardinality(Matching(n, t, e)) >= QuorumSize
             /\ target[n] # Unknown
             /\ tickData' = [tickData EXCEPT ![n][t + 1] = nd]
             /\ LeaveTick(n)
          \/ \* quorum on this tick, next tick forced to be empty
             /\ n \in Forcing
             /\ Cardinality(Matching(n, t, e)) >= QuorumSize
             /\ target[n] = Unknown
             /\ tickData' = [tickData EXCEPT ![n][t + 1] = Invalidated]
             /\ LeaveTick(n)
  /\ UNCHANGED <<latestProcessedTick, etalon, transactions, handling, halted, sentData>>

\* tryResendTickVotes() of the main loop, and the key F9: the tick processor
\* will vote again.  A second decrement before that changes nothing.
ResendVotes(n) ==
  /\ n \in Resending \cap MainNode
  /\ latestCreatedTick[n] = tick[n]
  /\ latestCreatedTick' = [latestCreatedTick EXCEPT ![n] = @ - 1]
  /\ UNCHANGED <<tick, latestProcessedTick, etalon, expectedNext, target, ticks, tickData,
                 transactions, handling, halted, sentVotes, sentData>>

\* One step of node n: of a request processor, the tick processor or the main loop.
Step(n) ==
  \/ \E c \in Computor, t \in Tick : \E body \in Receivable(c, t) : ReceiveVote(n, c, t, body)
  \/ \E m \in ReceivableData : CheckTickData(n, m)
  \/ \E m \in handling[n] : StoreTickData(n, m)
  \/ \E d \in Data : ReceiveTransactions(n, d)
  \/ ProcessTick(n)
  \/ FindTarget(n)
  \/ Halt(n)
  \/ DiscardTimelock(n)
  \/ VoteAndCount(n)
  \/ ResendVotes(n)

Next == \E n \in Node : Step(n)

Spec == Init /\ [][Next]_vars

(***************************************************************************)
(* The tick processor loops as long as the node runs.  The main loop keeps *)
(* asking other nodes for the votes, tick data and transactions that are   *)
(* missing, so what some node holds is received eventually.                *)
(***************************************************************************)
Fairness ==
  \A n \in Node :
    /\ WF_vars(ProcessTick(n))
    /\ WF_vars(FindTarget(n))
    /\ WF_vars(VoteAndCount(n))
    /\ WF_vars(\E c \in Computor, t \in Tick : \E body \in Receivable(c, t) :
                 ReceiveVote(n, c, t, body))
    /\ \A t \in Tick, d \in Data :
         LET m == [tick |-> t, data |-> d]
         IN  WF_vars(m \in ReceivableData /\ CheckTickData(n, m)) /\ WF_vars(StoreTickData(n, m))
    /\ WF_vars(\E d \in Data : ReceiveTransactions(n, d))

FairSpec == Spec /\ Fairness

-----------------------------------------------------------------------------
(***************************************************************************)
(* Safety.                                                                 *)
(***************************************************************************)

\* A tick is final at a node that has left it.
Final(n, t) == t \in Tick /\ t < tick[n]

\* Consensus: two nodes that have both left a tick executed the same tick
\* data in it, from the same state, whatever Byzantine computors sign and
\* whenever votes are repeated or empty ticks forced.
Agreement ==
  \A m, n \in Node : \A t \in Tick :
    Final(m, t) /\ Final(n, t) => etalon[m][t] = etalon[n][t]

\* The computors that stand behind etalon e for tick t: Byzantine ones, and the
\* honest ones with a vote for it among the given votes.
Backers(votes, e, t) ==
  Byzantine \cup
  {c \in Honest : \E v \in votes : /\ v.computor = c
                                  /\ v.tick = t
                                  /\ v.body.prev = e.prev
                                  /\ v.body.data = e.data}

\* Every final tick has a quorum of computors behind it, counting only votes
\* that were really sent.
FinalBacked ==
  \A n \in Node : \A t \in Tick :
    Final(n, t) => Cardinality(Backers(sentVotes, etalon[n][t], t)) >= QuorumSize

\* All votes an honest computor ever sends for a tick make the same claim
\* about state and tick data, the one of the node that holds its seed; only
\* the expected next digest may differ between repeated votes.
VotesFollowState ==
  \A v \in sentVotes :
    LET e == etalon[Host[v.computor]][v.tick]
    IN  /\ e # None
        /\ v.body.prev = e.prev
        /\ v.body.data = e.data

\* The tick data of a tick the node has entered or decided are complete: a
\* node never executes a tick of which it lacks a transaction.
TransactionsKnown ==
  \A n \in Node : \A t \in Tick :
    t <= tick[n] /\ tickData[n][t] \in Data => tickData[n][t] \in transactions[n]

\* A node has processed its tick or is about to, and knows the etalon of every
\* tick it has processed.
EtalonOK ==
  \A n \in Node :
    /\ latestProcessedTick[n] \in {tick[n] - 1, tick[n]}
    /\ \A t \in Tick : etalon[n][t] # None <=> t <= latestProcessedTick[n]

\* The tick data a node votes for when the votes are made are still those it
\* executed: the two read the tick storage at different times.
VotedDataExecuted ==
  \A n \in Node : \A t \in Tick :
    etalon[n][t] # None => etalon[n][t].data = DataDigest(n, t)

\* A stored vote of an honest computor was sent by it.
StoredVotesSent ==
  \A n \in Node : \A t \in Tick : \A c \in Honest :
    ticks[n][t][c] # None =>
      [computor |-> c, tick |-> t, body |-> ticks[n][t][c]] \in sentVotes

\* The tick data of every tick after the first are settled when it begins, and
\* nobody handles tick data of the first tick.
SettledData ==
  \A n \in Node :
    /\ \A t \in Tick : 1 < t /\ t <= tick[n] => tickData[n][t] # None
    /\ \A m \in handling[n] : m.tick > 1
    /\ tickData[n][1] = None

\* The inductive invariant behind Agreement, TransactionsKnown and
\* ExecutedDataFixed.
IInv ==
  /\ TypeOK
  /\ EtalonOK
  /\ VotedDataExecuted
  /\ VotesFollowState
  /\ StoredVotesSent
  /\ FinalBacked
  /\ SettledData
  /\ TransactionsKnown

\* No request processor changes the tick data of a tick that has begun, even
\* one that read system.tick before the tick began.
ExecutedDataFixed ==
  [][\A n \in Node : \A t \in Tick :
       t <= tick[n] => tickData'[n][t] = tickData[n][t]]_vars

\* Tick data that commit to a foreign state are never executed, whenever they
\* arrive and whatever the votes decide.
ForeignDataNotExecuted ==
  \A n \in Node : \A t \in Tick :
    etalon[n][t] # None => etalon[n][t].data \notin BadTimelock

\* The check of an AUX node against the votes of the next tick ends in an error
\* loop only if a Byzantine computor, or a node that has gone on, claims another
\* state than the one the AUX node has after its tick.
HaltsOnlyMisled ==
  \A n \in Node :
    halted[n] =>
      LET t == tick[n]
          s == Executed(etalon[n][t])
      IN  \/ \E c \in Byzantine : ticks[n][t + 1][c] # None /\ ticks[n][t + 1][c].prev # s
          \/ \E m \in Node : etalon[m][t + 1] # None /\ etalon[m][t + 1].prev # s

\* When all computors are honest that check never ends in an error loop.
NeverHalts == \A n \in Node : ~halted[n]

\* Without repeated votes no honest computor ever contradicts itself after the
\* first tick of the epoch, so nobody marks it as faulty.
HonestVotesUnique ==
  \A v, w \in sentVotes :
    v.computor = w.computor /\ v.tick = w.tick /\ v.tick # InitialTick => v = w

\* Two nodes at the same tick never decide different next tick data.
TargetAgreement ==
  \A m, n \in Node :
    tick[m] = tick[n] /\ target[m] # Unknown /\ target[n] # Unknown => target[m] = target[n]

\* A known target is never replaced by another one.
TargetFixed ==
  [][\A n \in Node :
       target[n] # Unknown /\ tick'[n] = tick[n] => target'[n] = target[n]]_vars

\* What the comment of tryForceEmptyNextTick() promises: a node that forces the
\* next tick to be empty expects it to be empty.
ForcedTickExpectedEmpty ==
  [][\A n \in Node :
       target[n] = Unknown /\ tick'[n] = tick[n] + 1 => expectedNext'[n] = Empty]_vars

\* Every node gets to the end of the storage when all computors are honest,
\* no vote changes and all messages arrive.
Progress == <>(\A n \in Node : tick[n] = MaxTick)
=============================================================================

# Qubic core lite: TLA+ models and proofs

This directory is a verification project for the Qubic node of this
repository (`src/src/qubic.cpp` and the headers it includes).  It has TLA+
models of parts of the node, TLC configurations that check them on small
instances, and TLAPS proofs of theorems about them.  `PROJECT.json` lists the
components, runs, mutants, findings, hazards and theorems, and maps every
definition to the source lines it stands for.  Paths below are relative to
`src/src/`.

- [1. The system](#1-the-system)
- [2. The modules](#2-the-modules)
- [3. TickConsensus](#3-tickconsensus)
- [4. ContractExec](#4-contractexec)
- [5. The threads of a node](#5-the-threads-of-a-node)
- [6. The tables and accounts of a node](#6-the-tables-and-accounts-of-a-node)
- [7. The contracts](#7-the-contracts)
- [8. What is proved and what is only checked](#8-what-is-proved-and-what-is-only-checked)
- [9. Disagreements and observations](#9-disagreements-and-observations)
- [10. What is not modelled](#10-what-is-not-modelled)
- [11. Running it](#11-running-it)

## 1. The system

A node runs four kinds of threads.  The *tick processor* executes ticks and
votes.  One *contract processor* is started by the tick processor for every
run of contract code, and awaited.  *Request processors* handle messages and
user functions of contracts.  The *main loop* does all network and file I/O,
timers and keys.  They share global arrays under spin locks and hand work
over through volatile flags and counters.

| Component | State | Operations | Interacts with | What is hard | What makes it correct |
|---|---|---|---|---|---|
| Quorum consensus of ticks (`qubic.cpp` `tickProcessor`, `processTick`) | `system.tick`, etalon tick, target digest, `latestCreatedTick` | execute a tick, decide the next tick's data, vote, count, go on; check of an AUX node; F5, F9, re-vote timer | tick storage, contract processor, main loop | late, lost and contradictory votes; data that arrive while they are judged; forced ticks | nodes agree on every tick; a node votes for what it executed |
| Tick storage (`ticking/tick_storage.h`) | votes, tick data and transactions per tick | slots written by handlers and tick processor | both | several locks, unlocked reads | no slot of a begun tick changes |
| Message handlers (`qubic.cpp` `processBroadcast...`) | none of their own | store votes, tick data, transactions | tick storage, pending pool | test and write far apart | only signed data of the right tick are stored |
| Contract execution engine (`contract_core/contract_exec.h`) | state locks, locals stacks, callback flags, change flags | procedures, functions, callbacks, abort, unwinding | contract processor, request processors, assets, spectrum | nested locks of two kinds of threads, callbacks against the lock order | exclusive states, no deadlock, no leaked lock |
| Read-write lock (`platform/read_write_lock.h`) | `readers`, `writersWaiting` | try, acquire, release | engine, `getComputerDigest` | test and increment apart, writer priority | exclusion, no starved writer |
| Contract processor (`qubic.cpp`) | `contractProcessorState`, phase | run phases of a tick | tick processor, main loop | hand-over by one byte; event callback that comes late | one run at a time |
| Epoch transition and thread handshakes (`qubic.cpp`) | `epochTransitionState`, counters, save flags | end and begin of an epoch, saving, node snapshots, shut-down | all threads | flags of an earlier round, counters of waiting threads | nobody touches state while it is replaced; nobody waits for ever |
| Pending transactions pool (`ticking/pending_txs_pool.h`) | transactions, digests, priority collection per tick | add, replace, forget old ticks | handlers, `processTick` | three parallel structures at their limit | holds the best n transactions |
| Spectrum (`spectrum/spectrum.h`, `qpi_spectrum_impl.h`) | open-addressing table of entities | increase, decrease, find, reorganise | tick processor, contracts | clusters, reorganisation moves indices | conserves the supply |
| Assets, universe (`assets/assets.h`, `qpi_asset_impl.h`) | issuance, ownership and possession records, index lists | issue, transfer, management rights | contracts, spectrum | two kinds of records in one table | shares are conserved |
| Peers, queues, TCP (`network_core/`) | request and response rings | enqueue, dequeue, drop | main loop, request processors | byte ring and element ring together | no message is overwritten before it is read |
| Node snapshots and restart (`qubic.cpp`, `files/`) | files | save and load all state | tick processor, main loop | crash between files | a restarted node continues |
| IPO (`contract_core/ipo.h`) | bids of a contract | bid, refund, finish | spectrum | refunds may reorganise the table under an index | a bid is paid by its bidder; nothing is lost |
| Containers (`qpi_collection_impl.h`, `qpi_hash_map_impl.h`) | arrays with open addressing, trees | add, remove, clean up | contracts, pending pool | clusters, marks of removed slots, moved elements | a sorted queue per point of view; a partial map |
| Miners and computors (`qubic.cpp`, `mining/`, `ticking/stable_computor_index.h`) | solutions, scores, ranking, next computors | solution transactions, ranking, publication, indices | spectrum, tick processor | duplicates, deposits, ties | the best get the seats; a deposit returns or was forfeited |
| Votes, shares, fees, issuance (`vote_counter.h`, `mining/mining.h`, `ticking/execution_fee_report_collector.h`, `revenue.h`) | counters and reports of an epoch | count, report, deduct, issue | tick processor, contracts | faulty leaders, phases that overlap | everything is counted once, for what was reported |
| Proposals (`qpi_proposal_voting.h`) | proposal slots and votes | propose, vote, count | contracts | slots are reused, shares of voters move | votes count as they were meant |
| Contracts (`contracts/`) | money, shares, records of users | user procedures, callbacks at ticks and epochs | QPI | long sequences of legal calls, failing steps | solvent, consistent, able to deliver |
| Virtual memory, common buffers, logging, cryptography, HTTP | caches, pools | | | | |

All of them are in `PROJECT.json` under `components`, with the reason for each
that is not modelled.  `hazards` lists, at their lines, the situations in this
code that a test would hardly reach; the properties of the runs were chosen
for them, and a hazard that no property covers has a note that says why.

## 2. The modules

| Module | Models | Implements | Checked by | Proofs |
|---|---|---|---|---|
| `TickConsensus` | ticks, votes and tick data of several nodes | | `MCTickConsensus` | `TickConsensusProofs` |
| `ContractExec` | the locks of contract states under arbitrary contract code | | itself | `ContractExecProofs` |
| `EpochTransition` | the handshakes of a node's threads at the end of an epoch | | `MCNodeThreads` | `NodeThreadsProofs` |
| `NodeSnapshot` | node snapshots, crash and restart | | `MCNodeThreads` | `NodeThreadsProofs` |
| `ReadWriteLock` | `class ReadWriteLock`, one step for each access to a counter | `SharedLock` | `MCNodeThreads` | `NodeThreadsProofs` |
| `MessageQueue` | request and response queue: ring of bytes, ring of elements | `MessageFifo` | `MCNodeThreads` | `NodeThreadsProofs` |
| `PeerConnections` | connection slots and completion tokens | | `MCNodeThreads` | `NodeThreadsProofs` |
| `Collection` | `QPI::Collection` | `PriorityQueues` | `MCNodeState` | |
| `HashMap` | `QPI::HashMap` | `PartialMap` | `MCNodeState` | `TablesProofs` |
| `Spectrum` | the table of balances, transactions, IPO | `Ledger` | `MCNodeState` | `SpectrumProofs` |
| `PendingTxsPool` | the pool of pending transactions | `PendingPool` | `MCNodeState` | `TablesProofs` |
| `Assets` | the universe of shares | `ShareRegister` | `MCNodeState` | |
| `MinerRanking` | solutions, deposits, the ranking, the next computors and their indices | | `MCNodeState` | `TablesProofs` |
| `EpochAccounting` | votes, custom mining shares, execution fees, issuance | | `MCNodeState` | `NodeStateProofs` |
| `Qpi` | what contracts use of the node | | `MCContracts` | |
| `Qswap` | the contract of this name | | `MCContracts` | `QswapProofs` |
| `Qx`, `Qearn`, `MsVault`, `Quottery`, `QBond`, `QRaffle`, `Nostromo`, `Lotteries`, `QUtil` | the contracts of these names (`Lotteries`: RandomLottery, Qdraw, QDuel) | | `MCContracts` | |
| `ProposalVoting`, `ProposalContracts` | proposals, and the contracts GeneralQuorumProposal and ComputorControlledFund that act on them | | `MCContracts` | |

`MCNodeThreads`, `MCNodeState` and `MCContracts` compose their components as
alternatives: a behaviour is one of one component, chosen in the initial state,
and the others stand still, since in the code they share no variable that the
properties are about.  Where components do share state they are one module
(transactions and IPO in `Spectrum`, miners and computors in `MinerRanking`) or
one extends the other (`ProposalContracts` and `ProposalVoting`).

`SumTheorems` models nothing: it is the library of lemmas of `TablesProofs`,
`SpectrumProofs`, `NodeStateProofs` and `QswapProofs`, on least numbers, induction
over numbers and over finite sets, sums over finite sets, and division.
`NodeStateProofs` also uses what `TablesProofs` shows of the miners.

## 3. TickConsensus

### 3.1 State and actions

One instance is one epoch with several nodes.

| Variable | Code |
|---|---|
| `tick`, `latestProcessedTick`, `latestCreatedTick` | `system.tick`, the local of `tickProcessor()`, `system.latestCreatedTick` |
| `etalon[n][t]` | what `etalonTick` says of tick `t` when `n` has processed it: the digests before the tick (`prev`) and the digest of its tick data (`data`) |
| `expectedNext`, `target` | `etalonTick.expectedNextTickTransactionDigest`; `targetNextTickDataDigest` with its "is known" flag |
| `ticks`, `tickData` | the arrays of `TickStorage` |
| `transactions` | tick data of which the node stores all transactions |
| `handling` | tick data whose tick a request processor has compared with `system.tick` and that it has not stored yet |
| `halted` | the tick processor is in one of its `while (1)` error loops |
| `sentVotes`, `sentData` | everything honest nodes have broadcast |

| Action | Code |
|---|---|
| `ReceiveVote` | `processBroadcastTick()` |
| `CheckTickData`, `StoreTickData` | `processBroadcastFutureTickData()` up to its lock, and under it |
| `ReceiveTransactions` | `processBroadcastTransaction()`, for the last missing transaction of stored tick data |
| `ProcessTick` | `processTick()`: execute, update the etalon, lead a future tick |
| `FindTarget` | `findNextTickDataDigestFromNextTickVotes()` and `...FromCurrentTickVotes()` |
| `Halt` | the comparison of an AUX node with the votes of the next tick that ends in an error loop |
| `DiscardTimelock` | the check of the time lock of the next tick's data |
| `VoteAndCount` | the rest of a pass of `tickProcessor()`: prepare the next tick's data, `broadcastTickVotes()`, `updateVotesCount()`, `tryForceEmptyNextTick()`, go to the next tick |
| `ResendVotes` | `tryResendTickVotes()` and the key F9 |

Abstractions, and why they lose nothing the properties speak of:

- *Digests are perfect.*  The spectrum, universe and computer digests together
  are the sequence of the non-empty tick data executed (`Ledger`); execution
  is deterministic.  Two histories that differ only in empty ticks have equal
  digests, as in the code.  Salts and signatures are left out: a vote carries
  its sender, and only Byzantine computors sign anything they like.
- *Messages.*  What was sent stays receivable.  Not receiving it is a loss,
  receiving it late or again is a delay or a duplicate.  Tick data and votes of
  Byzantine computors are constants of a run: they may sign all of the set.
- *Atomicity.*  One pass of `tickProcessor()` is split where the outcome can
  depend on other threads: the decision on the target, the time lock, and the
  rest of the pass.  Vote handlers take the lock of the computor's slot and
  test the tick without a lock; a vote stored for a tick just left is not read
  any more, so the test is part of the step.  The handler of tick data is split
  at its unlocked test of `system.tick`.
- *Past votes.*  The slots of votes for a tick left behind are emptied.  The
  code keeps them, but no decision reads them again.
- *Time.*  Every time-out may fire in any pass: dropping incomplete tick data
  while the target is unknown, repeating votes, forcing an empty tick.
- *Transactions.*  Those of one tick data are all stored or not; single
  transactions and their offsets in the storage are not represented.
- `Offset` is `TICK_TRANSACTIONS_PUBLICATION_OFFSET`.  `InitialTick` is 1 in
  `byzantine_leader`, where votes for tick 1 are sent in every pass, and 0 in the
  other runs, where tick 1 is not the first of the epoch.  `securityTick` has its default, every tick.

Not modelled: the reprocessing of solutions by an AUX node when its digests
differ, F7 (`forceSwitchEpoch`), a change of a node's mode while it runs, the
end of the epoch (section 5.1), the recording of computors that contradict
themselves (`faultyComputorFlags`, which no decision reads).

### 3.2 Fairness

`FairSpec` has weak fairness of the tick processor's passes (the thread loops
until shut-down), of the handlers, and of the arrival of what was sent.  The
last is what the main loop's requests for missing votes, tick data and
transactions (`qubic.cpp` 8022-8110) provide as long as one node has it.
`Halt`, `DiscardTimelock` and `ResendVotes` have no fairness.

### 3.3 Runs

| Run | Instance | What it shows |
|---|---|---|
| `honest_epoch` | two MAIN nodes, three computors (quorum 2), one tick data, three ticks, fairness | `TargetAgreement`, `TargetFixed`: decisions agree and are final; `HonestVotesUnique`; `Progress`: all nodes reach the last tick |
| `byzantine_votes` | four computors (quorum 3), one of them signs votes for and against the data of tick 2, node b may force empty ticks | `Agreement`, `FinalBacked`, `VotedDataExecuted` |
| `byzantine_leader` | the leader of tick 2 is Byzantine and signs two tick data, one with a foreign time lock; tick 1 is the first of the epoch and node b repeats votes | `ForeignDataNotExecuted`, `TransactionsKnown`, `VotesFollowState`, `ExecutedDataFixed` |
| `aux_node` | a MAIN and an AUX node, two computors (quorum 2), four ticks; the leader of tick 2 is Byzantine and signs votes for tick 3 for and against the state | `IInv` (the invariant of the proofs), `HaltsOnlyMisled` |
| `forced_expectation` | one node forces empty ticks | a violation, see section 9 |

Why the bounds are enough: all rules relate a tick to the next one, so three
ticks give every rule a tick before and a tick after it (the last tick is the
end of the storage and is not processed); two nodes are what disagreement
needs; three or four computors are the smallest numbers with quorums that
differ without and with a Byzantine computor.  The nodes may stop at the
end of the storage and a node may lack messages for ever, so deadlock is not
checked.

Two things the runs taught us.  `TargetAgreement` needs honest computors: one
Byzantine computor can let a node that is stuck decide otherwise than the others;
the node then waits for data that do not come, and does not fork.  And it needs
votes that are made once: repeated votes, and those for the first tick of an
epoch, sent in every pass, may change their expected next digest, and other
nodes keep the first.  This is why `honest_epoch` has `InitialTick = 0`.

An AUX node is meant to find out that the quorum's state is not its own, and stops
in an error loop when it does.  `HaltsOnlyMisled` says that it does so only when
somebody claims another state: a Byzantine computor in a vote it has stored, or a
node that has gone on.  In `aux_node` it is misled, with the contradictory votes.

### 3.4 Proofs

`TickConsensusProofs` proves, for every value of the constants,

| Theorem | Statement | Hypothesis |
|---|---|---|
| `Invariance` | `Spec => []IInv` | |
| `TypeCorrect` | `Spec => []TypeOK` | |
| `Consensus` | `Spec => []Agreement` | |
| `HonestVotes` | `Spec => []VotesFollowState` | |
| `VotesMatchExecution` | `Spec => []VotedDataExecuted` | |
| `Completeness` | `Spec => []TransactionsKnown` | |
| `QuorumBehindTick` | `Spec => []FinalBacked` | |
| `NoLateData` | `Spec => ExecutedDataFixed` | |
| `ForeignNeverExecuted` | `Spec => []ForeignDataNotExecuted` | |
| `VotesMadeOnce` | `Spec => []HonestVotesUnique` | `NoRepeat` |
| `HonestInvariance` | `Spec => []HonestInv` | `AllHonest` |
| `TargetsAgree` | `Spec => []TargetAgreement` | `AllHonest` |
| `TargetsFixed` | `Spec => TargetFixed` | `AllHonest` |
| `HaltsMisled` | `Spec => []HaltsOnlyMisled` | |
| `AuxNeverHalts` | `Spec => []NeverHalts` | `AllHonest` |

from the assumptions of the module: seeds of honest computors are on one MAIN
node each (`ComputorAssumption`), `2 * QuorumSize - NumberOfComputors` exceeds
the number of Byzantine computors (`QuorumAssumption`; with `QUORUM` of
`network_messages/common_def.h`, 451 of 676, up to 225 may be Byzantine), the
marks are not data (`ValueAssumption`), and the bounds are positive
(`BoundAssumption`).  Those without a hypothesis hold for forced ticks, repeated
votes, AUX nodes and any Byzantine votes and data.  The hypotheses are

- `NoRepeat`: no MAIN node repeats votes.  Repeated votes are made from what the
  node knows then, and their field for the next tick may differ.
- `AllHonest`: `NoRepeat`, no Byzantine computor, nobody forces empty ticks, and
  the epoch did not begin with tick 1 (for its first tick votes are made in every
  pass).  Each part is needed: section 3.3 says what TLC finds without it.  Late,
  lost and reordered messages remain, and the leader of a tick may still fail to
  publish tick data in time.

That one seed is on one node only is an assumption the operators make true: a
computor whose seed is on two MAIN nodes may contradict itself
(`SEAMLESS.md` describes a second node with the same IDs, to be switched by
hand).

`Agreement` alone is not inductive.  The argument, and the invariants it needs:

1. A node executes a tick once (`EtalonOK`), so its etalon for a tick is fixed.
2. What a node votes for is read again from the tick storage in every pass.
   It is still what it executed (`VotedDataExecuted`), because the slot of a
   begun tick is settled: it is empty only in tick 1, and the handler replaces
   a settled slot only when it is the target of the next tick (`SettledData`).
   A handler that tested `system.tick` long ago finds the slot settled; this is
   lemma `StoreLate`, and gives `NoLateData`.
3. Hence all votes of an honest computor for one tick say the same
   (`VotesFollowState`), and stored votes are votes that were sent
   (`StoredVotesSent`).
4. A node leaves a tick only with a quorum that matches its etalon, so every
   final tick is backed (`FinalBacked`).
5. Two quorums share an honest computor (lemma `QuorumsMeet`), whose votes are
   of one kind by 3; the two etalons are equal (`AgreementFollows`).
6. Data with a foreign time lock are discarded before their tick begins, and a
   begun tick takes none (`NoForeign`).

For `HaltsMisled` the invariant is that a halted node has a stored vote for the next
tick that disputes its state (`HaltedDisputed`).  If none did, its own state would be
the only one that can have enough votes, and would have them once all votes are in,
so that neither error loop is entered (`HaltDisputed`); and votes stored for the next
tick stay while the node stands still.  Such a vote is of a Byzantine computor, or of
one whose node has gone on and whose etalon says what the vote says.

Without Byzantine computors `HonestInv` adds what makes decisions final.  A vote
for tick `t` names the data its sender expects for `t + 1`; a node decides from a
quorum of such votes, or from a quorum of votes of the next tick.  Every computor
has voted for a tick once (`NoRepeat`), so at most one digest of a tick can ever
have a quorum behind it, in whatever order the votes arrive; a decision is such a
digest, and the votes for the next tick follow it.  So all decisions for a tick
agree and stay (`TargetsAgree`, `TargetsFixed`), all votes for a tick name the
same state, and the comparison of an AUX node cannot fail (`AuxNeverHalts`).
`HonestInv` was checked by TLC on the instance of `honest_epoch`, and on one with an
AUX node, before it was proved.

Only model-checked: `Progress` (liveness).

## 4. ContractExec

### 4.1 State and actions

The contracts are arbitrary programs: wherever contract code runs, every
operation of the contract interface that touches a lock may be next.

| Variable | Code |
|---|---|
| `frames` | the calls the contract processor is in: contract, procedure or function, state of its lock (`ContractRollbackInfo::type` once it is held), and for a callback the flags to be restored |
| `spinning` | `__qpiAbort()` of a procedure, or a second `ACQUIRE(universeLock)` by its holder: loops without end |
| `callbacksRunning` | `contractCallbacksRunning` |
| `readers`, `writersWaiting` | the fields of every `ReadWriteLock` in `contractStateLock` |
| `universeLock` | the depth of the frame that is in `distributeDividends()`; the only place that holds the lock while contract code runs |
| `pc`, `held`, `want` | a request processor in a user function: where it is, the read locks on its locals stack, and the contract whose function it is about to call |
| `changed`, `flagged` | contracts whose state changed since the last digest, and `contractStateChangeFlags` |

| Action | Code |
|---|---|
| `StartProcedure`, `StartCallback`, `LeaveProcedure` | `contractProcessor()` with `QpiContextSystemProcedureCall`, `QpiContextUserProcedureCall`, `QpiContextUserProcedureNotificationCall` |
| `Invoke`, `CallFunction`, `CallFromFunction` | the macros of `contracts/qpi.h` with the context constructors |
| `TransferCallback`, `RightsCallback`, `ShareholderCallback`, `PayReward` | `transfer()` and `distributeDividends()`; `acquireShares()` and `releaseShares()`; `setShareholderProposal()` and `setShareholderVotes()`; the reward of a callback, which is a transfer with a callback of its own |
| `LockForWriting`, `AcquireWrite` | `__qpiAcquireStateForWriting()` up to the wait loop of `acquireWrite()`, and its end |
| `LockForReading`, `ReturnFunction` | `__qpiAcquireStateForReading()` and `...Release...` in the contract processor |
| `ReturnProcedure` | `__qpiReleaseStateForWriting()` and the end of `__qpiCallSystemProc()` |
| `BeginDividends`, `EndDividends`, `WaitForUniverse`, `QueryShares`, `SharesQueried` | `universeLock` in `distributeDividends()` and `numberOfPossessedShares()` |
| `StartFunction`, `TestWriters`, `AcquireRead`, `RetryOrStop`, `Return` | a user function: `tryAcquireRead()` as its two steps, the wait loop that stops the function when a callback runs |
| `AbortFunction`, `Unwind` | `__qpiAbort()` of a function and `rollbackContractFunctionCall()`, one lock at a time |
| `Abort` | `__qpiAbort()` in the contract processor |
| `GetComputerDigest` | `getComputerDigest()` |

Abstractions:

- Contract 0 has no code and its lock is held only for a moment inside QPI
  functions; the same is true of the contract's own state in an IPO bid.
- A callback that is not defined, and an INVOKE or function call that fails
  because of a contract in an error state or without fees, changes no lock and
  is a step left out.  An INVOKE with a reward is a transfer followed by the
  call.  `acquireShares()` and `releaseShares()` are two callbacks in
  succession with a transfer between them.
- `acquireWrite()` decrements `writersWaiting` after the lock was taken; the
  model does both at once, since a reader is refused either way.
- A procedure always finds a locals stack (the first one is not used by
  functions), so that its wait for one (`contract_exec.h:239`) is not modelled and
  `WriterServed` says nothing of it; a callback may abort after its flag is set.
- `MaxDepth` bounds the nesting; at the bound the callback for a reward is
  skipped.  The depth of a function's calls is bounded by the contracts, since
  a function calls contracts of lower index only.
- An allocation of rollback information that fails is not checked by the code
  and would be a null pointer; it is not modelled.  Nor is the constructor of
  `QpiContextUserProcedureNotificationCall`, which reads its member `notif`
  before it is initialised.

### 4.2 Runs

| Run | Instance | What it shows |
|---|---|---|
| `contract_locks` | two contracts, two request processors, three locals stacks, calls four deep, fairness | `MutualExclusion`, `StateStaysLocked`, `NoCircularWait`, `IInv` (the invariant of the proofs), `WriterServed` under fairness |
| `callback_deadlock`, `callee_digest` | two contracts, one request processor | violations, see section 9 |

With two contracts a callback comes back to a contract whose lock an earlier call
holds; calls four deep are a callback of a callback with a call inside.  Two
functions give the interleavings inside `tryAcquireRead()`, a writer and an
abort; the three locals stacks are one for the contract processor and one for
each function.
Change flags are followed (`Watched`) only in `callee_digest`: no lock depends
on them.  The contract processor may stop by design (`Abort`), so deadlock is
not checked; the properties say which waits must not happen.

Fairness: threads run, and a function that can return for ever again and again
does (`SF` of `Return` at every depth of calls: contract code terminates).
`WriterServed` makes an exception for the time `universeLock` is held, which is
the deadlock of section 9.

### 4.3 Proofs

`ContractExecProofs` proves, for any numbers of contracts, request processors
and locals stacks and any depth of calls (`ConstantsAssumption`: the numbers are
positive and the request processors finitely many),

| Theorem | Statement |
|---|---|
| `LocksInvariant` | `Spec => []IInv` |
| `LocksTyped` | `Spec => []TypeOK` |
| `StatesExclusive` | `Spec => []MutualExclusion` |
| `StatesStayLocked` | `Spec => []StateStaysLocked` |
| `ProcessorNotStuck` | `Spec => []NoSelfWait` |
| `WaitsNotCircular` | `Spec => []NoCircularWait` |

The code decides to reuse a lock, and to skip a release, from two facts that
say nothing about calls: some callback flag is set, and the counter is -1.  Why
this is right is what `IInv` adds to `MutualExclusion`:

1. A reused lock, and a state used without one, are locked for an earlier call
   (`FrameOK`).  The counter is -1 only for the contract processor itself, so
   a lock that looks reusable is its own (lemmas `ReuseLocked`, `OwnLocked`).
2. The callback flags are set exactly while a call is a callback or inside one,
   and what each callback saves says the same of its caller (`FlagsOK`).  So
   without flags no lock was reused, and every release in that mode releases
   the lock of the call itself.
3. Outside callbacks the contracts of nested calls descend (`CallsDescend`).  So
   without flags the contract processor cannot meet a lock of its own (lemma
   `NotLocked`), and with flags it would reuse it.
4. Only the last call waits for a lock, and it is the only one counted in
   `writersWaiting` (`WritersOK`).
5. The locks of a function descend, too, and it wants one it does not hold
   (`FunctionOK`), so every acquisition and release changes the set of readers
   by one function.  With 3, a function that holds the lock the contract
   processor waits for wants one that the contract processor neither holds nor
   waits for, unless a callback runs.

The proof first reduces the twenty actions to five shapes of a step (`KeepStep`,
`PushStep`, `GrantStep`, `PopStep`, `PayStep`; lemma `FrameSteps`) and shows for
each shape what it does to the calls, to the sets of lock holders and to the
counters.

Only model-checked: `WriterServed` (liveness) and the two violations.

## 5. The threads of a node

The run `node_threads` checks five small systems that share no variable.  Each is
a module with an inductive invariant at its end; `ThreadsInv` is their
conjunction.

### 5.1 EpochTransition

| Variable | Code (`qubic.cpp`) |
|---|---|
| `epochTransitionState`, `epochTransitionWaiting`, `cleanMemoryFlag` | `epochTransitionState`, `epochTransitionWaitingRequestProcessors`, `epochTransitionCleanMemoryFlag` |
| `requestPc` | where a thread is in `requestProcessor()` |
| `tickPc`, `afterRun` | where the tick processor is in `endEpoch()`, `beginEpoch()` and `tickProcessor()`, and what follows the contract phase it waits for |
| `contractProcessorState`, `executing`, `callbacks`, `unserved` | `contractProcessorState`; started contract processors that have not ended; their shutdown callbacks still to come; a phase asked for and not yet executed |
| `mainPc`, `writing`, `saveDue`, `mustBeSaved`, `revenueQueued` | the place in the loop of `efi_main()`, the file it writes, and what asks for files |
| `file` | of which epoch each file on disk is, `Torn` when it was written while its content changed |

Every access to a shared flag is a step; what the tick processor computes between
two flags is one step.  The main loop writes a file in two steps, and a step of
the tick processor in between makes the file `Torn`.

Fairness (`EpochFairness`): every thread runs, contract processors and their
callbacks end, and the operator goes on with the new epoch.  Under it the epoch
ends (`EpochEnds`).

### 5.2 NodeSnapshot

The content of a part of the state is the number of the tick it is ready to
process.  The tick processor, the requests of the main loop, the removal of the
old snapshot and the save in `saveAllNodeStates()` file by file, a failure or crash
at any step and the restart in `initialize()` are actions.  `TxStatusAddon` is the
build option that writes one more file behind the metadata.

The code leaves two windows open.  A request made between the end of the last one
and the moment the tick processor clears its flag is taken for one it waits for:
the tick processor goes on while the files are written.  And the process may end,
or `saveAllNodeStates()` fail, while the old snapshot is removed or between the
metadata and the file behind them, which leaves valid metadata without all of their
files.  Three history variables follow them: `missed` (the tick processor has gone
on in spite of a request), `mixed` (the files of the snapshot do not belong
together) and `astray` (the node has started from such files).
`RestoredConsistent` promises that a node that is not astray has all parts of its
state for one tick: the two windows are the only ways to lose that.  Both are
reached in the run.

### 5.3 ReadWriteLock and MessageQueue

`ReadWriteLock` has one step for each access to `readers` and `writersWaiting`,
and implements `SharedLock`: many readers or one writer.  The spin locks of the
queues are not modelled, since a producer or a consumer holds one for all of its
steps; `MessageQueue` has one of each, which run concurrently.

`MessageQueue` has the ring of bytes and the ring of elements, with the bytes
themselves, so that a message overwritten before it is read is `"garbage"`.  The
promise is `MessageFifo`: what was accepted comes out unchanged and in order.
The producer tests for room as the code does, which does not see that a head at the
tail may stand for a full buffer.  The history variable `lapped` becomes true when
the head returns to the start of the buffer while the tail is there; from then on
`ImplementsFifo` promises nothing.  It says so of no other step: this is the only
way in which a message that found room is lost, and the run has it (section 9).

### 5.4 PeerConnections

Every slot has the flags of `struct Peer`, the status of its three completion
tokens, and the operations that TCP still owes.  A completion may come at any
time after its operation, also when the connection is closing.  What TCP does is
external: any outstanding operation may succeed or fail.

Fairness (`PeerFairness`): the main loop looks at the tokens of every slot, and
TCP ends every operation of a connection that is closing.  `ClosingEnds` says
that a closing connection frees its slot.

### 5.5 The run

| Property | Says |
|---|---|
| `FilesComplete` | the files of an epoch's end are complete when the tick processor counts on them |
| `RequestsParked` | no request is handled while the state of the epoch changes |
| `ContractCallsComplete` | a phase the tick processor asked for has been executed, once, when it goes on |
| `RestoredConsistent` | what a node computes with belongs to one tick, also after a crash and a restart, unless it has started from files of one of the two windows |
| `SlotsAccounted` | a slot is used for a new connection only when the last one has ended, and accepted connections are counted once |
| `ImplementsSharedLock`, `ImplementsFifo` | the lock is a shared lock, the queue a FIFO queue until its head laps its tail |
| `EpochEnds`, `ClosingEnds` | liveness, with the fairness above |
| `ThreadsInv` | the five inductive invariants together |

Bounds: two request processors, two epochs and two contract processor threads
(a late shutdown callback next to the next run); two ticks and one snapshot
after another; messages of one and two bytes in a buffer of five with four
elements (head and tail come round at different places, both rings fill up, and
the head laps the tail);
three threads at the lock (two readers and a writer); one outgoing and one
incoming slot.  The node may stop, so deadlock is not checked.

### 5.6 Proofs

| Theorem | Statement |
|---|---|
| `EpochInvariance`, `EpochTyped` | `EpochSpec => []EpochInv`, `... => []EpochTypeOK` |
| `RequestsStayParked`, `ContractsAwaited`, `FilesSaved` | `EpochSpec => []RequestsParked`, `... => []ContractCallsComplete`, `... => []FilesComplete` |
| `SnapshotInvariance`, `RestartsConsistent` | `SnapshotSpec => []SnapshotInv`, `... => []RestoredConsistent` |
| `LockInvariance`, `LockIsShared` | `LockSpec => []LockInv`, `... => ImplementsSharedLock` |
| `QueueInvariance`, `QueueIsFifo` | `QueueSpec => []QueueInv`, `... => ImplementsFifo` |
| `PeerInvariance`, `SlotsStayAccounted` | `PeerSpec => []PeerInv`, `... => []SlotsAccounted` |
| `ThreadsInvariance` | `Spec => []ThreadsInv` of `MCNodeThreads`: all of them in the composition that the run checks |

They hold for all values of the constants that the assumptions of the modules
allow.  What the invariants add to the properties:

- **`EpochInv`.**  `epochTransitionWaiting` is the number of request processors
  between `Park` and `Leave`, so "all are counted" means that none handles a
  request (`ProcessorsOK`; the lemmas on cardinalities say what one thread's step
  does to the count).  A request processor between its test of the state and its
  counting cannot exist while the tick processor works alone, since all the
  others are counted.  `ContractOK` ties `contractProcessorState` to the threads
  and callbacks alive; `FlagsOK` and `WritingOK` say which files may be asked for
  and written in which place of the tick processor; `PeriodOK` that the regular
  save of the system file cannot start once the save on request has been made;
  `FilesOK` which files are already those of the new epoch.
- **`SnapshotInv`.**  The tick processor stands still from its announcement to
  the end of the request unless it missed one (`HandshakeOK`); all parts agree but
  while an executed tick has not been left, if the node is not astray (`MemoryOK`).
  While files are written, those to come are not there and the metadata are refused
  (`FilesToCome`), and those there are of the tick at which the tick processor stands
  (`FilesWritten`); so metadata that are accepted come with all files, of one tick,
  unless they are mixed (`FilesWhole`).
- **`LockInv`.**  The counter is the number of threads that read, or -1 with
  exactly one thread that writes.  `writersWaiting` is not needed: it keeps
  readers from starving a writer, not from sharing the lock with it.
- **`QueueInv`.**  Head and tail never pass the last place where a message fits
  (`Ends`), also after a lap.  Until then the geometry of the ring: the messages that wait lie in the
  buffer, one behind the other up to the point where head and tail come round
  (`LiveMessages`), disjoint (`Disjoint`) and between tail and head
  (`BetweenTailAndHead`); the tail is at the oldest one but while the consumer is
  about to free it (`TailPlace`); and the room found for the next message stays
  free until it is stored, since meanwhile only the consumer moves (`RoomFound`).
  With the head not behind the tail the code does not test for room; the room behind
  every offset is enough for the message, and the head comes round to the tail only
  where `lapped` notes it.
- **`PeerInv`.**  An operation that TCP still owes has its flag set and its token
  not yet set, and a connect token belongs to a slot that is connecting
  (`SlotOK`); so a slot whose flags are clear owes nothing.

Only model-checked: `EpochEnds` and `ClosingEnds`.

## 6. The tables and accounts of a node

The run `node_state` checks ten small systems, each alone.

**Tables.**  Operations of the code are single actions, with the bytes abstracted
and the hash functions constants (`PovHome`, `KeyHome`, `EntityHome`,
`HolderHome`) that are chosen to collide and to wrap around at the end of the
array.  Every table implements an abstract one:

| Module | Implements | Under |
|---|---|---|
| `Collection` | `PriorityQueues`: a sequence per point of view, by priority and age | insertion into full and empty queues, removal from trees, rebuilding of a tree, cleanup of removed points of view |
| `HashMap` | `PartialMap` | colliding keys, marks of removed keys, cleanup, a full table |
| `Spectrum` | `Ledger`: balances, and what was taken from balances and not given back yet; and only the source of a transaction or bid is debited (`PaidBySource`) | transfers to new and to emptied entities, reorganisation of a full table, the burning of dust, IPO bids and their refunds |
| `PendingTxsPool` | `PendingPool`: the best transactions of each tick in the window | displacement by priority in a full tick, saved transactions read back, the window moving around the ring |
| `Assets` | `ShareRegister`: who possesses how many shares under whose management | issuance, transfers between owners, possessors and managing contracts, the lists of a record, the end of an epoch |

`TablesConsistent` says what each table keeps beyond that: the first and last
elements that are stored are those of the tree, a key is in one slot only, the
totals of the spectrum are those of its entities, a search for one ends at it and
a bid is paid by its bidder unless its credit has reorganised the table (`PaidUnlessMoved`), a pooled transaction is where its priority says, and the
records of the universe are in the lists of their issuer, owner and possessor
once.

**Accounts** (`EpochAccounted`).

| System | Says |
|---|---|
| miners (`MinerRanking`) | a miner has points for its good solutions only, the best get the seats of the next epoch, the node's own computors lose no deposit, who stays keeps its index |
| votes (`EpochAccounting`) | a vote is counted at most once by every other leader and never by the voter; a faulty leader adds no more than the number of computors each time it leads |
| shares | a share of custom mining is counted at most once by every computor but its own |
| fees | reports processed together are of one phase, and the fee is not above what the contract took on the node of an honest computor |
| issuance | an epoch issues its rate to the unit, or nothing when that would pass the maximal supply |

Bounds: tables of four slots (eight for the universe) with colliding homes, so
that every scan wraps around and every table fills up; four miners for three
seats, with two seeds of mining and time to publish a failed solution again; four computors, one of them faulty, with votes of ten ticks; one epoch.
The systems may come to an end, so deadlock is not checked.  There is no
liveness here: each operation runs to its end under its lock.

### 6.1 Proofs

`TablesProofs` proves, for arrays of any size and any keys, values and hash
function:

| Theorem | Statement |
|---|---|
| `HashMapInvariance` | `HashMapSpec => []HashMapInv` |
| `KeysFoundOnce` | `HashMapSpec => []KeysOnce`: a key is in at most one slot |
| `HashMapIsMap` | `HashMapSpec => ImplementsMap`: every step is one of `PartialMap` on what a search finds |
| `RoomIsFound` | while the map is not full, the search for a free slot finds one for every key, marked slots included |

and, for a ring of any number of ticks, any limit of transactions per tick and any
priorities:

| Theorem | Statement |
|---|---|
| `PoolInvariance` | `PoolSpec => []PoolInv` |
| `TransactionsInPlace` | `PoolSpec => []PoolConsistent`: slots and queue of a tick agree, every transaction is under its tick, and the count of later ones is right |
| `PoolKeepsBest` | `PoolSpec => ImplementsPool`: every step offers one transaction, moves the window or restarts it as `PendingPool` says |

`HashMapInv`, which the run checks too, says that every occupied slot is reached
from the home of its key past slots that are not empty, those marked as removed
included (`KeysReached`); that no two slots hold the same key; and that the
population is the number of occupied slots.  A removal that emptied its slot
instead of marking it would break the first: the keys behind it could no longer
be found, and an insertion would store them twice.  A cleanup builds the array
anew, one slot after the other; what the recursive function `Cleaned` holds after
every slot is shown by induction up to the size of the array (`BoundedInduction`),
with the same invariant for what has been inserted so far.

`PoolInv`, which the run checks too, says of every index of the ring that its
transactions are distinct and belong to the tick the index now stands for
(`IndexInPlace`), and that its queue has their slots, each once, with the highest
priority first (`QueueInOrder`).  Both are needed for `PoolKeepsBest`: that the
last of the queue is one of lowest priority follows from the order, and that a
displaced transaction leaves no second entry from the slots being named once.  The
lemmas `IndexIs` and `IndicesFrom` hold the arithmetic of the ring: an index stands
for exactly one tick of the window, the ticks that stay keep theirs when the
beginning moves, and `Discarded` empties exactly those of the ticks that go.
`TotalNumberOfPendingTxs` sums over the indices behind a tick, in one piece or in
two around the end of the ring; `SummedRenamed` turns it into the sum over the
later ticks.

`SpectrumProofs` proves, for any even capacity, hash function, genesis, amounts and
prices, when the genesis leaves a slot free:

| Theorem | Statement |
|---|---|
| `SpectrumInvariance` | `SpectrumSpec => []SpectrumInv` |
| `TotalsCounted` | `SpectrumSpec => []SpectrumCounted`: both totals are those of the table, and it never fills up, so that every search ends |
| `SpectrumIsLedger` | `SpectrumSpec => ImplementsLedger`: every step debits, credits or changes no balance, only dust is burned, and nobody pays for another unless the credit of a bid has reorganised the table |
| `BidsPaidByBidders` | `SpectrumSpec => []PaidUnlessMoved`: the slot a bid debits is that of its bidder, with the same exception |

`SpectrumInv`, which the run checks too, has these parts:

- `TableOK`: a search for the key of a used slot ends there, and a free slot has no
  balance.  This is what makes the table a function from entities to balances.
- `SpectrumCounted`, and that the table and what is held have no more than the
  genesis: without it the totals could not be bounded, which a step of the ledger
  needs.
- `JobOK`, `BidsOK`: the bids are sorted, so that the last is the lowest and the
  count of bids that are not lower is a place; a free place has price 0; refunds
  are empty before a bid begins, which is what makes `NoRefunds` at its payment no
  loss.
- `BidderKnown`: between the debit and the bid of a transaction the slot remains
  that of the source, unless the credit has reorganised the table.  The history field
  `moved` of a transaction says that it has; the run `stale_bidder` shows what then
  happens.

The argument goes over the records of a table, whatever their slots (`Records`):
the sum of balances and the number of entities are those of the records
(`CountedByRecords`), and so is the balance that a search finds (`BalanceByRecords`).
Inserting a list of entities with different keys one after the other into an empty
table gives a table with just these records (`FilledIs`, by `BoundedInduction` on
the recursive function in `Filled`), therefore reorganising changes none
(`ReorganizingKeeps`), and the genesis is one such list (`GenesisIs`).  `DustIs` shows
for the thresholds of `updateAndAnalzeEntityCategoryPopulations` that less than half
of the slots keep a balance: in the general case because the categories above the
limit have fewer, in the corner case, where all are in one category, because every
second one goes, the first included (`EverySecond`).  Hence after burning there is
room for the credit (`HalfIs`), and a table that was not full enough to burn has
room anyway.  An offer of a share inserts one bid and drops the last
(`Moved`, `SummedShift`), so that bids and refunds together grow by its price; the
sale at the end splits what was bid by entity (`BeyondIsRefunded`).

The balance of an entity is one number in the model, `incomingAmount` less
`outgoingAmount` in the code.

`TablesProofs` proves the ranking of miners, for any computors of the first epoch,
solutions, own computors, limits and phases of mining:

| Theorem | Statement |
|---|---|
| `MiningInvariance` | `MiningSpec => [](MiningInv /\ BestAreSeated /\ PointsAreSolutions)` |

The other two properties of miners, `NoDepositLost` and `IndicesStable`, are parts of
`MiningInv`, which the run checks too.  Its further parts:

- `Ranked`: nobody is in the ranking twice, its first entries are the computors, and
  computors and candidates are each in the order of their points.  An entry that
  gains a point climbs past those that are worse, not past the first candidate
  (`ClimbedIs`).
- `SeatsWon`: the future computors are those at the top of the ranking and the winners
  of the last competition, who are distinct; no competitor left out has more points than
  a winner, and a computor left out has fewer than a candidate that won.
  The competition is a recursive function, one candidate after the other, and
  `BestFirst` is what holds after each: the entries so far are a permutation of the
  contestants in the order of points, and at equal points in their order before it,
  so that a computor keeps its seat against an equal.
- `Earned`: an entry has at most as many points as its miner has processed good
  solutions; a solution processed twice gives no second point (`MeritsAdd`).
- `OwnKept` and `OwnPlanned` make `NoDepositLost` inductive.  A transaction of an own
  computor that can still be processed is for a solution that was not processed, is
  in the node's list with this tick, and for the seed that is valid until then:
  `InTimeNoReset` is the arithmetic of the test before publication, `CycleTicks` that
  of the phases.  A solution is published again only after its tick, so that never
  two transactions of it can both be processed, and the second would lose its deposit.
- `IndicesStable` follows from `StableIs`: the computors that stay keep their index, and
  the n-th new one gets the n-th index that is left, which is a bijection because both
  sets have as many elements (`Ranks`).

`NodeStateProofs` proves the other accounts, for any number of computors, any faulty
leaders, times, scores and donations, and with them and the miners the composition:

| Theorem | Statement |
|---|---|
| `VoteInvariance` | `VoteSpec => []VoteInv` |
| `ShareInvariance` | `ShareSpec => []ShareInv` |
| `FeeInvariance` | `FeeSpec => [](FeeInv /\ FeesBacked)` |
| `IssuanceInvariance` | `IssuanceSpec => []IssuanceInv` |
| `EpochIsAccounted` | `Spec => []EpochAccounted`, `Spec` of `MCNodeState` |

Each account keeps a counter of what is already reported and a window of what is
not, and the invariants say where everything between is:

- `VoteInv`: a leader's count, its packet on the way and the votes its next packet
  will find in the ring add up to no more than the votes cast.  Two packets of a
  leader are `NumberOfComputors` ticks apart, which is the window of a packet: with
  a longer one, or a packet that is made twice, votes would be counted twice.
- `ShareInv`: what is counted, in the two ticks that are on their way, ready to be
  sent, and still in the counter of the phase (`Awaited`: for the packets that are
  not prepared yet, since they are prepared one after the other and shares may
  arrive in between).  A packet moves from one place to the
  next; the flag `isBroadcasted` is what keeps it from being in two.
- `FeeInv`: reports of one phase reach the collector between two processing ticks,
  and in the tick between publication and processing an honest report is that of
  the phase just measured.  The quorum value of the reports has at least
  `NumberOfComputors - QuorumIndex` reports that are not lower (`QuorumValueBacked`),
  one of them honest.
- `IssuanceInv`: the divisions of `computeRevenue()` never give more than the share
  of a computor (`RevenueBounded`), each donation splits what is left without loss
  (`DonateSplits`), so that the parts add up to the rate (`PaidExactly`).

The collection and the universe are only model-checked; see section 8.

## 7. The contracts

The run `contracts` takes each contract on a small instance under every sequence
of calls of two or three accounts, of the callbacks of the node, and of the
beginning and end of epochs.  `Qpi` models what the contracts use of the node.  A
procedure is one action: the execution engine runs procedures one at a time
(section 4).

| Contract | Hard part | Properties |
|---|---|---|
| Qx | an order lives in two collections and is matched, changed and removed in both | bids are covered, asks can be delivered, the two queues agree |
| Qearn | rounds share one array that is compacted; early unlock, bonus and burning | locked money is covered, ranges of rounds hold their lockers |
| MsVault | a release happens with the request that makes enough owners agree | requests are of owners and pending, shares are covered |
| Qswap | liquidity, swaps and fees with rounding | shares and qus of a pool are held, liquidity adds up, a pool is never drained (`PoolsNotDrained`) |
| Quottery | bets are settled, cancelled and removed; slots are reused | bets are covered, slots and options agree |
| QBond | stakes of an epoch become bonds that Qearn backs | bonds and stakes agree, offers are held |
| QRaffle | members, entries and token raffles of an epoch | pots are covered, shares are held, counters agree |
| Nostromo | three phases of a sale, votes, tiers, vesting | investments are covered, tokens suffice |
| RandomLottery, Qdraw, QDuel | tickets, pots, rooms whose stakes go on | each pot is covered, rooms match users |
| QUtil | polls; helpers that pass on what they are paid | nothing is kept, voters are stored together |
| GeneralQuorumProposal, ComputorControlledFund (`ProposalContracts`, with `ProposalVoting`) | proposals replaced or cleared while votes come in; donations; subscriptions | a vote is for what its voter saw, donations are sorted and go where they were decided (`DoneesKept`), payments are on schedule |

`MoneyCovered`, `RecordsAgree` and `SharesDeliverable` are the conjunctions of
these, each under the contract it belongs to.  Fees are small numbers with the
code's rounding; random numbers are a free choice.  Accounts that call are two or
three, money is a handful of qus, and epochs and ticks end at the bounds in
`contracts.cfg`; the calls that end a contract's life (the end of a round, of a
bet, of a raffle) are within them.

GeneralQuorumProposal and ComputorControlledFund are the only contracts with
proposals here; the voting of others uses the same code.  What of each contract is left out is in sections 9 and 10.

### 7.1 Proofs

`QswapProofs` proves, for any number of accounts and assets and any amounts:

| Theorem | Statement |
|---|---|
| `SwapInvariance` | `SwapSpec => []SwapInv` |
| `PoolsCovered` | `SwapSpec => []SwapSolvent`: the contract holds the qus of all pools and the fees it has yet to pay |
| `PoolsBacked` | `SwapSpec => []PoolSharesHeld`: it holds the shares of every pool |
| `LiquidityIsProvided` | `SwapSpec => []LiquidityAdds`: a pool's liquidity is the sum of its providers', and a pool with liquidity has reserves of both kinds |
| `ProvidersKeepValue` | `SwapSpec => PoolsNotDrained`: in relation to the square of the liquidity, no step makes the product of a pool's reserves smaller |

The parts of `MoneyCovered`, `RecordsAgree` and `SharesDeliverable` that are
about Qswap are these invariants; `RecordsAgree` has the run check `SwapInv`
whole.  The assumptions are in `SwapAssumption`: the shares of a fee add up to at
most 100 percent, the swap fee is below its base, and the first provider leaves
`MinLiquidity > 0` to the contract.  `SwapSpec` allows any starting balance of the
contract, which others may have paid to it.

`SwapInv` adds to the properties the types and `LiquidityStays`: there is no
liquidity without a pool, and `MinLiquidity` of a traded pool stays with the
contract for ever, so that a pool is never emptied.  `ProvidersKeepValue` is arithmetic: in each of
the four swaps the rounding of the fee and of the price are against the trader,
which the lemmas `OutFeeFromInKept` to `InFeeFromOutKept` bring to one form,
`b * (q * s) <= d * y` with `d <= b * x` for reserves `q`, `s` before and `x`, `y`
after; adding and removing liquidity leave `q * u <= x * t` for liquidity `t`
before and `u` after (`RelationKept`).  The conditions on balances follow from
`SummedChange`, `SummedMove` and their like in `SumTheorems`.

The other contracts are only model-checked.

## 8. What is proved and what is only checked

The theorems of sections 3.4, 4.3, 5.6, 6.1 and 7.1 hold for every value of the
constants that the named assumptions allow.  For the rest TLC is the only check:

- **Liveness** (`Progress`, `WriterServed`, `EpochEnds`, `ClosingEnds`): fairness
  is stated with `WF` and `SF`, which contain `ENABLED`; the prover does not
  reason about it.
- **Sums over other tables.**  That money is covered, shares are conserved or
  votes are counted once is said with sums.  The induction theorems of the
  library take an operator as parameter, which the provers cannot instantiate;
  `SumTheorems` does without them, by well-founded induction on a set of numbers,
  and `QswapProofs`, `SpectrumProofs` and `NodeStateProofs` use what follows.  The
  contracts but Qswap and `ImplementsRegister` could be treated in this way and
  have not been.
- **Trees and lists** (`ImplementsQueues`, the lists of
  `UniverseConsistent`, `DoneesKept`): each needs what a recursive function or a
  fold over a sequence holds after every step.  `TablesProofs` shows the way for
  `Cleaned`; for these it has not been done.
- **Compositions** (`TablesConsistent`, `MoneyCovered`, `RecordsAgree`,
  `SharesDeliverable`): they are conjunctions over components, not all of which are
  proved.  `MCContracts` also reaches a `RECURSIVE` operator (in `QUtil`), in whose
  presence the prover loses its SMT backend.  What is proved of them is proved of
  the component alone.  `ThreadsInv` and `EpochAccounted` are proved of the
  compositions themselves.

Next to be proved, in this order: the solvency of the contracts whose debts are
sums over one table (QBond, Quottery); `ImplementsRegister`.

## 9. Disagreements and observations

### 9.1 Runs that end in a violation

- `forced_expectation`: the comment of `tryForceEmptyNextTick()` says that
  `expectedNextTickTransactionDigest` will be zero after a forced empty tick; it
  keeps the digest of the stored tick data (`qubic.cpp:5256`).
- `callee_digest`: `__qpiReleaseStateForWriting(contractIndex)` sets the change
  flag of the calling contract, not of `contractIndex`
  (`contract_exec.h:662`).  A state changed by an invoked procedure keeps its old
  digest until the contract's own procedure runs, or until a restart, which
  recomputes all of them.
- `callback_deadlock`: a callback started by `distributeDividends()` waits for
  a write lock while `universeLock` is held; a function that holds the read lock
  and asks for `universeLock` is not stopped, although the comment in
  `__qpiAcquireStateForReading()` says that such deadlocks are resolved by
  stopping the function.
- `stale_bidder`: a transaction looks up its source's slot (`qubic.cpp:3002`), and
  the credit of its destination (3012) burns dust and reorganises a table that is
  three quarters full.  `bidInContractIPO()` then gets the old slot (3126): its
  `ASSERT(spectrumIndex == ::spectrumIndex(sourcePublicKey))` (`ipo.h:27`) fails,
  and without assertions another entity pays or the bid is dropped.

### 9.2 Observations without a run

Seen in the code, or in behaviours of which a property promises nothing:

- Message queues: with more than the buffer less the largest message queued,
  the head comes round to the tail and the test for room passes; messages that
  wait are overwritten (`lapped` in `MessageQueue`).  On a node that is about 992
  of 1024 MiB of requests.
- Snapshots: the comment at `qubic.cpp:4268-4270` relies on metadata being
  invalidated first, but `removeDir()` before it may leave valid metadata with
  other files already gone; with the transaction status add-on (off by default,
  `public_settings.h:84`) one more file follows the metadata; and a request made
  between the end of a save and the tick processor's next look is taken for the
  old one (`qubic.cpp:8195`).  In each case a node that starts from what is left has
  parts of its state from different ticks (`astray` in `NodeSnapshot`).
- A callback for a contract in an error state makes its caller loop without end;
  an asset operation in a callback of `distributeDividends()` waits for
  `universeLock`, which its own thread holds.
- `doc/execution_fees.md:52` says that `CALL_OTHER_CONTRACT_FUNCTION` checks the
  fee reserve of the callee; the code checks `contractError` only.
- Vote counter: the window is 675 ticks, and an honest packet with just a quorum
  of votes for every computor, the leader's own included, fails the test for
  675 * 451 (`vote_counter.h:99-103`).
- Execution fees: the comment at `qubic.cpp:3500` says that computor N - 1 makes
  the last report of a phase; the report is accepted from the leader of the tick
  it is included in, computor `TICK_TRANSACTIONS_PUBLICATION_OFFSET - 1`
  (`execution_fee_report_collector.h:65`).
- An AUX node that reprocesses solutions counts `minerScores` twice and returns
  the deposit of a duplicate (`qubic.cpp:5290-5365`, `5648-5653`).
- ComputorControlledFund burns the whole payment after it has refunded the excess
  (`ComputorControlledFund.h:155-159`), and a subscription whose last payment
  failed keeps its slot.
- Quottery marks `mIsOccupied` at the number of the bet and not of its slot
  (`Quottery.h:981`), and removes bets with `endTick < tick + 100`, where the
  comment says that they have ended more than 100 ticks ago (`Quottery.h:481`).
- Nostromo's refunds at the end of an epoch use the position in the list of the
  investor as index of the fundraising (`Nostromo.h:1429`); with one fundraising
  they agree.
- RandomLottery drops tickets that are not drawn when the epoch ends.
- QUtil's `Vote` keeps a reward that is too small (`QUtil.h:1059`).
- Qearn leaves one slot vacant between the ranges of rounds; QDuel's
  `failedGetWinner` cannot be reached; an initial supply of liquidity to Qswap
  does not test the capacity of the table.

## 10. What is not modelled

- **Components**: virtual memory and common buffers (caches over files), logging,
  HTTP and command line (I/O), oracles (stubs), cryptography (perfect in the
  models), the contract action tracker and the stack buffers (sequential
  containers; an allocation may fail in `ContractExec`).
- **Consensus**: the reprocessing of solutions by an AUX node, a change of the
  mode of a node, F7, security ticks other than every tick, read-only requests
  and special commands.
- **Tables**: digests, files and network messages; `HashSet` and `LinkedList`.
- **Accounts**: the mining kernels, the packing of reports and the measurement of
  time; `MinerRanking` follows a main node, `EpochAccounting` one node with all
  computors.
- **Contracts**: Qbay, qRWA, QThirtyFour, QReservePool, QVAULT, QIP,
  MyLastMatch, SupplyWatcher and Random; view functions, logs and histories; the transfer of management
  rights in QRaffle and Nostromo; `POST_INCOMING_TRANSFER` of RandomLottery;
  `SetInvestRewardsInfo` of Qswap; the statistics of stakers in QBond; the
  solvency of MsVault (its error paths refund after the fee was counted); more
  than one fundraising and five tiers, and vesting times that do not divide, in
  Nostromo; a failed issue of its token; the logs and the 32-bit sums of
  ComputorControlledFund; illegal inputs of QUtil.

## 11. Running it

    tlc -workers 2 -config byzantine_votes.cfg MCTickConsensus
    tlc -workers 2 -config contract_locks.cfg ContractExec
    tlc -workers 2 -config node_threads.cfg MCNodeThreads
    tlc -workers 2 -config node_state.cfg MCNodeState
    tlc -workers 2 -config contracts.cfg MCContracts
    tlapm TickConsensusProofs.tla
    tlapm ContractExecProofs.tla
    tlapm NodeThreadsProofs.tla
    tlapm SumTheorems.tla
    tlapm TablesProofs.tla
    tlapm SpectrumProofs.tla
    tlapm NodeStateProofs.tla
    tlapm QswapProofs.tla

The longest runs are `contracts`, `node_threads`, `node_state`, `byzantine_leader` and
`contract_locks`, one to three minutes with two workers; the proofs of a module
take a few minutes, those of `TablesProofs` about ten.  Every property of a passing run has a mutant in
`PROJECT.json`: a plausible mistake in one definition, often named "Mutant" in
the modules, under which TLC finds the property violated.

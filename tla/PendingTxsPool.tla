---------------------------- MODULE PendingTxsPool -----------------------------
(***************************************************************************)
(* The pool of pending transactions.  Request processors add what they     *)
(* receive, the tick processor takes the transactions of the next ticks    *)
(* and moves the window, and an epoch or a snapshot restarts it.  The      *)
(* slots of a tick are at a ring index; a priority queue per ring index    *)
(* says which of them is replaced when the tick is full.  Each operation   *)
(* runs under the lock of the pool.                                        *)
(***************************************************************************)
EXTENDS Integers, Sequences, FiniteSetsExt

CONSTANTS
  PoolTx,        \* transactions
  TxTick,        \* the tick each is scheduled for
  TxPriority,    \* the priorities that balances may give
  PoolTicks,     \* PENDING_TXS_POOL_NUM_TICKS
  MaxTxsPerTick, \* maxNumTxsPerTick
  MaxPoolTick    \* bound: the last tick the window may begin at

ASSUME PoolAssumption ==
  /\ PoolTicks \in Nat \ {0} /\ MaxTxsPerTick \in Nat \ {0} /\ MaxPoolTick \in Nat
  /\ TxTick \in [PoolTx -> Nat] /\ TxPriority \subseteq Int

VARIABLES
  firstStoredTick,
  buffersBeginIndex,
  tickTransactions,  \* ring index -> the transactions that are saved, numSavedTxsPerTick of them
  txsPriorities      \* ring index -> queue of [slot, priority], highest priority first

poolVars == <<firstStoredTick, buffersBeginIndex, tickTransactions, txsPriorities>>

RingIndex == 0 .. PoolTicks - 1

TickInStorage(t) == t >= firstStoredTick /\ t < firstStoredTick + PoolTicks
TickToIndex(t)   == ((t - firstStoredTick) + buffersBeginIndex) % PoolTicks

Saved(i) == Len(tickTransactions[i])
numSavedTxsPerTick == [i \in RingIndex |-> Saved(i)]

\* Collection.add: behind those of the same priority.
Enqueued(q, x) ==
  LET n == Cardinality({j \in DOMAIN q : q[j].priority >= x.priority})
  IN SubSeq(q, 1, n) \o <<x>> \o SubSeq(q, n + 1, Len(q))

AddToFreeSlot(i, tx, p) ==
  /\ Saved(i) < MaxTxsPerTick
  /\ tickTransactions' = [tickTransactions EXCEPT ![i] = Append(@, tx)]
  /\ txsPriorities' =
       [txsPriorities EXCEPT ![i] = Enqueued(@, [slot |-> Saved(i) + 1, priority |-> p])]

\* Mutant: the replaced transaction keeps its entry in the queue.
ReplaceLowestKeepingPriority(i, tx, p) ==
  LET q == txsPriorities[i] low == q[Len(q)] IN
  /\ Saved(i) >= MaxTxsPerTick
  /\ q # << >> /\ low.priority < p
  /\ tickTransactions' = [tickTransactions EXCEPT ![i][low.slot] = tx]
  /\ UNCHANGED txsPriorities

ReplaceLowest(i, tx, p) ==
  LET q == txsPriorities[i] low == q[Len(q)] IN
  /\ Saved(i) >= MaxTxsPerTick
  /\ q # << >> /\ low.priority < p
  /\ tickTransactions' = [tickTransactions EXCEPT ![i][low.slot] = tx]
  /\ txsPriorities' =
       [txsPriorities EXCEPT ![i] =
          Enqueued(SubSeq(q, 1, Len(q) - 1), [slot |-> low.slot, priority |-> p])]

\* add: a known digest and a priority of zero (no balance) are refused.
AddTx ==
  \E tx \in PoolTx, p \in TxPriority :
    LET i == TickToIndex(TxTick[tx]) IN
    /\ TickInStorage(TxTick[tx])
    /\ \A n \in 1 .. Saved(i) : tickTransactions[i][n] # tx
    /\ p > 0
    /\ AddToFreeSlot(i, tx, p) \/ ReplaceLowest(i, tx, p)
    /\ UNCHANGED <<firstStoredTick, buffersBeginIndex>>

\* The indices in S are emptied; cleanupTxsPriorities for each of them.
Emptied(f, S) == [i \in RingIndex |-> IF i \in S THEN << >> ELSE f[i]]

IncrementFirstStoredTick ==
  /\ firstStoredTick < MaxPoolTick
  /\ tickTransactions' = Emptied(tickTransactions, {buffersBeginIndex})
  /\ txsPriorities' = Emptied(txsPriorities, {TickToIndex(firstStoredTick)})
  /\ firstStoredTick' = firstStoredTick + 1
  /\ buffersBeginIndex' = (buffersBeginIndex + 1) % PoolTicks

\* The ring indices of the ticks before newIndex.
Discarded(newIndex) ==
  IF newIndex < buffersBeginIndex
  THEN (0 .. newIndex - 1) \cup (buffersBeginIndex .. PoolTicks - 1)
  ELSE buffersBeginIndex .. newIndex - 1

\* beginEpoch, also after a snapshot has been loaded.
BeginPoolEpoch ==
  \E newInitialTick \in 0 .. MaxPoolTick :
    LET newIndex == TickToIndex(newInitialTick)
        gone == IF TickInStorage(newInitialTick) THEN Discarded(newIndex) ELSE RingIndex
    IN
    /\ tickTransactions' = Emptied(tickTransactions, gone)
    /\ txsPriorities' = Emptied(txsPriorities, gone)
    /\ buffersBeginIndex' = IF TickInStorage(newInitialTick) THEN newIndex ELSE 0
    /\ firstStoredTick' = newInitialTick

PoolInit ==
  /\ firstStoredTick = 0
  /\ buffersBeginIndex = 0
  /\ tickTransactions = [i \in RingIndex |-> << >>]
  /\ txsPriorities = [i \in RingIndex |-> << >>]

PoolNext == AddTx \/ IncrementFirstStoredTick \/ BeginPoolEpoch

PoolSpec == PoolInit /\ [][PoolNext]_poolVars

\* getTotalNumberOfPendingTxs
TotalNumberOfPendingTxs(t) ==
  LET start == TickToIndex(t + 1)
      later == IF start < buffersBeginIndex THEN start .. buffersBeginIndex - 1
               ELSE (start .. PoolTicks - 1) \cup (0 .. buffersBeginIndex - 1)
  IN IF TickInStorage(t + 1) THEN MapThenSumSet(LAMBDA i : numSavedTxsPerTick[i], later) ELSE 0

(***************************************************************************)
(* Properties                                                              *)
(***************************************************************************)

PoolTypeOK ==
  /\ firstStoredTick \in Nat
  /\ buffersBeginIndex \in RingIndex
  /\ \A i \in RingIndex : Saved(i) <= MaxTxsPerTick

Window == firstStoredTick .. firstStoredTick + PoolTicks - 1

Kept == [t \in Window |->
           {[tx |-> tickTransactions[TickToIndex(t)][e.slot], priority |-> e.priority] :
              e \in {txsPriorities[TickToIndex(t)][n] :
                       n \in DOMAIN txsPriorities[TickToIndex(t)]}}]

Promise == INSTANCE PendingPool WITH TickLimit <- MaxTxsPerTick, window <- Window, pending <- Kept

\* A full tick keeps the transactions of highest priority and loses one only to a better
\* one, and moving the window touches no tick that stays in it, wherever its index is in
\* the ring (PendingTxsPool::add, incrementFirstStoredTick, beginEpoch).
ImplementsPool == [][UNCHANGED poolVars \/ Promise!PoolStep]_<<Window, Kept>>

\* The queue of a tick names each of its slots once, every transaction is stored under its
\* own tick (checkStateConsistencyWithAssert), and the number of later transactions that is
\* shown is the number of those stored.
PoolConsistent ==
  /\ \A t \in Window :
       LET i == TickToIndex(t) q == txsPriorities[i] IN
       /\ Len(q) = Saved(i)
       /\ {q[n].slot : n \in DOMAIN q} = 1 .. Saved(i)
       /\ \A n \in 1 .. Saved(i) : TxTick[tickTransactions[i][n]] = t
  /\ LET count == [u \in Window |-> Cardinality(Kept[u])]
     IN \A t \in Window :
          TotalNumberOfPendingTxs(t) = MapThenSumSet(LAMBDA u : count[u], {u \in Window : u > t})

-----------------------------------------------------------------------------
(* The inductive invariant of the proofs.                                   *)

PoolEntry == [slot : Nat, priority : TxPriority]

\* An index stores each of its transactions once, and they are those of its tick.
IndexInPlace(i) ==
  LET txs == tickTransactions[i] IN
  /\ \A m, n \in DOMAIN txs : txs[m] = txs[n] => m = n
  /\ \A n \in DOMAIN txs : TickInStorage(TxTick[txs[n]]) /\ TickToIndex(TxTick[txs[n]]) = i

\* Its queue has the highest priority first and names each of its slots once.
QueueInOrder(i) ==
  LET q == txsPriorities[i] IN
  /\ Len(q) = Saved(i)
  /\ \A n \in DOMAIN q : q[n].slot \in 1 .. Saved(i)
  /\ \A s \in 1 .. Saved(i) : \E n \in DOMAIN q : q[n].slot = s
  /\ \A m, n \in DOMAIN q : q[m].slot = q[n].slot => m = n
  /\ \A m, n \in DOMAIN q : m <= n => q[m].priority >= q[n].priority

PoolInv ==
  /\ PoolTypeOK
  /\ tickTransactions \in [RingIndex -> Seq(PoolTx)]
  /\ txsPriorities \in [RingIndex -> Seq(PoolEntry)]
  /\ \A i \in RingIndex : IndexInPlace(i) /\ QueueInOrder(i)
===============================================================================

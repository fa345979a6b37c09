----------------------------- MODULE ReadWriteLock -----------------------------
(***************************************************************************)
(* class ReadWriteLock: a lock for many readers or one writer, built from  *)
(* two counters that are changed by atomic operations.  Each access to a   *)
(* counter is a step, so other threads act between the test of             *)
(* writersWaiting, the read of readers and the compare-and-exchange.       *)
(***************************************************************************)
EXTENDS Integers, FiniteSets

CONSTANT LockThread   \* the threads that use the lock

ASSUME LockThreadAssumption == IsFiniteSet(LockThread)

VARIABLES
  readers,         \* number of readers, -1 for a writer
  writersWaiting,
  lockPc,          \* what a thread is doing
  currentReaders   \* local variable of tryAcquireRead()

lockVars == <<readers, writersWaiting, lockPc, currentReaders>>

\* "wantRead" is before the test of writersWaiting, "tested" after it,
\* "swapping" before the compare-and-exchange; "announced" is a writer counted
\* in writersWaiting, "granted" one that has the lock and is still counted.
LockPlace == {"idle", "wantRead", "tested", "swapping", "reading",
              "wantWrite", "announced", "granted", "writing"}

LockTypeOK ==
  /\ readers \in Int
  /\ writersWaiting \in Int
  /\ lockPc \in [LockThread -> LockPlace]
  /\ currentReaders \in [LockThread -> Int]

\* reset()
LockInit ==
  /\ readers = 0
  /\ writersWaiting = 0
  /\ lockPc = [t \in LockThread |-> "idle"]
  /\ currentReaders = [t \in LockThread |-> 0]

At(t, place)  == lockPc[t] = place
GoTo(t, place) == lockPc' = [lockPc EXCEPT ![t] = place]

\* acquireRead() or acquireWrite() is called.
Call(t) ==
  /\ At(t, "idle")
  /\ GoTo(t, "wantRead") \/ GoTo(t, "wantWrite")
  /\ UNCHANGED <<readers, writersWaiting, currentReaders>>

\* Readers do not go on while a writer waits.
TestWaiting(t) ==
  /\ At(t, "wantRead") /\ writersWaiting = 0
  /\ GoTo(t, "tested")
  /\ UNCHANGED <<readers, writersWaiting, currentReaders>>

\* Behind a writer tryAcquireRead() fails and acquireRead() calls it again.
ReadReaders(t) ==
  /\ At(t, "tested")
  /\ IF readers < 0
     THEN GoTo(t, "wantRead") /\ UNCHANGED currentReaders
     ELSE GoTo(t, "swapping") /\ currentReaders' = [currentReaders EXCEPT ![t] = readers]
  /\ UNCHANGED <<readers, writersWaiting>>

\* Mutant: the counter is stored without comparing it.
StoreReaders(t) ==
  /\ At(t, "swapping")
  /\ GoTo(t, "reading")
  /\ readers' = currentReaders[t] + 1
  /\ UNCHANGED <<writersWaiting, currentReaders>>

\* _InterlockedCompareExchange; when it fails the loop reads readers again.
SwapReaders(t) ==
  /\ At(t, "swapping")
  /\ IF readers = currentReaders[t]
     THEN GoTo(t, "reading") /\ readers' = readers + 1
     ELSE GoTo(t, "tested") /\ UNCHANGED readers
  /\ UNCHANGED <<writersWaiting, currentReaders>>

ReleaseRead(t) ==
  /\ At(t, "reading")
  /\ GoTo(t, "idle")
  /\ readers' = readers - 1
  /\ UNCHANGED <<writersWaiting, currentReaders>>

Announce(t) ==
  /\ At(t, "wantWrite")
  /\ GoTo(t, "announced")
  /\ writersWaiting' = writersWaiting + 1
  /\ UNCHANGED <<readers, currentReaders>>

\* tryAcquireWrite() succeeds.
TakeWrite(t) ==
  /\ At(t, "announced") /\ readers = 0
  /\ GoTo(t, "granted")
  /\ readers' = -1
  /\ UNCHANGED <<writersWaiting, currentReaders>>

EndWaiting(t) ==
  /\ At(t, "granted")
  /\ GoTo(t, "writing")
  /\ writersWaiting' = writersWaiting - 1
  /\ UNCHANGED <<readers, currentReaders>>

ReleaseWrite(t) ==
  /\ At(t, "writing")
  /\ GoTo(t, "idle")
  /\ readers' = 0
  /\ UNCHANGED <<writersWaiting, currentReaders>>

LockStep(t) ==
  \/ Call(t)
  \/ TestWaiting(t)
  \/ ReadReaders(t)
  \/ SwapReaders(t)
  \/ ReleaseRead(t)
  \/ Announce(t)
  \/ TakeWrite(t)
  \/ EndWaiting(t)
  \/ ReleaseWrite(t)

LockNext == \E t \in LockThread : LockStep(t)

LockSpec == LockInit /\ [][LockNext]_lockVars

-----------------------------------------------------------------------------
(* The lock implements SharedLock.                                         *)

Reading == {t \in LockThread : lockPc[t] = "reading"}
Writing == {t \in LockThread : lockPc[t] \in {"granted", "writing"}}

\* What a thread holds, from its place in the code.
LockHolds ==
  [t \in LockThread |-> IF t \in Reading THEN "read"
                        ELSE IF t \in Writing THEN "write" ELSE "nothing"]

Shared == INSTANCE SharedLock WITH Thread <- LockThread, holds <- LockHolds

\* The counter says who holds the lock.
LockInv ==
  /\ LockTypeOK
  /\ \/ Writing = {} /\ readers = Cardinality(Reading)
     \/ Reading = {} /\ readers = -1 /\ \E t \in LockThread : Writing = {t}
  /\ \A t \in LockThread : lockPc[t] = "swapping" => currentReaders[t] >= 0

\* Every step of a thread inside the lock's methods grants or gives back the
\* lock as SharedLock allows, or changes nobody's hold: readers never share the
\* lock with a writer, whatever happens between their tests and the
\* compare-and-exchange.
ImplementsSharedLock == Shared!SharedInit /\ [][UNCHANGED lockVars \/ Shared!SharedNext]_LockHolds
=============================================================================

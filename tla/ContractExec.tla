---------------------------- MODULE ContractExec ----------------------------
(***************************************************************************)
(* Locking of contract states.  One contract processor runs procedures,    *)
(* which may invoke procedures and call functions of contracts with a      *)
(* lower index, and callbacks of any contract; request processors run user *)
(* functions, which may call functions of contracts with a lower index.    *)
(* Procedures need the write lock of their contract's state and functions  *)
(* a read lock.  Callbacks break the order of the indices: a lock that the *)
(* contract processor holds already is reused, and functions that wait for *)
(* a lock while a callback runs are stopped.                               *)
(*                                                                         *)
(* The code of the contracts is arbitrary: whatever an operation of the    *)
(* contract interface allows may be called at any time.  Contract 0, which *)
(* has no code, is left out.                                               *)
(***************************************************************************)
EXTENDS Integers, Sequences, FiniteSets

CONSTANTS
  ContractCount,     \* contracts with code are 1 .. ContractCount
  RequestProcessor,  \* threads that run user functions
  LocalsStacks,      \* NUMBER_OF_CONTRACT_EXECUTION_BUFFERS
  MaxDepth,          \* bound on the nesting of procedures and functions
  Watched            \* contracts whose state changes are followed

Contract == 1 .. ContractCount

ASSUME ConstantsAssumption ==
  /\ ContractCount \in Nat \ {0}
  /\ IsFiniteSet(RequestProcessor)
  /\ LocalsStacks \in Nat \ {0, 1}
  /\ MaxDepth \in Nat \ {0}
  /\ Watched \subseteq Contract

\* ContractCallbacksRunningFlags: management rights transfer, incoming
\* transfer, shareholder proposal and voting.
CallbackFlag == {"rights", "transfer", "shareholder"}

(***************************************************************************)
(* A procedure or function that the contract processor has begun to call:  *)
(* the last frame is the one that runs.  Its lock is                       *)
(*   "reward"    not wanted yet, the invocation reward is to be paid first *)
(*   "wanted"    about to be acquired                                      *)
(*   "announced" waiting in acquireWrite(), counted in writersWaiting      *)
(*   "write", "read", "reuse"   the types of ContractRollbackInfo          *)
(*   "own"       not needed: a callback of the calling contract itself.    *)
(* A callback frame keeps the callbacks that ran before it.                *)
(***************************************************************************)
Held      == {"write", "read", "reuse", "own"}
LockState == {"reward", "wanted", "announced"} \cup Held
Frame == [contract : Contract, kind : {"procedure", "function"}, lock : LockState,
          callback : BOOLEAN, before : SUBSET CallbackFlag]

VARIABLES
  frames,            \* calls of the contract processor; empty when it is idle
  spinning,          \* why the contract processor will loop forever, or "no"
  callbacksRunning,  \* contractCallbacksRunning
  readers,           \* ReadWriteLock::readers of every contractStateLock
  writersWaiting,    \* ReadWriteLock::writersWaiting
  universeLock,      \* depth of the frame that distributes dividends, or 0
  pc,                \* what a request processor is doing
  held,              \* read locks on its locals stack, in the order of calls
  want,              \* the contract whose function it is about to call, or 0
  changed,           \* watched contracts whose digest is out of date
  flagged            \* contractStateChangeFlags

processorVars == <<frames, spinning, callbacksRunning, universeLock>>
lockVars      == <<readers, writersWaiting>>
functionVars  == <<pc, held, want>>
digestVars    == <<changed, flagged>>
vars == <<processorVars, lockVars, functionVars, digestVars>>

TypeOK ==
  /\ frames \in Seq(Frame)
  /\ spinning \in {"no", "aborted", "universe"}
  /\ callbacksRunning \subseteq CallbackFlag
  /\ readers \in [Contract -> Int]
  /\ writersWaiting \in [Contract -> Nat]
  /\ universeLock \in Nat
  /\ pc \in [RequestProcessor ->
               {"idle", "test", "lock", "failed", "run", "universe", "unwind"}]
  /\ held \in [RequestProcessor -> Seq(Contract)]
  /\ want \in [RequestProcessor -> Contract \cup {0}]
  /\ changed \subseteq Watched
  /\ flagged \subseteq Watched

\* initContractExec(): every state counts as changed.
Init ==
  /\ frames = << >>
  /\ spinning = "no"
  /\ callbacksRunning = {}
  /\ readers = [c \in Contract |-> 0]
  /\ writersWaiting = [c \in Contract |-> 0]
  /\ universeLock = 0
  /\ pc = [r \in RequestProcessor |-> "idle"]
  /\ held = [r \in RequestProcessor |-> << >>]
  /\ want = [r \in RequestProcessor |-> 0]
  /\ changed = Watched
  /\ flagged = Watched

-----------------------------------------------------------------------------
(***************************************************************************)
(* The contract processor.                                                 *)
(***************************************************************************)
Depth == Len(frames)
Top   == frames[Depth]
Below == SubSeq(frames, 1, Depth - 1)

\* The contract whose code made call i.  The reward of a callback is paid by
\* its caller: the callback itself is then still below, without its lock.
CallerOf(i) ==
  IF frames[i - 1].lock = "wanted" THEN frames[i - 2].contract ELSE frames[i - 1].contract

Call(c, kind, lock) ==
  [contract |-> c, kind |-> kind, lock |-> lock, callback |-> FALSE, before |-> {}]

CallbackOf(c, lock, before) ==
  [contract |-> c, kind |-> "procedure", lock |-> lock, callback |-> TRUE, before |-> before]

Grant(lock) == frames' = [frames EXCEPT ![Depth].lock = lock]

\* Contract code runs, and is not inside distributeDividends().
Running ==
  /\ frames # << >>
  /\ spinning = "no"
  /\ Top.lock \in Held
  /\ universeLock # Depth

\* contractProcessor() begins a system procedure, user procedure or notification.
StartProcedure(c) ==
  /\ frames = << >>
  /\ frames' = <<Call(c, "procedure", "wanted")>>
  /\ UNCHANGED <<spinning, callbacksRunning, universeLock, lockVars, functionVars, digestVars>>

\* contractProcessor() begins POST_INCOMING_TRANSFER.
StartCallback(c) ==
  /\ frames = << >>
  /\ frames' = <<CallbackOf(c, "wanted", {})>>
  /\ callbacksRunning' = {"transfer"}
  /\ UNCHANGED <<spinning, universeLock, lockVars, functionVars, digestVars>>

\* INVOKE_OTHER_CONTRACT_PROCEDURE.  (Its reward is a transfer before it.)
Invoke(c) ==
  /\ Running /\ Top.kind = "procedure"
  /\ Depth < MaxDepth
  /\ c < Top.contract
  /\ frames' = Append(frames, Call(c, "procedure", "wanted"))
  /\ UNCHANGED <<spinning, callbacksRunning, universeLock, lockVars, functionVars, digestVars>>

\* CALL_OTHER_CONTRACT_FUNCTION of a procedure, or of a function it has called.
CallFunction(c) ==
  /\ Running
  /\ Depth < MaxDepth
  /\ c < Top.contract
  /\ frames' = Append(frames, Call(c, "function", "wanted"))
  /\ UNCHANGED <<spinning, callbacksRunning, universeLock, lockVars, functionVars, digestVars>>

\* __qpiCallSystemProc() on behalf of transfer() and distributeDividends().
TransferCallback(c) ==
  /\ frames # << >> /\ spinning = "no" /\ Top.lock \in Held /\ Top.kind = "procedure"
  /\ Depth < MaxDepth
  /\ "transfer" \notin callbacksRunning
  /\ frames' = Append(frames, CallbackOf(c, "wanted", callbacksRunning))
  /\ callbacksRunning' = callbacksRunning \cup {"transfer"}
  /\ UNCHANGED <<spinning, universeLock, lockVars, functionVars, digestVars>>

\* The callbacks of acquireShares() and releaseShares() before and after the
\* transfer of management rights.
RightsCallback(c) ==
  /\ Running /\ Top.kind = "procedure"
  /\ Depth < MaxDepth
  /\ "rights" \notin callbacksRunning
  /\ c # Top.contract
  /\ frames' = Append(frames, CallbackOf(c, "wanted", callbacksRunning))
  /\ callbacksRunning' = callbacksRunning \cup {"rights"}
  /\ UNCHANGED <<spinning, universeLock, lockVars, functionVars, digestVars>>

\* setShareholderProposal() and setShareholderVotes().  The flag is set before
\* the invocation reward is paid.
ShareholderCallback(c) ==
  /\ Running /\ Top.kind = "procedure"
  /\ Depth < MaxDepth
  /\ "shareholder" \notin callbacksRunning
  /\ c # Top.contract
  /\ \E lock \in {"reward", "wanted"} :
       frames' = Append(frames, CallbackOf(c, lock, callbacksRunning))
  /\ callbacksRunning' = callbacksRunning \cup {"shareholder"}
  /\ UNCHANGED <<spinning, universeLock, lockVars, functionVars, digestVars>>

\* __transfer() in __qpiConstructProcedureCallContext(): the contract that gets
\* the reward is notified, unless this runs in such a notification.
PayReward ==
  /\ frames # << >> /\ spinning = "no" /\ Top.lock = "reward"
  /\ IF "transfer" \in callbacksRunning \/ Depth = MaxDepth
     THEN Grant("wanted") /\ UNCHANGED callbacksRunning
     ELSE /\ frames' = Append([frames EXCEPT ![Depth].lock = "wanted"],
                              CallbackOf(Top.contract, "wanted", callbacksRunning))
          /\ callbacksRunning' = callbacksRunning \cup {"transfer"}
  /\ UNCHANGED <<spinning, universeLock, lockVars, functionVars, digestVars>>

\* A callback of the calling contract itself needs no lock.
OwnState == Depth > 1 /\ Top.contract = CallerOf(Depth)

\* The contract processor holds the write lock of c already.
Reusable(c) == callbacksRunning # {} /\ readers[c] = -1

\* Mutant: acquireWrite() does not announce the writer.
NotAnnounced(c) == writersWaiting

\* The first step of acquireWrite(): readers that come now stay out.
Announced(c) == [writersWaiting EXCEPT ![c] = @ + 1]

\* __qpiAcquireStateForWriting(), or the call by the core, up to the wait loop.
LockForWriting ==
  /\ frames # << >> /\ spinning = "no" /\ Top.lock = "wanted" /\ Top.kind = "procedure"
  /\ LET c == Top.contract
     IN  \/ /\ OwnState
            /\ Grant("own")
            /\ changed' = changed \cup ({c} \cap Watched)
            /\ UNCHANGED writersWaiting
         \/ /\ ~OwnState /\ Reusable(c)
            /\ Grant("reuse")
            /\ changed' = changed \cup ({c} \cap Watched)
            /\ UNCHANGED writersWaiting
         \/ /\ ~OwnState /\ ~Reusable(c)
            /\ Grant("announced")
            /\ writersWaiting' = Announced(c)
            /\ UNCHANGED changed
  /\ UNCHANGED <<spinning, callbacksRunning, universeLock, readers, functionVars, flagged>>

\* ReadWriteLock::tryAcquireWrite() succeeds in acquireWrite().  The procedure
\* that begins to run is taken to change the state.
AcquireWrite ==
  /\ frames # << >> /\ spinning = "no" /\ Top.lock = "announced"
  /\ LET c == Top.contract
     IN  /\ readers[c] = 0
         /\ readers' = [readers EXCEPT ![c] = -1]
         /\ writersWaiting' = [writersWaiting EXCEPT ![c] = @ - 1]
         /\ changed' = changed \cup ({c} \cap Watched)
  /\ Grant("write")
  /\ UNCHANGED <<spinning, callbacksRunning, universeLock, functionVars, flagged>>

\* __qpiAcquireStateForReading() in the contract processor.
LockForReading ==
  /\ frames # << >> /\ spinning = "no" /\ Top.lock = "wanted" /\ Top.kind = "function"
  /\ LET c == Top.contract
     IN  \/ /\ Reusable(c)
            /\ Grant("reuse")
            /\ UNCHANGED readers
         \/ /\ ~Reusable(c)
            /\ writersWaiting[c] = 0 /\ readers[c] >= 0
            /\ Grant("read")
            /\ readers' = [readers EXCEPT ![c] = @ + 1]
  /\ UNCHANGED <<spinning, callbacksRunning, universeLock, writersWaiting, functionVars,
                 digestVars>>

\* Mutant: a lock that was reused is released.
ReleasedAlways(f) ==
  CASE f.lock \in {"write", "reuse"} /\ f.kind = "procedure" ->
         [readers EXCEPT ![f.contract] = 0]
    [] f.lock \in {"read", "reuse"} /\ f.kind = "function" ->
         [readers EXCEPT ![f.contract] = @ - 1]
    [] OTHER -> readers

\* The locks after frame f has released its own: without a callback every frame
\* releases one, in callbacks the type of lock tells.
Released(f) ==
  CASE f.kind = "procedure" /\ (f.lock = "write" \/ callbacksRunning = {}) ->
         [readers EXCEPT ![f.contract] = 0]
    [] f.kind = "function" /\ (f.lock = "read" \/ callbacksRunning = {}) ->
         [readers EXCEPT ![f.contract] = @ - 1]
    [] OTHER -> readers

\* Mutant: the end of a callback clears the flags.
Cleared(f) == IF f.callback THEN {} ELSE callbacksRunning

\* The callbacks that run after frame f has returned.
Restored(f) == IF f.callback THEN f.before ELSE callbacksRunning

\* Return of a function, after __qpiReleaseStateForReading().
ReturnFunction ==
  /\ Running /\ Top.kind = "function"
  /\ readers' = Released(Top)
  /\ frames' = Below
  /\ UNCHANGED <<spinning, callbacksRunning, universeLock, writersWaiting, functionVars,
                 digestVars>>

\* Return of a procedure or callback to the procedure that called it.
\* __qpiReleaseStateForWriting() sets the change flag of the calling contract.
ReturnProcedure ==
  /\ Running /\ Top.kind = "procedure" /\ Depth > 1
  /\ frames' = Below
  /\ callbacksRunning' = Restored(Top)
  /\ readers' = IF Top.lock = "own" THEN readers ELSE Released(Top)
  /\ flagged' = IF Top.lock = "own" THEN flagged
                ELSE flagged \cup ({CallerOf(Depth)} \cap Watched)
  /\ UNCHANGED <<spinning, universeLock, writersWaiting, functionVars, changed>>

\* Return of the procedure or callback that the core has begun.
LeaveProcedure ==
  /\ Running /\ Top.kind = "procedure" /\ Depth = 1
  /\ frames' = Below
  /\ callbacksRunning' = Restored(Top)
  /\ readers' = [readers EXCEPT ![Top.contract] = 0]
  /\ flagged' = flagged \cup ({Top.contract} \cap Watched)
  /\ UNCHANGED <<spinning, universeLock, writersWaiting, functionVars, changed>>

\* distributeDividends() acquires universeLock before its notifications.
BeginDividends ==
  /\ Running /\ Top.kind = "procedure"
  /\ "transfer" \notin callbacksRunning
  /\ universeLock = 0
  /\ universeLock' = Depth
  /\ UNCHANGED <<frames, spinning, callbacksRunning, lockVars, functionVars, digestVars>>

EndDividends ==
  /\ frames # << >> /\ spinning = "no" /\ universeLock = Depth
  /\ universeLock' = 0
  /\ UNCHANGED <<frames, spinning, callbacksRunning, lockVars, functionVars, digestVars>>

\* An operation on assets, or distributeDividends(), when the contract processor
\* holds universeLock already.  (Otherwise the lock is held for a moment only.)
WaitForUniverse ==
  /\ Running /\ universeLock # 0
  /\ spinning' = "universe"
  /\ UNCHANGED <<frames, callbacksRunning, universeLock, lockVars, functionVars, digestVars>>

\* __qpiAbort() in the contract processor: an endless loop.  Contract code may
\* fail anywhere, and a callback after its flag is set.
Abort ==
  /\ frames # << >> /\ spinning = "no" /\ Top.lock \in Held
  /\ spinning' = "aborted"
  /\ \/ UNCHANGED callbacksRunning
     \/ /\ Top.kind = "procedure"
        /\ \E f \in CallbackFlag \ callbacksRunning :
             callbacksRunning' = callbacksRunning \cup {f}
  /\ UNCHANGED <<frames, universeLock, lockVars, functionVars, digestVars>>

\* getComputerDigest(), in the tick processor while no procedure runs.
GetComputerDigest ==
  /\ frames = << >>
  /\ changed' = changed \ flagged
  /\ flagged' = {}
  /\ UNCHANGED <<processorVars, lockVars, functionVars>>

-----------------------------------------------------------------------------
(***************************************************************************)
(* The request processors.                                                 *)
(***************************************************************************)
LastHeld(r) == held[r][Len(held[r])]
DropLast(r) == [held EXCEPT ![r] = SubSeq(@, 1, Len(@) - 1)]

\* A locals stack is free for functions: the first one is kept for procedures.
StackFree == Cardinality({r \in RequestProcessor : pc[r] # "idle"}) < LocalsStacks - 1

\* processRequestContractFunction(): a user function of contract c.
StartFunction(r, c) ==
  /\ pc[r] = "idle" /\ StackFree
  /\ pc' = [pc EXCEPT ![r] = "test"]
  /\ want' = [want EXCEPT ![r] = c]
  /\ UNCHANGED <<held, processorVars, lockVars, digestVars>>

\* CALL_OTHER_CONTRACT_FUNCTION in a user function.
CallFromFunction(r, c) ==
  /\ pc[r] = "run"
  /\ c < LastHeld(r)
  /\ pc' = [pc EXCEPT ![r] = "test"]
  /\ want' = [want EXCEPT ![r] = c]
  /\ UNCHANGED <<held, processorVars, lockVars, digestVars>>

\* tryAcquireRead() up to the test of writersWaiting.
WriterAbsent(c) == writersWaiting[c] = 0

TestWriters(r) ==
  /\ pc[r] = "test"
  /\ pc' = [pc EXCEPT ![r] = IF WriterAbsent(want[r]) THEN "lock" ELSE "failed"]
  /\ UNCHANGED <<held, want, processorVars, lockVars, digestVars>>

\* tryAcquireRead() from there: the counter is incremented unless it is -1.
AcquireRead(r) ==
  /\ pc[r] = "lock"
  /\ IF readers[want[r]] >= 0
     THEN /\ pc' = [pc EXCEPT ![r] = "run"]
          /\ readers' = [readers EXCEPT ![want[r]] = @ + 1]
          /\ held' = [held EXCEPT ![r] = Append(@, want[r])]
          /\ want' = [want EXCEPT ![r] = 0]
     ELSE /\ pc' = [pc EXCEPT ![r] = "failed"]
          /\ UNCHANGED <<readers, held, want>>
  /\ UNCHANGED <<writersWaiting, processorVars, digestVars>>

\* Mutant: the rollback information of the lock that was not acquired is kept.
StopAndKeep(r) ==
  /\ pc[r] = "failed"
  /\ IF callbacksRunning # {}
     THEN /\ pc' = [pc EXCEPT ![r] = "unwind"]
          /\ held' = [held EXCEPT ![r] = Append(@, want[r])]
          /\ want' = [want EXCEPT ![r] = 0]
     ELSE pc' = [pc EXCEPT ![r] = "test"] /\ UNCHANGED <<held, want>>
  /\ UNCHANGED <<processorVars, lockVars, digestVars>>

\* Mutant: functions wait whether callbacks run or not.
RetryAlways(r) ==
  /\ pc[r] = "failed"
  /\ pc' = [pc EXCEPT ![r] = "test"]
  /\ UNCHANGED <<held, want, processorVars, lockVars, digestVars>>

\* The wait loop of __qpiAcquireStateForReading(): a function that waits while a
\* callback runs is stopped.
RetryOrStop(r) ==
  /\ pc[r] = "failed"
  /\ IF callbacksRunning # {}
     THEN pc' = [pc EXCEPT ![r] = "unwind"] /\ want' = [want EXCEPT ![r] = 0]
     ELSE pc' = [pc EXCEPT ![r] = "test"] /\ UNCHANGED want
  /\ UNCHANGED <<held, processorVars, lockVars, digestVars>>

\* A function that fails to allocate memory is stopped, too.
AbortFunction(r) ==
  /\ pc[r] = "run"
  /\ pc' = [pc EXCEPT ![r] = "unwind"]
  /\ UNCHANGED <<held, want, processorVars, lockVars, digestVars>>

\* rollbackContractFunctionCall(): release the read locks one by one, and the
\* stack after the last.
Unwind(r) ==
  /\ pc[r] = "unwind"
  /\ IF held[r] = << >>
     THEN pc' = [pc EXCEPT ![r] = "idle"] /\ UNCHANGED <<held, readers>>
     ELSE /\ readers' = [readers EXCEPT ![LastHeld(r)] = @ - 1]
          /\ held' = DropLast(r)
          /\ UNCHANGED pc
  /\ UNCHANGED <<want, writersWaiting, processorVars, digestVars>>

\* numberOfPossessedShares() in a user function, which needs universeLock.
QueryShares(r) ==
  /\ pc[r] = "run"
  /\ pc' = [pc EXCEPT ![r] = "universe"]
  /\ UNCHANGED <<held, want, processorVars, lockVars, digestVars>>

SharesQueried(r) ==
  /\ pc[r] = "universe"
  /\ universeLock = 0
  /\ pc' = [pc EXCEPT ![r] = "run"]
  /\ UNCHANGED <<held, want, processorVars, lockVars, digestVars>>

\* Return of a function: of the user function itself when it holds one lock.
Return(r) ==
  /\ pc[r] = "run"
  /\ readers' = [readers EXCEPT ![LastHeld(r)] = @ - 1]
  /\ held' = DropLast(r)
  /\ pc' = [pc EXCEPT ![r] = IF Len(held[r]) = 1 THEN "idle" ELSE "run"]
  /\ UNCHANGED <<want, writersWaiting, processorVars, digestVars>>

-----------------------------------------------------------------------------
Processor ==
  \/ \E c \in Contract :
       \/ StartProcedure(c) \/ StartCallback(c)
       \/ Invoke(c) \/ CallFunction(c)
       \/ TransferCallback(c) \/ RightsCallback(c) \/ ShareholderCallback(c)
  \/ PayReward
  \/ LockForWriting \/ AcquireWrite \/ LockForReading
  \/ ReturnFunction \/ ReturnProcedure \/ LeaveProcedure
  \/ BeginDividends \/ EndDividends \/ WaitForUniverse
  \/ Abort
  \/ GetComputerDigest

Function(r) ==
  \/ \E c \in Contract : StartFunction(r, c) \/ CallFromFunction(r, c)
  \/ TestWriters(r) \/ AcquireRead(r) \/ RetryOrStop(r)
  \/ AbortFunction(r) \/ Unwind(r)
  \/ QueryShares(r) \/ SharesQueried(r)
  \/ Return(r)

Next == Processor \/ \E r \in RequestProcessor : Function(r)

Spec == Init /\ [][Next]_vars

(***************************************************************************)
(* Threads keep running, and the code of a function comes to its end       *)
(* although it may call other functions again and again.                   *)
(***************************************************************************)
Fairness ==
  /\ WF_vars(AcquireWrite)
  /\ \A r \in RequestProcessor :
       /\ WF_vars(TestWriters(r)) /\ WF_vars(AcquireRead(r)) /\ WF_vars(RetryOrStop(r))
       /\ WF_vars(Unwind(r)) /\ WF_vars(SharesQueried(r))
       /\ \A depth \in Contract : SF_vars(Return(r) /\ Len(held[r]) = depth)

FairSpec == Spec /\ Fairness

-----------------------------------------------------------------------------
(***************************************************************************)
(* Properties.                                                             *)
(***************************************************************************)
Frames == 1 .. Depth

Writes(c)       == {i \in Frames : frames[i].contract = c /\ frames[i].lock = "write"}
Reads(c)        == {i \in Frames : frames[i].contract = c /\ frames[i].lock = "read"}
FunctionsOn(c)  == {r \in RequestProcessor : \E i \in DOMAIN held[r] : held[r][i] = c}

\* Mutual exclusion: the write lock of a contract state is held for exactly one
\* call, and then nobody reads; otherwise the counter is the number of readers.
\* So no lock is leaked or released twice, whatever is stopped and unwound.
MutualExclusion ==
  \A c \in Contract :
    IF Writes(c) # {}
    THEN /\ readers[c] = -1
         /\ Cardinality(Writes(c)) = 1
         /\ Reads(c) = {} /\ FunctionsOn(c) = {}
    ELSE readers[c] = Cardinality(Reads(c)) + Cardinality(FunctionsOn(c))

\* While code of a contract runs, or waits for what it has called, its state
\* stays locked: for writing if the code is a procedure.
StateStaysLocked ==
  \A i \in Frames :
    frames[i].lock \in Held =>
      IF frames[i].kind = "procedure" THEN readers[frames[i].contract] = -1
      ELSE readers[frames[i].contract] # 0

\* The contract processor never waits for a lock that it holds itself.
NoSelfWait ==
  frames # << >> =>
    /\ Top.lock = "announced" => readers[Top.contract] >= 0
    /\ Top.lock = "wanted" /\ Top.kind = "function" /\ ~Reusable(Top.contract) =>
         readers[Top.contract] >= 0 /\ writersWaiting[Top.contract] = 0

\* A function that holds a lock the contract processor waits for, and wants
\* another one, can have it or sees a callback running, which stops it.
NoCircularWait ==
  frames # << >> /\ Top.lock = "announced" =>
    \A r \in RequestProcessor :
      (\E i \in DOMAIN held[r] : held[r][i] = Top.contract)
        /\ pc[r] \in {"test", "lock", "failed"} =>
          \/ callbacksRunning # {}
          \/ readers[want[r]] >= 0 /\ writersWaiting[want[r]] = 0

\* A procedure that waits for a write lock gets it, however many functions run,
\* unless the contract processor holds universeLock meanwhile.
WriterServed ==
  \A c \in Contract :
    (writersWaiting[c] > 0 /\ universeLock = 0) ~> (writersWaiting[c] = 0)

\* What the comment in __qpiAcquireStateForReading() says: deadlocks between
\* functions and a procedure running a callback are resolved by stopping the
\* function.  Here: no function waits for the contract processor, without being
\* stopped, while it holds a lock the contract processor waits for.
CallbackDeadlocksResolved ==
  frames # << >> /\ Top.lock = "announced" =>
    \A r \in FunctionsOn(Top.contract) : pc[r] = "universe" => universeLock = 0

\* A state that has changed since its digest was computed has its change flag
\* set when the next digest is computed.
ChangesFlagged == frames = << >> => changed \subseteq flagged
-----------------------------------------------------------------------------
(***************************************************************************)
(* The inductive invariant behind MutualExclusion, StateStaysLocked,       *)
(* NoSelfWait and NoCircularWait.                                          *)
(***************************************************************************)

\* Call i is a callback or was made inside one.
InCallback(i) == \E j \in 1 .. i : frames[j].callback

\* The contract processor holds the write lock of that contract for a call before i.
LockedBefore(i) ==
  \E k \in 1 .. i - 1 :
    frames[k].contract = frames[i].contract /\ frames[k].lock = "write"

\* Call i waits for the end of the callback that its reward has started.
PaysReward(i) ==
  /\ frames[i].callback /\ i > 1 /\ frames[i - 1].lock \in Held
  /\ frames[i + 1].callback
  /\ frames[i + 1].contract = frames[i].contract
  /\ frames[i + 1].lock # "reward"

\* A reused lock, and a state used without a lock, are locked for an earlier
\* call; only the last call waits for a lock, and an earlier one for its reward.
FrameOK(i) ==
  /\ frames[i].kind = "function" =>
       ~frames[i].callback /\ frames[i].lock \in {"wanted", "read", "reuse"}
  /\ frames[i].kind = "procedure" => frames[i].lock # "read"
  /\ frames[i].kind = "procedure" /\ i > 1 => frames[i - 1].kind = "procedure"
  /\ frames[i].lock = "reuse" => InCallback(i)
  /\ frames[i].lock \in {"reuse", "own"} => LockedBefore(i)
  /\ frames[i].lock = "reward" => frames[i].callback /\ i > 1
  /\ frames[i].lock \in {"announced", "reward"} => i = Depth
  /\ frames[i].lock = "wanted" /\ i < Depth => PaysReward(i)

FramesOK == \A i \in Frames : FrameOK(i)

\* Outside callbacks, calls go to contracts of lower and lower index.
CallsDescend ==
  \A i, j \in Frames :
    i < j /\ (\A k \in i + 1 .. j : ~frames[k].callback) =>
      frames[j].contract < frames[i].contract

\* The flags tell whether a callback is running, now and when each callback ends.
\* Only running code ends in an endless loop.
FlagsOK ==
  /\ spinning # "no" => frames # << >> /\ Top.lock \in Held
  /\ spinning = "no" => (callbacksRunning # {} <=> InCallback(Depth))
  /\ \A i \in Frames :
       frames[i].callback => (frames[i].before # {} <=> InCallback(i - 1))

\* Only the last call can be a waiting writer, and never of a state that the
\* contract processor has locked.
WritersOK ==
  /\ \A c \in Contract :
       writersWaiting[c] =
         IF frames # << >> /\ Top.lock = "announced" /\ Top.contract = c THEN 1 ELSE 0
  /\ frames # << >> /\ Top.lock = "announced" => Writes(Top.contract) = {}

\* A function holds the locks of contracts of lower and lower index, and wants
\* one that it does not hold.
FunctionOK(r) ==
  /\ \A i, j \in DOMAIN held[r] : i < j => held[r][j] < held[r][i]
  /\ pc[r] \in {"test", "lock", "failed"} =>
       want[r] \in Contract /\ \A i \in DOMAIN held[r] : want[r] < held[r][i]
  /\ pc[r] \in {"run", "universe"} => held[r] # << >>
  /\ pc[r] = "idle" => held[r] = << >>

FunctionsOK == \A r \in RequestProcessor : FunctionOK(r)

IInv ==
  /\ TypeOK
  /\ FramesOK
  /\ CallsDescend
  /\ FlagsOK
  /\ WritersOK
  /\ FunctionsOK
  /\ MutualExclusion
=============================================================================

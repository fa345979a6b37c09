------------------------- MODULE ContractExecProofs -------------------------
(***************************************************************************)
(* Proofs about ContractExec: the invariant IInv is inductive, and the     *)
(* locks of the contract states are exclusive, stay held while they are    *)
(* needed and are never waited for by their holder.                        *)
(***************************************************************************)
EXTENDS ContractExec, FiniteSetTheorems, SequenceTheorems, TLAPS

-----------------------------------------------------------------------------
(***************************************************************************)
(* The three ways in which the calls of the contract processor change.     *)
(***************************************************************************)

\* Append() in terms of length and elements.
LEMMA Appended ==
  ASSUME NEW S, NEW s \in Seq(S), NEW e \in S
  PROVE  /\ Append(s, e) \in Seq(S)
         /\ Len(Append(s, e)) = Len(s) + 1
         /\ Append(s, e)[Len(s) + 1] = e
         /\ \A i \in 1 .. Len(s) : Append(s, e)[i] = s[i]
OBVIOUS

\* A call is added on top of the others.
LEMMA Pushed ==
  ASSUME frames \in Seq(Frame), NEW f \in Frame, frames' = Append(frames, f)
  PROVE  /\ frames' \in Seq(Frame)
         /\ Depth \in Nat
         /\ Depth' = Depth + 1
         /\ Frames' = Frames \cup {Depth + 1}
         /\ frames'[Depth + 1] = f
         /\ \A i \in Frames : frames'[i] = frames[i]
BY DEF Depth, Frames

\* The call on top returns.
LEMMA Popped ==
  ASSUME frames \in Seq(Frame), frames # << >>, frames' = Below
  PROVE  /\ frames' \in Seq(Frame)
         /\ Depth \in Nat \ {0}
         /\ Depth' = Depth - 1
         /\ Frames' = Frames \ {Depth}
         /\ \A i \in Frames \ {Depth} : frames'[i] = frames[i]
<1> DEFINE n == Len(frames)
<1>1. n \in Nat \ {0} /\ n - 1 \in Int /\ 1 \in Int
  OBVIOUS
<1>2. \A i \in 1 .. n - 1 : frames[i] \in Frame
  OBVIOUS
<1>3. frames' = SubSeq(frames, 1, n - 1)
  BY DEF Below, Depth
<1>4. /\ frames' \in Seq(Frame)
      /\ Len(frames') = (IF 1 <= n - 1 THEN n - 1 - 1 + 1 ELSE 0)
      /\ \A i \in 1 .. n - 1 - 1 + 1 : frames'[i] = frames[1 + i - 1]
  BY <1>1, <1>2, <1>3, SubSeqProperties
<1> HIDE DEF n
<1>5. Len(frames') = n - 1
  BY <1>1, <1>4
<1>6. ASSUME NEW i \in 1 .. n - 1
      PROVE  frames'[i] = frames[i]
  <2>1. i \in 1 .. n - 1 - 1 + 1 /\ 1 + i - 1 = i
    BY <1>1
  <2>2. QED
    BY <1>4, <2>1
<1>7. Depth = n /\ Depth' = n - 1 /\ Frames = 1 .. n /\ Frames' = 1 .. n - 1
  BY <1>5 DEF Depth, Frames, n
<1>8. Frames' = Frames \ {Depth}
  BY <1>1, <1>7
<1>9. QED
  BY <1>1, <1>4, <1>6, <1>7, <1>8

\* The calls when the last one has changed its lock.
WithLock(lock) == [frames EXCEPT ![Depth].lock = lock]

\* Only the lock of the last call is another one.
LEMMA Relocked ==
  ASSUME frames \in Seq(Frame), frames # << >>, NEW lock \in LockState
  PROVE  /\ WithLock(lock) \in Seq(Frame)
         /\ Depth \in Nat \ {0}
         /\ Len(WithLock(lock)) = Depth
         /\ \A i \in Frames \ {Depth} : WithLock(lock)[i] = frames[i]
         /\ WithLock(lock)[Depth].contract = Top.contract
         /\ WithLock(lock)[Depth].kind = Top.kind
         /\ WithLock(lock)[Depth].callback = Top.callback
         /\ WithLock(lock)[Depth].before = Top.before
         /\ WithLock(lock)[Depth].lock = lock
<1> DEFINE top == [Top EXCEPT !.lock = lock]
           fs == WithLock(lock)
<1>1. Depth \in Nat \ {0} /\ Depth \in 1 .. Depth /\ Top \in Frame
  BY DEF Depth, Top
<1>2. fs = [i \in 1 .. Depth |-> IF i = Depth THEN top ELSE frames[i]]
  <2>1. DOMAIN frames = 1 .. Depth
    BY DEF Depth
  <2>2. frames = [i \in DOMAIN frames |-> frames[i]]
    OBVIOUS
  <2>3. [frames EXCEPT ![Depth] = top]
          = [i \in DOMAIN frames |-> IF i = Depth THEN top ELSE frames[i]]
    BY <2>2
  <2>4. fs = [frames EXCEPT ![Depth] = top]
    BY DEF Top, WithLock
  <2>5. QED
    BY <2>1, <2>3, <2>4
<1>3. top \in Frame
  BY <1>1 DEF Frame
<1>4. /\ top.contract = Top.contract /\ top.kind = Top.kind
      /\ top.callback = Top.callback /\ top.before = Top.before
      /\ top.lock = lock
  BY <1>1 DEF Frame
<1>5. \A i \in 1 .. Depth : frames[i] \in Frame
  BY DEF Depth
<1>6. fs \in [1 .. Depth -> Frame]
  BY <1>2, <1>3, <1>5
<1>7. fs \in Seq(Frame) /\ Len(fs) = Depth
  BY <1>1, <1>6
<1>8. /\ fs[Depth] = top
      /\ \A i \in Frames \ {Depth} : fs[i] = frames[i]
  BY <1>1, <1>2 DEF Frames
<1>9. QED
  BY <1>1, <1>4, <1>7, <1>8

\* The lock of the call on top changes its state.
LEMMA Granted ==
  ASSUME frames \in Seq(Frame), frames # << >>, NEW lock \in LockState, Grant(lock)
  PROVE  /\ frames' \in Seq(Frame)
         /\ Depth \in Nat \ {0}
         /\ Depth' = Depth
         /\ Frames' = Frames
         /\ \A i \in Frames \ {Depth} : frames'[i] = frames[i]
         /\ frames'[Depth].contract = Top.contract
         /\ frames'[Depth].kind = Top.kind
         /\ frames'[Depth].callback = Top.callback
         /\ frames'[Depth].before = Top.before
         /\ frames'[Depth].lock = lock
<1>1. frames' = WithLock(lock)
  BY DEF Grant, WithLock
<1>2. Depth' = Len(frames') /\ Frames = 1 .. Depth /\ Frames' = 1 .. Depth'
  BY DEF Depth, Frames
<1>3. QED
  BY <1>1, <1>2, Relocked

\* The call on top starts the callback for its reward.
LEMMA PaidReward ==
  ASSUME frames \in Seq(Frame), frames # << >>, NEW f \in Frame,
         frames' = Append([frames EXCEPT ![Depth].lock = "wanted"], f)
  PROVE  /\ frames' \in Seq(Frame)
         /\ Depth \in Nat \ {0}
         /\ Depth' = Depth + 1
         /\ Frames' = Frames \cup {Depth + 1}
         /\ \A i \in Frames \ {Depth} : frames'[i] = frames[i]
         /\ frames'[Depth].contract = Top.contract
         /\ frames'[Depth].kind = Top.kind
         /\ frames'[Depth].callback = Top.callback
         /\ frames'[Depth].before = Top.before
         /\ frames'[Depth].lock = "wanted"
         /\ frames'[Depth + 1] = f
<1> DEFINE fs == WithLock("wanted")
<1>1. "wanted" \in LockState
  BY DEF LockState
<1>2. /\ fs \in Seq(Frame)
      /\ Depth \in Nat \ {0}
      /\ Len(fs) = Depth
      /\ \A i \in Frames \ {Depth} : fs[i] = frames[i]
      /\ fs[Depth].contract = Top.contract
      /\ fs[Depth].kind = Top.kind
      /\ fs[Depth].callback = Top.callback
      /\ fs[Depth].before = Top.before
      /\ fs[Depth].lock = "wanted"
  BY <1>1, Relocked
<1>3. frames' = Append(fs, f)
  BY DEF WithLock
<1> HIDE DEF fs
<1>4. /\ frames' \in Seq(Frame) /\ Len(frames') = Depth + 1
      /\ frames'[Depth + 1] = f
      /\ \A i \in 1 .. Depth : frames'[i] = fs[i]
  BY <1>2, <1>3, Appended
<1>5. Frames' = Frames \cup {Depth + 1} /\ Depth' = Depth + 1 /\ Depth \in 1 .. Depth
  BY <1>2, <1>4 DEF Depth, Frames
<1>6. QED
  BY <1>2, <1>4, <1>5 DEF Frames

-----------------------------------------------------------------------------
(***************************************************************************)
(* Every step changes the calls of the contract processor in one of five   *)
(* ways.                                                                   *)
(***************************************************************************)

\* The calls stay as they are.
KeepStep ==
  /\ frames' = frames
  /\ spinning' = "no" => spinning = "no" /\ callbacksRunning' = callbacksRunning
  /\ spinning' # "no" => spinning' = spinning \/ (frames # << >> /\ Top.lock \in Held)
  /\ writersWaiting' = writersWaiting
  /\ UNCHANGED <<readers, functionVars>> \/ \E r \in RequestProcessor : Function(r)

\* Call f begins.
PushStep(f) ==
  /\ spinning = "no" /\ spinning' = "no"
  /\ frames' = Append(frames, f)
  /\ f.lock \in {"wanted", "reward"}
  /\ f.kind = "function" => ~f.callback /\ f.lock = "wanted"
  /\ f.lock = "reward" => f.callback /\ frames # << >>
  /\ frames # << >> => Top.lock \in Held
  /\ frames # << >> /\ f.kind = "procedure" => Top.kind = "procedure"
  /\ frames # << >> /\ ~f.callback => f.contract < Top.contract
  /\ IF f.callback THEN callbacksRunning' # {} /\ (f.before # {} <=> InCallback(Depth))
     ELSE callbacksRunning' = callbacksRunning
  /\ UNCHANGED <<lockVars, functionVars>>

\* The lock of the last call changes its state.
GrantStep(lock) ==
  /\ spinning = "no" /\ spinning' = "no"
  /\ frames # << >>
  /\ Grant(lock)
  /\ callbacksRunning' = callbacksRunning
  /\ Top.lock \in {"wanted", "announced", "reward"}
  /\ lock # "reward"
  /\ lock = "wanted" => Top.lock = "reward"
  /\ Top.kind = "function" => lock \in {"read", "reuse"}
  /\ Top.kind = "procedure" => lock # "read"
  /\ lock \in {"reuse", "own"} => LockedBefore(Depth)
  /\ lock = "reuse" => InCallback(Depth)
  /\ lock = "announced" => Top.lock = "wanted" /\ Writes(Top.contract) = {}
  /\ lock = "write" <=> Top.lock = "announced"
  /\ lock = "write" => readers[Top.contract] = 0
  /\ lock = "read" => readers[Top.contract] >= 0
  /\ writersWaiting' = CASE lock = "announced" -> Announced(Top.contract)
                         [] lock = "write" -> [writersWaiting EXCEPT ![Top.contract] = @ - 1]
                         [] OTHER -> writersWaiting
  /\ readers' = CASE lock = "write" -> [readers EXCEPT ![Top.contract] = -1]
                  [] lock = "read" -> [readers EXCEPT ![Top.contract] = @ + 1]
                  [] OTHER -> readers
  /\ UNCHANGED functionVars

\* The last call returns.
PopStep ==
  /\ spinning = "no" /\ spinning' = "no"
  /\ frames # << >>
  /\ frames' = Below
  /\ Top.lock \in Held
  /\ callbacksRunning' = Restored(Top)
  /\ readers' = CASE Top.lock = "write" -> [readers EXCEPT ![Top.contract] = 0]
                  [] Top.lock = "read" -> [readers EXCEPT ![Top.contract] = @ - 1]
                  [] OTHER -> readers
  /\ UNCHANGED <<writersWaiting, functionVars>>

\* The reward of the last call starts a callback.
PayStep ==
  /\ spinning = "no" /\ spinning' = "no"
  /\ frames # << >>
  /\ Top.lock = "reward"
  /\ frames' = Append([frames EXCEPT ![Depth].lock = "wanted"],
                      CallbackOf(Top.contract, "wanted", callbacksRunning))
  /\ callbacksRunning' # {}
  /\ UNCHANGED <<lockVars, functionVars>>

\* The last call is one of the calls, and what is said of all is said of it.
LEMMA TopFacts ==
  ASSUME TypeOK, frames # << >>
  PROVE  /\ Depth \in Nat \ {0}
         /\ Depth \in Frames
         /\ Top = frames[Depth]
         /\ Top \in Frame
         /\ Top.contract \in Contract
         /\ \A i \in Frames : frames[i] \in Frame /\ frames[i].contract \in Contract
<1>1. frames \in Seq(Frame)
  BY DEF TypeOK
<1>2. Depth \in Nat \ {0} /\ \A i \in 1 .. Depth : frames[i] \in Frame
  BY <1>1 DEF Depth
<1>3. \A f \in Frame : f.contract \in Contract
  BY DEF Frame
<1>4. QED
  BY <1>2, <1>3 DEF Top, Frames

\* New calls have their type.
LEMMA CallType ==
  ASSUME NEW c \in Contract, NEW kind \in {"procedure", "function"},
         NEW lock \in LockState, NEW before \in SUBSET CallbackFlag
  PROVE  Call(c, kind, lock) \in Frame /\ CallbackOf(c, lock, before) \in Frame
BY DEF Call, CallbackOf, Frame

\* The locks of states that are held for writing, as the counters show it.
LEMMA ReaderCounts ==
  ASSUME TypeOK, MutualExclusion, NEW c \in Contract
  PROVE  /\ readers[c] = -1 <=> Writes(c) # {}
         /\ readers[c] >= 0 <=> Writes(c) = {}
         /\ readers[c] \in Int
         /\ Reads(c) # {} \/ FunctionsOn(c) # {} => readers[c] > 0
         /\ Writes(c) = {} => /\ IsFiniteSet(Reads(c)) /\ IsFiniteSet(FunctionsOn(c))
                             /\ Cardinality(Reads(c)) \in Nat
                             /\ Cardinality(FunctionsOn(c)) \in Nat
                             /\ readers[c] = Cardinality(Reads(c)) + Cardinality(FunctionsOn(c))
<1>1. IsFiniteSet(Frames) /\ IsFiniteSet(RequestProcessor)
  <2>1. Depth \in Nat
    BY DEF TypeOK, Depth
  <2>2. QED
    BY <2>1, FS_Interval, ConstantsAssumption DEF Frames
<1>2. Reads(c) \subseteq Frames /\ FunctionsOn(c) \subseteq RequestProcessor
  BY DEF Reads, FunctionsOn
<1>3. IsFiniteSet(Reads(c)) /\ IsFiniteSet(FunctionsOn(c))
  BY <1>1, <1>2, FS_Subset
<1>4. Cardinality(Reads(c)) \in Nat /\ Cardinality(FunctionsOn(c)) \in Nat
  BY <1>3, FS_CardinalityType
<1>5. /\ Reads(c) # {} => Cardinality(Reads(c)) # 0
      /\ FunctionsOn(c) # {} => Cardinality(FunctionsOn(c)) # 0
  BY <1>3, FS_EmptySet
<1>6. readers[c] \in Int
  BY DEF TypeOK
<1>7. IF Writes(c) # {}
      THEN readers[c] = -1 /\ Reads(c) = {} /\ FunctionsOn(c) = {}
      ELSE readers[c] = Cardinality(Reads(c)) + Cardinality(FunctionsOn(c))
  BY DEF MutualExclusion
<1>8. QED
  BY <1>3, <1>4, <1>5, <1>6, <1>7

\* A state that is reused is locked for an earlier call, inside a callback.
LEMMA ReuseLocked ==
  ASSUME IInv, spinning = "no", frames # << >>, Top.lock = "wanted", Reusable(Top.contract)
  PROVE  LockedBefore(Depth) /\ InCallback(Depth)
<1>1. TypeOK /\ MutualExclusion /\ FlagsOK
  BY DEF IInv
<1>2. Writes(Top.contract) # {}
  BY <1>1, TopFacts, ReaderCounts DEF Reusable
<1>3. PICK k \in Frames : frames[k].contract = Top.contract /\ frames[k].lock = "write"
  BY <1>2 DEF Writes
<1>4. k # Depth /\ k \in 1 .. Depth - 1
  BY <1>1, <1>3, TopFacts DEF Frames
<1>5. LockedBefore(Depth)
  BY <1>1, <1>3, <1>4, TopFacts DEF LockedBefore
<1>6. QED
  BY <1>1, <1>5 DEF FlagsOK, Reusable

\* The state of the calling contract is locked for an earlier call.
LEMMA OwnLocked ==
  ASSUME IInv, frames # << >>, Top.lock = "wanted", Top.kind = "procedure", OwnState
  PROVE  LockedBefore(Depth)
<1>1. TypeOK /\ FramesOK
  BY DEF IInv
<1>2. Depth \in Nat /\ Depth > 1 /\ Depth \in Frames /\ Top = frames[Depth]
  BY <1>1, TopFacts DEF OwnState
<1>3. Depth - 1 \in Frames /\ frames[Depth - 1].kind = "procedure"
  BY <1>1, <1>2 DEF FramesOK, FrameOK, Frames
<1>4. PICK k \in 1 .. Depth - 1 : /\ frames[k].contract = Top.contract
                                 /\ frames[k].kind = "procedure"
                                 /\ frames[k].lock \in Held
  <2>1. CASE frames[Depth - 1].lock = "wanted"
    <3>1. Depth - 1 > 1 /\ frames[Depth - 2].lock \in Held
      BY <1>1, <1>2, <1>3, <2>1 DEF FramesOK, FrameOK, PaysReward
    <3>2. frames[Depth - 2].kind = "procedure"
      BY <1>1, <1>2, <1>3, <3>1 DEF FramesOK, FrameOK
    <3>3. frames[Depth - 2].contract = Top.contract
      BY <2>1 DEF OwnState, CallerOf
    <3>4. QED
      BY <1>2, <3>1, <3>2, <3>3
  <2>2. CASE frames[Depth - 1].lock # "wanted"
    <3>1. frames[Depth - 1].lock \in Held
      BY <1>1, <1>2, <1>3, <2>2, TopFacts DEF FramesOK, FrameOK, Frame, LockState
    <3>2. frames[Depth - 1].contract = Top.contract
      BY <2>2 DEF OwnState, CallerOf
    <3>3. QED
      BY <1>2, <1>3, <3>1, <3>2
  <2>3. QED
    BY <2>1, <2>2
<1>5. k \in Frames /\ frames[k].lock \in {"write", "reuse", "own"}
  BY <1>1, <1>2, <1>4 DEF FramesOK, FrameOK, Frames, Held
<1>6. CASE frames[k].lock = "write"
  BY <1>2, <1>4, <1>6 DEF LockedBefore
<1>7. CASE frames[k].lock # "write"
  <2>1. LockedBefore(k)
    BY <1>1, <1>4, <1>5, <1>7 DEF FramesOK, FrameOK
  <2>2. QED
    BY <1>2, <1>4, <2>1 DEF LockedBefore
<1>8. QED
  BY <1>6, <1>7

\* A state that is neither reused nor the caller's own is not locked for writing.
LEMMA NotLocked ==
  ASSUME IInv, spinning = "no", frames # << >>, Top.lock = "wanted",
         ~Reusable(Top.contract)
  PROVE  Writes(Top.contract) = {} /\ readers[Top.contract] >= 0
<1>1. TypeOK /\ MutualExclusion /\ FlagsOK /\ CallsDescend
  BY DEF IInv
<1>2. CASE callbacksRunning # {}
  BY <1>1, <1>2, TopFacts, ReaderCounts DEF Reusable
<1>3. CASE callbacksRunning = {}
  <2>1. ~InCallback(Depth)
    BY <1>1, <1>3 DEF FlagsOK
  <2>2. \A i \in Frames : i # Depth => Top.contract < frames[i].contract
    BY <1>1, <2>1, TopFacts DEF CallsDescend, InCallback, Frames
  <2>3. \A i \in Frames : frames[i].contract \in Int
    BY <1>1, TopFacts DEF Contract
  <2>4. Writes(Top.contract) = {}
    BY <1>1, <2>2, <2>3, TopFacts DEF Writes
  <2>5. QED
    BY <1>1, <2>4, TopFacts, ReaderCounts
<1>4. QED
  BY <1>2, <1>3

\* Calls that the contract processor or the running code begins.
LEMMA CallSteps ==
  ASSUME IInv, NEW c \in Contract,
         \/ StartProcedure(c) \/ StartCallback(c)
         \/ Invoke(c) \/ CallFunction(c)
         \/ TransferCallback(c) \/ RightsCallback(c) \/ ShareholderCallback(c)
  PROVE  \E f \in Frame : PushStep(f)
<1>1. TypeOK /\ FlagsOK
  BY DEF IInv
<1>2. {"wanted", "reward"} \subseteq LockState /\ callbacksRunning \in SUBSET CallbackFlag
  BY <1>1 DEF TypeOK, LockState
<1>3. /\ frames # << >> /\ spinning = "no" => (callbacksRunning # {} <=> InCallback(Depth))
      /\ frames = << >> => spinning = "no" /\ ~InCallback(Depth)
  BY <1>1 DEF FlagsOK, InCallback, Depth
<1>4. CASE StartProcedure(c)
  <2> DEFINE f == Call(c, "procedure", "wanted")
  <2>1. f \in Frame
    BY <1>2, CallType
  <2>2. frames' = Append(frames, f)
    BY <1>4 DEF StartProcedure
  <2>3. PushStep(f)
    BY <1>3, <1>4, <2>2 DEF StartProcedure, PushStep, Call
  <2>4. QED
    BY <2>1, <2>3
<1>5. CASE StartCallback(c)
  <2> DEFINE f == CallbackOf(c, "wanted", {})
  <2>1. f \in Frame
    BY <1>2, CallType
  <2>2. frames' = Append(frames, f)
    BY <1>5 DEF StartCallback
  <2>3. PushStep(f)
    BY <1>3, <1>5, <2>2 DEF StartCallback, PushStep, CallbackOf
  <2>4. QED
    BY <2>1, <2>3
<1>6. CASE Invoke(c)
  <2> DEFINE f == Call(c, "procedure", "wanted")
  <2>1. f \in Frame
    BY <1>2, CallType
  <2>2. PushStep(f)
    BY <1>6 DEF Invoke, Running, PushStep, Call
  <2>3. QED
    BY <2>1, <2>2
<1>7. CASE CallFunction(c)
  <2> DEFINE f == Call(c, "function", "wanted")
  <2>1. f \in Frame
    BY <1>2, CallType
  <2>2. PushStep(f)
    BY <1>7 DEF CallFunction, Running, PushStep, Call
  <2>3. QED
    BY <2>1, <2>2
<1>8. CASE TransferCallback(c)
  <2> DEFINE f == CallbackOf(c, "wanted", callbacksRunning)
  <2>1. f \in Frame
    BY <1>2, CallType
  <2>2. PushStep(f)
    BY <1>3, <1>8 DEF TransferCallback, PushStep, CallbackOf
  <2>3. QED
    BY <2>1, <2>2
<1>9. CASE RightsCallback(c)
  <2> DEFINE f == CallbackOf(c, "wanted", callbacksRunning)
  <2>1. f \in Frame
    BY <1>2, CallType
  <2>2. PushStep(f)
    BY <1>3, <1>9 DEF RightsCallback, Running, PushStep, CallbackOf
  <2>3. QED
    BY <2>1, <2>2
<1>10. CASE ShareholderCallback(c)
  <2>1. PICK lock \in {"reward", "wanted"} :
          frames' = Append(frames, CallbackOf(c, lock, callbacksRunning))
    BY <1>10 DEF ShareholderCallback
  <2> DEFINE f == CallbackOf(c, lock, callbacksRunning)
  <2>2. f \in Frame
    BY <1>2, CallType
  <2>3. PushStep(f)
    BY <1>3, <1>10, <2>1 DEF ShareholderCallback, Running, PushStep, CallbackOf
  <2>4. QED
    BY <2>2, <2>3
<1>11. QED
  BY <1>4, <1>5, <1>6, <1>7, <1>8, <1>9, <1>10

\* Every step is of one of the five shapes.
LEMMA FrameSteps ==
  ASSUME IInv, Next
  PROVE  \/ KeepStep
         \/ \E f \in Frame : PushStep(f)
         \/ \E lock \in LockState : GrantStep(lock)
         \/ PopStep
         \/ PayStep
<1>1. TypeOK /\ FramesOK /\ FlagsOK
  BY DEF IInv
<1>2. frames # << >> => /\ Top \in Frame /\ Top = frames[Depth] /\ Depth \in Frames
                       /\ Top.kind \in {"procedure", "function"}
                       /\ Top.lock \in LockState
  BY <1>1, TopFacts DEF Frame
<1>3. CASE \E r \in RequestProcessor : Function(r)
  <2>1. PICK r \in RequestProcessor : Function(r)
    BY <1>3
  <2>2. UNCHANGED <<processorVars, writersWaiting>>
    BY <2>1 DEF lockVars, Function, StartFunction, CallFromFunction, TestWriters, AcquireRead,
                RetryOrStop, AbortFunction, Unwind, QueryShares, SharesQueried, Return
  <2>3. KeepStep
    BY <2>1, <2>2 DEF KeepStep, processorVars
  <2>4. QED
    BY <2>3
<1>4. CASE \E c \in Contract :
             \/ StartProcedure(c) \/ StartCallback(c)
             \/ Invoke(c) \/ CallFunction(c)
             \/ TransferCallback(c) \/ RightsCallback(c) \/ ShareholderCallback(c)
  BY <1>4, CallSteps
<1>5. CASE PayReward
  <2>1. CASE "transfer" \in callbacksRunning \/ Depth = MaxDepth
    <3>1. Top.kind = "procedure"
      BY <1>1, <1>2, <1>5 DEF FramesOK, FrameOK, PayReward
    <3>2. GrantStep("wanted")
      BY <1>5, <2>1, <3>1 DEF PayReward, GrantStep, lockVars
    <3>3. QED
      BY <3>2 DEF LockState
  <2>2. CASE ~("transfer" \in callbacksRunning \/ Depth = MaxDepth)
    BY <1>5, <2>2 DEF PayReward, PayStep
  <2>3. QED
    BY <2>1, <2>2
<1>6. CASE LockForWriting
  <2>1. frames # << >> /\ spinning = "no" /\ spinning' = "no"
        /\ Top.lock = "wanted" /\ Top.kind = "procedure"
        /\ callbacksRunning' = callbacksRunning
        /\ readers' = readers /\ UNCHANGED functionVars
    BY <1>6 DEF LockForWriting
  <2>2. \/ OwnState /\ Grant("own") /\ writersWaiting' = writersWaiting
        \/ Reusable(Top.contract) /\ Grant("reuse") /\ writersWaiting' = writersWaiting
        \/ /\ ~Reusable(Top.contract) /\ Grant("announced")
           /\ writersWaiting' = Announced(Top.contract)
    BY <1>6 DEF LockForWriting
  <2>3. CASE OwnState /\ Grant("own") /\ writersWaiting' = writersWaiting
    <3>1. LockedBefore(Depth)
      BY <2>1, <2>3, OwnLocked
    <3>2. GrantStep("own")
      BY <2>1, <2>3, <3>1 DEF GrantStep
    <3>3. QED
      BY <3>2 DEF LockState, Held
  <2>4. CASE Reusable(Top.contract) /\ Grant("reuse") /\ writersWaiting' = writersWaiting
    <3>1. LockedBefore(Depth) /\ InCallback(Depth)
      BY <2>1, <2>4, ReuseLocked
    <3>2. GrantStep("reuse")
      BY <2>1, <2>4, <3>1 DEF GrantStep
    <3>3. QED
      BY <3>2 DEF LockState, Held
  <2>5. CASE /\ ~Reusable(Top.contract) /\ Grant("announced")
             /\ writersWaiting' = Announced(Top.contract)
    <3>1. Writes(Top.contract) = {}
      BY <2>1, <2>5, NotLocked
    <3>2. GrantStep("announced")
      BY <2>1, <2>5, <3>1 DEF GrantStep
    <3>3. QED
      BY <3>2 DEF LockState, Held
  <2>6. QED
    BY <2>2, <2>3, <2>4, <2>5
<1>7. CASE AcquireWrite
  <2>1. Top.kind = "procedure"
    BY <1>1, <1>2, <1>7 DEF FramesOK, FrameOK, AcquireWrite
  <2>2. GrantStep("write")
    BY <1>7, <2>1 DEF AcquireWrite, GrantStep
  <2>3. QED
    BY <2>2 DEF LockState, Held
<1>8. CASE LockForReading
  <2>1. frames # << >> /\ spinning = "no" /\ spinning' = "no"
        /\ Top.lock = "wanted" /\ Top.kind = "function"
        /\ callbacksRunning' = callbacksRunning
        /\ writersWaiting' = writersWaiting /\ UNCHANGED functionVars
    BY <1>8 DEF LockForReading
  <2>2. \/ Reusable(Top.contract) /\ Grant("reuse") /\ readers' = readers
        \/ /\ readers[Top.contract] >= 0 /\ Grant("read")
           /\ readers' = [readers EXCEPT ![Top.contract] = @ + 1]
    BY <1>8 DEF LockForReading
  <2>3. CASE Reusable(Top.contract) /\ Grant("reuse") /\ readers' = readers
    <3>1. LockedBefore(Depth) /\ InCallback(Depth)
      BY <2>1, <2>3, ReuseLocked
    <3>2. GrantStep("reuse")
      BY <2>1, <2>3, <3>1 DEF GrantStep
    <3>3. QED
      BY <3>2 DEF LockState, Held
  <2>4. CASE /\ readers[Top.contract] >= 0 /\ Grant("read")
             /\ readers' = [readers EXCEPT ![Top.contract] = @ + 1]
    <3>1. GrantStep("read")
      BY <2>1, <2>4 DEF GrantStep
    <3>2. QED
      BY <3>1 DEF LockState, Held
  <2>5. QED
    BY <2>2, <2>3, <2>4
<1>9. ASSUME frames # << >>, spinning = "no", Top.lock \in Held
      PROVE  /\ Top.kind = "function" => Top.lock \in {"read", "reuse"} /\ ~Top.callback
             /\ Top.kind = "procedure" => Top.lock \in {"write", "reuse", "own"}
             /\ Top.lock = "reuse" => callbacksRunning # {}
             /\ Top.lock \in {"reuse", "own"} => Depth # 1
  <2>1. FrameOK(Depth) /\ Top = frames[Depth]
    BY <1>1, <1>2, <1>9 DEF FramesOK
  <2>2. Top.lock \in {"reuse", "own"} => Depth # 1
    BY <2>1 DEF FrameOK, LockedBefore
  <2>3. QED
    BY <1>1, <1>9, <2>1, <2>2 DEF FrameOK, FlagsOK, Held
<1>10. CASE ReturnFunction
  <2>1. /\ frames # << >> /\ spinning = "no" /\ spinning' = "no"
        /\ Top.lock \in Held /\ Top.kind = "function"
        /\ frames' = Below /\ readers' = Released(Top)
        /\ callbacksRunning' = callbacksRunning
        /\ UNCHANGED <<writersWaiting, functionVars>>
    BY <1>10 DEF ReturnFunction, Running
  <2>2. Restored(Top) = callbacksRunning
    BY <1>9, <2>1 DEF Restored
  <2>3. Top.lock = "read" => Released(Top) = [readers EXCEPT ![Top.contract] = @ - 1]
    BY <2>1 DEF Released
  <2>4. Top.lock # "read" => Released(Top) = readers
    BY <1>9, <2>1 DEF Released
  <2>5. Top.lock \in {"read", "reuse"}
    BY <1>9, <2>1
  <2>6. PopStep
    BY <2>1, <2>2, <2>3, <2>4, <2>5 DEF PopStep
  <2>7. QED
    BY <2>6
<1>11. CASE ReturnProcedure \/ LeaveProcedure
  <2>1. /\ frames # << >> /\ spinning = "no" /\ spinning' = "no"
        /\ Top.lock \in Held /\ Top.kind = "procedure"
        /\ frames' = Below
        /\ callbacksRunning' = Restored(Top)
        /\ UNCHANGED <<writersWaiting, functionVars>>
    BY <1>11 DEF ReturnProcedure, LeaveProcedure, Running
  <2>2. \/ readers' = IF Top.lock = "own" THEN readers ELSE Released(Top)
        \/ Depth = 1 /\ readers' = [readers EXCEPT ![Top.contract] = 0]
    BY <1>11 DEF ReturnProcedure, LeaveProcedure
  <2>3. Top.lock = "write" => Released(Top) = [readers EXCEPT ![Top.contract] = 0]
    BY <2>1 DEF Released
  <2>4. Top.lock = "reuse" => Released(Top) = readers
    BY <1>9, <2>1 DEF Released
  <2>5. Top.lock \in {"write", "reuse", "own"} /\ (Depth = 1 => Top.lock = "write")
    BY <1>9, <2>1
  <2>6. PopStep
    BY <2>1, <2>2, <2>3, <2>4, <2>5 DEF PopStep
  <2>7. QED
    BY <2>6
<1>12. CASE BeginDividends \/ EndDividends \/ WaitForUniverse \/ Abort \/ GetComputerDigest
  BY <1>12 DEF BeginDividends, EndDividends, WaitForUniverse, Abort, GetComputerDigest,
               Running, KeepStep, processorVars, lockVars
<1>13. QED
  BY <1>3, <1>4, <1>5, <1>6, <1>7, <1>8, <1>9, <1>10, <1>11, <1>12 DEF Next, Processor

-----------------------------------------------------------------------------
(***************************************************************************)
(* What the five shapes do to the parts of IInv that are about calls.      *)
(***************************************************************************)

\* The calls keep their form when they do not change.
LEMMA KeptCalls ==
  ASSUME IInv, KeepStep
  PROVE  FramesOK' /\ CallsDescend' /\ FlagsOK'
<1>1. FramesOK /\ CallsDescend /\ FlagsOK
  BY DEF IInv
<1>2. frames' = frames /\ Depth' = Depth /\ Frames' = Frames
  BY DEF KeepStep, Depth, Frames
<1>3. FramesOK'
  BY <1>1, <1>2 DEF FramesOK, FrameOK, PaysReward, InCallback, LockedBefore
<1>4. CallsDescend'
  BY <1>1, <1>2 DEF CallsDescend
<1>5. FlagsOK'
  BY <1>1, <1>2 DEF FlagsOK, InCallback, KeepStep, Top
<1>6. QED
  BY <1>3, <1>4, <1>5

\* The calls keep their form when one is added.
LEMMA PushedCalls ==
  ASSUME IInv, NEW f \in Frame, PushStep(f)
  PROVE  FramesOK' /\ CallsDescend' /\ FlagsOK'
<1>1. TypeOK /\ FramesOK /\ CallsDescend /\ FlagsOK
  BY DEF IInv
<1>2. /\ frames' \in Seq(Frame)
      /\ Depth \in Nat
      /\ Depth' = Depth + 1
      /\ Frames' = Frames \cup {Depth + 1}
      /\ frames'[Depth + 1] = f
      /\ \A i \in Frames : frames'[i] = frames[i]
  BY <1>1, Pushed DEF TypeOK, PushStep
<1>3. /\ spinning = "no" /\ spinning' = "no"
      /\ f.lock \in {"wanted", "reward"}
      /\ f.kind = "function" => ~f.callback /\ f.lock = "wanted"
      /\ f.lock = "reward" => f.callback /\ frames # << >>
      /\ frames # << >> => Top.lock \in Held
      /\ frames # << >> /\ f.kind = "procedure" => Top.kind = "procedure"
      /\ frames # << >> /\ ~f.callback => f.contract < Top.contract
      /\ IF f.callback THEN callbacksRunning' # {} /\ (f.before # {} <=> InCallback(Depth))
         ELSE callbacksRunning' = callbacksRunning
  BY DEF PushStep
<1>4. Frames = 1 .. Depth /\ (frames # << >> <=> Depth > 0) /\ Top = frames[Depth]
  BY <1>1, <1>2 DEF TypeOK, Frames, Depth, Top
<1>5. \A i \in Frames : /\ InCallback(i)' <=> InCallback(i)
                        /\ LockedBefore(i)' <=> LockedBefore(i)
  BY <1>2, <1>4 DEF InCallback, LockedBefore
<1>6. FramesOK'
  <2> SUFFICES ASSUME NEW i \in Frames' PROVE FrameOK(i)'
    BY DEF FramesOK
  <2>1. CASE i = Depth + 1
    <3>1. frames'[i] = f /\ ~(i < Depth')
      BY <1>2, <2>1
    <3>2. i > 1 => Depth \in Frames /\ i - 1 = Depth /\ frames # << >>
      BY <1>2, <1>4, <2>1
    <3>3. i > 1 => frames'[i - 1] = Top
      BY <1>2, <1>4, <3>2
    <3>4. frames # << >> => i > 1
      BY <1>2, <1>4, <2>1
    <3>5. QED
      BY <1>2, <1>3, <2>1, <3>1, <3>2, <3>3, <3>4 DEF FrameOK
  <2>2. CASE i \in Frames
    <3>1. FrameOK(i)
      BY <1>1, <2>2 DEF FramesOK
    <3>2. i = Depth => frames[i].lock \in Held
      BY <1>2, <1>3, <1>4, <2>2
    <3>3. i < Depth => frames'[i + 1] = frames[i + 1]
      BY <1>2, <1>4, <2>2
    <3>4. i > 1 => frames'[i - 1] = frames[i - 1]
      BY <1>2, <1>4, <2>2
    <3>5. frames'[i] = frames[i] /\ i # Depth + 1 /\ (i < Depth \/ i = Depth)
      BY <1>2, <1>4, <2>2
    <3>6. frames[i].lock \notin {"announced", "reward"}
      BY <3>1, <3>2 DEF FrameOK, Held
    <3>7. frames[i].lock = "wanted" => i < Depth
      BY <3>2, <3>5 DEF Held
    <3>8. PaysReward(i) /\ i < Depth => PaysReward(i)'
      BY <3>3, <3>4, <3>5 DEF PaysReward
    <3>9. QED
      BY <1>5, <2>2, <3>1, <3>4, <3>5, <3>6, <3>7, <3>8 DEF FrameOK
  <2>3. QED
    BY <1>2, <2>1, <2>2
<1>7. CallsDescend'
  <2> SUFFICES ASSUME NEW i \in Frames', NEW j \in Frames', i < j,
                      \A k \in i + 1 .. j : ~frames'[k].callback
               PROVE  frames'[j].contract < frames'[i].contract
    BY DEF CallsDescend
  <2>1. i \in Frames
    BY <1>2, <1>4
  <2>2. CASE j \in Frames
    <3>1. \A k \in i + 1 .. j : k \in Frames
      BY <1>2, <1>4, <2>1, <2>2
    <3>2. QED
      BY <1>1, <1>2, <2>1, <2>2, <3>1 DEF CallsDescend
  <2>3. CASE j = Depth + 1
    <3>1. f.contract < frames[Depth].contract
      BY <1>2, <1>3, <1>4, <2>1, <2>3
    <3>2. i # Depth => frames[Depth].contract < frames[i].contract
      <4>1. \A k \in i + 1 .. Depth : k \in Frames /\ k \in i + 1 .. j
        BY <1>2, <1>4, <2>1, <2>3
      <4>2. \A k \in i + 1 .. Depth : ~frames[k].callback
        BY <1>2, <4>1
      <4>3. i # Depth => i < Depth /\ Depth \in Frames
        BY <1>2, <1>4, <2>1
      <4>4. QED
        BY <1>1, <2>1, <4>2, <4>3 DEF CallsDescend
    <3>3. f.contract \in Int /\ frames[Depth].contract \in Int /\ frames[i].contract \in Int
      BY <1>1, <1>2, <1>4, <2>1, TopFacts DEF Frame, Contract
    <3>4. QED
      BY <1>2, <2>1, <2>3, <3>1, <3>2, <3>3
  <2>4. QED
    BY <1>2, <2>2, <2>3
<1>8. FlagsOK'
  <2>1. InCallback(Depth)' <=> InCallback(Depth) \/ f.callback
    BY <1>2, <1>4 DEF InCallback
  <2>2. callbacksRunning' # {} <=> InCallback(Depth)'
    BY <1>1, <1>3, <2>1 DEF FlagsOK
  <2>3. ASSUME NEW i \in Frames', frames'[i].callback
        PROVE  frames'[i].before # {} <=> InCallback(i - 1)'
    <3>1. CASE i \in Frames
      <4>1. InCallback(i - 1)' <=> InCallback(i - 1)
        BY <1>2, <1>4, <3>1 DEF InCallback
      <4>2. QED
        BY <1>1, <1>2, <2>3, <3>1, <4>1 DEF FlagsOK
    <3>2. CASE i = Depth + 1
      <4>1. InCallback(i - 1)' <=> InCallback(Depth)
        BY <1>2, <1>4, <3>2 DEF InCallback
      <4>2. QED
        BY <1>2, <1>3, <2>3, <3>2, <4>1
    <3>3. QED
      BY <1>2, <3>1, <3>2
  <2>4. QED
    BY <1>3, <2>2, <2>3 DEF FlagsOK
<1>9. QED
  BY <1>6, <1>7, <1>8

\* The calls keep their form when the last one gets another lock state.
LEMMA GrantedCalls ==
  ASSUME IInv, NEW lock \in LockState, GrantStep(lock)
  PROVE  FramesOK' /\ CallsDescend' /\ FlagsOK'
<1>1. TypeOK /\ FramesOK /\ CallsDescend /\ FlagsOK
  BY DEF IInv
<1>2. /\ frames' \in Seq(Frame)
      /\ Depth \in Nat \ {0}
      /\ Depth' = Depth
      /\ Frames' = Frames
      /\ \A i \in Frames \ {Depth} : frames'[i] = frames[i]
      /\ frames'[Depth].contract = Top.contract
      /\ frames'[Depth].kind = Top.kind
      /\ frames'[Depth].callback = Top.callback
      /\ frames'[Depth].before = Top.before
      /\ frames'[Depth].lock = lock
  BY <1>1, Granted DEF TypeOK, GrantStep
<1>3. /\ spinning = "no" /\ spinning' = "no"
      /\ callbacksRunning' = callbacksRunning
      /\ Top.lock \in {"wanted", "announced", "reward"}
      /\ lock # "reward"
      /\ lock = "wanted" => Top.lock = "reward"
      /\ Top.kind = "function" => lock \in {"read", "reuse"}
      /\ Top.kind = "procedure" => lock # "read"
      /\ lock \in {"reuse", "own"} => LockedBefore(Depth)
      /\ lock = "reuse" => InCallback(Depth)
  BY DEF GrantStep
<1>4. Frames = 1 .. Depth /\ Top = frames[Depth] /\ Depth \in Frames
  BY <1>2 DEF Frames, Top
<1>5. \A i \in Frames : /\ frames'[i].contract = frames[i].contract
                        /\ frames'[i].kind = frames[i].kind
                        /\ frames'[i].callback = frames[i].callback
                        /\ frames'[i].before = frames[i].before
                        /\ i # Depth => frames'[i] = frames[i]
                        /\ i = Depth => frames'[i].lock = lock
  BY <1>2, <1>4
<1>6. \A i \in Frames : /\ InCallback(i)' <=> InCallback(i)
                        /\ LockedBefore(i)' <=> LockedBefore(i)
  BY <1>4, <1>5 DEF InCallback, LockedBefore
<1>7. FramesOK'
  <2> SUFFICES ASSUME NEW i \in Frames PROVE FrameOK(i)'
    BY <1>2 DEF FramesOK
  <2>1. FrameOK(i)
    BY <1>1 DEF FramesOK
  <2>2. i > 1 => i - 1 \in Frames /\ frames'[i - 1] = frames[i - 1]
    BY <1>2, <1>4, <1>5
  <2>3. CASE i = Depth
    <3>1. ~(i < Depth') /\ i = Depth'
      BY <1>2, <2>3
    <3>2. QED
      BY <1>3, <1>4, <1>5, <1>6, <2>1, <2>2, <2>3, <3>1 DEF FrameOK
  <2>4. CASE i # Depth
    <3>1. i < Depth /\ i + 1 \in Frames /\ frames'[i] = frames[i]
      BY <1>2, <1>4, <1>5, <2>4
    <3>2. /\ frames'[i + 1].callback = frames[i + 1].callback
          /\ frames'[i + 1].contract = frames[i + 1].contract
          /\ frames'[i + 1].lock # "reward" \/ frames'[i + 1].lock = frames[i + 1].lock
      BY <1>3, <1>5, <3>1
    <3>3. PaysReward(i) => PaysReward(i)'
      BY <2>2, <3>1, <3>2 DEF PaysReward
    <3>4. QED
      BY <1>2, <1>6, <2>1, <2>2, <2>4, <3>1, <3>3 DEF FrameOK
  <2>5. QED
    BY <2>3, <2>4
<1>8. CallsDescend'
  <2> SUFFICES ASSUME NEW i \in Frames, NEW j \in Frames, i < j,
                      \A k \in i + 1 .. j : ~frames'[k].callback
               PROVE  frames'[j].contract < frames'[i].contract
    BY <1>2 DEF CallsDescend
  <2>1. \A k \in i + 1 .. j : k \in Frames
    BY <1>2, <1>4
  <2>2. QED
    BY <1>1, <1>5, <2>1 DEF CallsDescend
<1>9. FlagsOK'
  <2>1. callbacksRunning' # {} <=> InCallback(Depth)'
    BY <1>1, <1>2, <1>3, <1>4, <1>6 DEF FlagsOK, InCallback
  <2>2. \A i \in Frames : InCallback(i - 1)' <=> InCallback(i - 1)
    BY <1>2, <1>4, <1>5 DEF InCallback
  <2>3. QED
    BY <1>1, <1>2, <1>3, <1>5, <2>1, <2>2 DEF FlagsOK
<1>10. QED
  BY <1>7, <1>8, <1>9

\* The calls keep their form when the last one returns.
LEMMA PoppedCalls ==
  ASSUME IInv, PopStep
  PROVE  FramesOK' /\ CallsDescend' /\ FlagsOK'
<1>1. TypeOK /\ FramesOK /\ CallsDescend /\ FlagsOK
  BY DEF IInv
<1>2. /\ frames' \in Seq(Frame)
      /\ Depth \in Nat \ {0}
      /\ Depth' = Depth - 1
      /\ Frames' = Frames \ {Depth}
      /\ \A i \in Frames \ {Depth} : frames'[i] = frames[i]
  BY <1>1, Popped DEF TypeOK, PopStep
<1>3. spinning = "no" /\ spinning' = "no" /\ callbacksRunning' = Restored(Top)
  BY DEF PopStep
<1>4. Frames = 1 .. Depth /\ Top = frames[Depth] /\ Depth \in Frames
  BY <1>2 DEF Frames, Top
<1>5. \A i \in Frames' : i \in Frames /\ i < Depth /\ frames'[i] = frames[i]
  BY <1>2, <1>4
<1>6. \A i \in Frames' : /\ InCallback(i)' <=> InCallback(i)
                         /\ InCallback(i - 1)' <=> InCallback(i - 1)
                         /\ LockedBefore(i)' <=> LockedBefore(i)
  BY <1>2, <1>4, <1>5 DEF InCallback, LockedBefore
<1>7. FramesOK'
  <2> SUFFICES ASSUME NEW i \in Frames' PROVE FrameOK(i)'
    BY DEF FramesOK
  <2>1. FrameOK(i)
    BY <1>1, <1>5 DEF FramesOK
  <2>2. i > 1 => frames'[i - 1] = frames[i - 1]
    BY <1>2, <1>4
  <2>3. i < Depth' => i < Depth /\ frames'[i + 1] = frames[i + 1]
    BY <1>2, <1>4
  <2>4. i < Depth' /\ PaysReward(i) => PaysReward(i)'
    BY <1>5, <2>2, <2>3 DEF PaysReward
  <2>5. frames'[i] = frames[i] /\ i # Depth
    BY <1>2, <1>5
  <2>6. QED
    BY <1>6, <2>1, <2>2, <2>3, <2>4, <2>5 DEF FrameOK
<1>8. CallsDescend'
  <2> SUFFICES ASSUME NEW i \in Frames', NEW j \in Frames', i < j,
                      \A k \in i + 1 .. j : ~frames'[k].callback
               PROVE  frames'[j].contract < frames'[i].contract
    BY DEF CallsDescend
  <2>1. \A k \in i + 1 .. j : k \in Frames'
    BY <1>2, <1>4
  <2>2. QED
    BY <1>1, <1>5, <2>1 DEF CallsDescend
<1>9. FlagsOK'
  <2>1. callbacksRunning' # {} <=> InCallback(Depth)'
    <3>1. InCallback(Depth)' <=> InCallback(Depth - 1)
      BY <1>2, <1>4, <1>5 DEF InCallback
    <3>2. CASE Top.callback
      <4>1. Top.before # {} <=> InCallback(Depth - 1)
        BY <1>1, <1>4, <3>2 DEF FlagsOK
      <4>2. QED
        BY <1>3, <3>1, <3>2, <4>1 DEF Restored
    <3>3. CASE ~Top.callback
      <4>1. InCallback(Depth) <=> InCallback(Depth - 1)
        BY <1>2, <1>4, <3>3 DEF InCallback
      <4>2. callbacksRunning # {} <=> InCallback(Depth)
        BY <1>1, <1>3 DEF FlagsOK
      <4>3. QED
        BY <1>3, <3>1, <3>3, <4>1, <4>2 DEF Restored
    <3>4. QED
      BY <3>2, <3>3
  <2>2. QED
    BY <1>1, <1>3, <1>5, <1>6, <2>1 DEF FlagsOK
<1>10. QED
  BY <1>7, <1>8, <1>9

\* The calls keep their form when the reward of the last one starts a callback.
LEMMA PaidCalls ==
  ASSUME IInv, PayStep
  PROVE  FramesOK' /\ CallsDescend' /\ FlagsOK'
<1> DEFINE f == CallbackOf(Top.contract, "wanted", callbacksRunning)
<1>1. TypeOK /\ FramesOK /\ CallsDescend /\ FlagsOK
  BY DEF IInv
<1>2. /\ spinning = "no" /\ spinning' = "no"
      /\ frames # << >>
      /\ Top.lock = "reward"
      /\ frames' = Append([frames EXCEPT ![Depth].lock = "wanted"], f)
      /\ callbacksRunning' # {}
  BY DEF PayStep
<1>3. /\ f.contract = Top.contract /\ f.kind = "procedure" /\ f.lock = "wanted"
      /\ f.callback /\ f.before = callbacksRunning
  BY DEF CallbackOf
<1>4. f \in Frame
  BY <1>1, <1>2, TopFacts, CallType DEF TypeOK, LockState
<1> HIDE DEF f
<1>5. /\ frames' \in Seq(Frame)
      /\ Depth \in Nat \ {0}
      /\ Depth' = Depth + 1
      /\ Frames' = Frames \cup {Depth + 1}
      /\ \A i \in Frames \ {Depth} : frames'[i] = frames[i]
      /\ frames'[Depth].contract = Top.contract
      /\ frames'[Depth].kind = Top.kind
      /\ frames'[Depth].callback = Top.callback
      /\ frames'[Depth].before = Top.before
      /\ frames'[Depth].lock = "wanted"
      /\ frames'[Depth + 1] = f
  BY <1>1, <1>2, <1>4, PaidReward DEF TypeOK
<1>6. Frames = 1 .. Depth /\ Top = frames[Depth] /\ Depth \in Frames
  BY <1>5 DEF Frames, Top
<1>7. \A i \in Frames : /\ frames'[i].contract = frames[i].contract
                        /\ frames'[i].kind = frames[i].kind
                        /\ frames'[i].callback = frames[i].callback
                        /\ frames'[i].before = frames[i].before
                        /\ i # Depth => frames'[i] = frames[i]
  BY <1>5, <1>6
<1>8. \A i \in Frames : /\ InCallback(i)' <=> InCallback(i)
                        /\ InCallback(i - 1)' <=> InCallback(i - 1)
                        /\ LockedBefore(i)' <=> LockedBefore(i)
  BY <1>5, <1>6, <1>7 DEF InCallback, LockedBefore
<1>9. Top.callback /\ Depth > 1 /\ Top.kind = "procedure"
  <2>1. FrameOK(Depth) /\ Top \in Frame
    BY <1>1, <1>2, <1>6, TopFacts DEF FramesOK
  <2>2. Top.kind \in {"procedure", "function"}
    BY <2>1 DEF Frame
  <2>3. QED
    BY <1>2, <1>6, <2>1, <2>2 DEF FrameOK
<1>10. Depth - 1 \in Frames /\ frames[Depth - 1].lock \in Held /\ frames[Depth - 1].kind = "procedure"
  <2>1. Depth - 1 \in Frames /\ Depth - 1 < Depth /\ (Depth - 1) + 1 = Depth
    BY <1>5, <1>6, <1>9
  <2>2. FrameOK(Depth - 1) /\ FrameOK(Depth) /\ frames[Depth - 1] \in Frame
    BY <1>1, <1>2, <1>6, <2>1, TopFacts DEF FramesOK
  <2>3. frames[Depth - 1].lock \in LockState
    BY <2>2 DEF Frame
  <2>4. ~PaysReward(Depth - 1)
    BY <1>2, <1>6, <2>1 DEF PaysReward
  <2>5. QED
    BY <1>5, <1>6, <1>9, <2>1, <2>2, <2>3, <2>4 DEF FrameOK, LockState
<1>11. FramesOK'
  <2> SUFFICES ASSUME NEW i \in Frames' PROVE FrameOK(i)'
    BY DEF FramesOK
  <2>1. CASE i = Depth + 1
    <3>1. frames'[i] = f /\ ~(i < Depth') /\ i - 1 = Depth
      BY <1>5, <2>1
    <3>2. QED
      BY <1>3, <1>5, <1>9, <3>1 DEF FrameOK
  <2>2. CASE i = Depth
    <3>1. frames'[i - 1] = frames[i - 1]
      BY <1>5, <1>10, <2>2
    <3>2. PaysReward(i)'
      BY <1>3, <1>5, <1>9, <1>10, <2>2, <3>1 DEF PaysReward
    <3>3. QED
      BY <1>5, <1>9, <1>10, <2>2, <3>1, <3>2 DEF FrameOK
  <2>3. CASE i \in Frames \ {Depth}
    <3>1. FrameOK(i)
      BY <1>1, <2>3 DEF FramesOK
    <3>2. frames'[i] = frames[i] /\ i < Depth /\ i < Depth' /\ i + 1 \in Frames
      BY <1>5, <1>6, <2>3
    <3>3. i > 1 => frames'[i - 1] = frames[i - 1]
      BY <1>5, <1>6, <2>3
    <3>4. /\ frames'[i + 1].callback = frames[i + 1].callback
          /\ frames'[i + 1].contract = frames[i + 1].contract
          /\ frames'[i + 1].lock # "reward" \/ frames'[i + 1].lock = frames[i + 1].lock
      BY <1>5, <1>7, <3>2
    <3>5. PaysReward(i) => PaysReward(i)'
      BY <3>2, <3>3, <3>4 DEF PaysReward
    <3>6. QED
      BY <1>8, <2>3, <3>1, <3>2, <3>3, <3>5 DEF FrameOK
  <2>4. QED
    BY <1>5, <2>1, <2>2, <2>3
<1>12. CallsDescend'
  <2> SUFFICES ASSUME NEW i \in Frames', NEW j \in Frames', i < j,
                      \A k \in i + 1 .. j : ~frames'[k].callback
               PROVE  frames'[j].contract < frames'[i].contract
    BY DEF CallsDescend
  <2>1. j # Depth + 1
    <3>1. j \in i + 1 .. j
      BY <1>5, <1>6
    <3>2. QED
      BY <1>3, <1>5, <3>1
  <2>2. i \in Frames /\ j \in Frames /\ \A k \in i + 1 .. j : k \in Frames
    BY <1>5, <1>6, <2>1
  <2>3. QED
    BY <1>1, <1>7, <2>2 DEF CallsDescend
<1>13. FlagsOK'
  <2>1. InCallback(Depth)'
    BY <1>3, <1>5 DEF InCallback
  <2>2. ASSUME NEW i \in Frames', frames'[i].callback
        PROVE  frames'[i].before # {} <=> InCallback(i - 1)'
    <3>1. CASE i \in Frames
      BY <1>1, <1>7, <1>8, <2>2, <3>1 DEF FlagsOK
    <3>2. CASE i = Depth + 1
      <4>1. InCallback(i - 1)' <=> InCallback(Depth)
        BY <1>5, <1>6, <1>7, <3>2 DEF InCallback
      <4>2. QED
        BY <1>1, <1>2, <1>3, <1>5, <3>2, <4>1 DEF FlagsOK
    <3>3. QED
      BY <1>5, <3>1, <3>2
  <2>3. QED
    BY <1>2, <2>1, <2>2 DEF FlagsOK
<1>14. QED
  BY <1>11, <1>12, <1>13

\* Every step keeps the form of the calls.
LEMMA CallsStep ==
  ASSUME IInv, Next
  PROVE  FramesOK' /\ CallsDescend' /\ FlagsOK' /\ frames' \in Seq(Frame)
<1>1. frames \in Seq(Frame)
  BY DEF IInv, TypeOK
<1>2. CASE KeepStep
  BY <1>1, <1>2, KeptCalls DEF KeepStep
<1>3. CASE \E f \in Frame : PushStep(f)
  BY <1>1, <1>3, PushedCalls, Pushed DEF PushStep
<1>4. CASE \E lock \in LockState : GrantStep(lock)
  BY <1>1, <1>4, GrantedCalls, Granted DEF GrantStep
<1>5. CASE PopStep
  BY <1>1, <1>5, PoppedCalls, Popped DEF PopStep
<1>6. CASE PayStep
  <2>1. CallbackOf(Top.contract, "wanted", callbacksRunning) \in Frame
    BY <1>6, TopFacts, CallType DEF IInv, TypeOK, PayStep, LockState
  <2>2. QED
    BY <1>1, <1>6, <2>1, PaidCalls, PaidReward DEF PayStep
<1>7. QED
  BY <1>2, <1>3, <1>4, <1>5, <1>6, FrameSteps

-----------------------------------------------------------------------------
(***************************************************************************)
(* The read locks of the functions.                                        *)
(***************************************************************************)

\* A function gives up the lock it has acquired last.
LEMMA Dropped ==
  ASSUME TypeOK, NEW r \in RequestProcessor, held[r] # << >>, held' = DropLast(r)
  PROVE  /\ held' \in [RequestProcessor -> Seq(Contract)]
         /\ \A q \in RequestProcessor : q # r => held'[q] = held[q]
         /\ DOMAIN held[r] = 1 .. Len(held[r]) /\ Len(held[r]) \in Nat \ {0}
         /\ DOMAIN held'[r] = 1 .. Len(held[r]) - 1 /\ Len(held'[r]) = Len(held[r]) - 1
         /\ \A i \in 1 .. Len(held[r]) - 1 : held'[r][i] = held[r][i]
         /\ LastHeld(r) \in Contract
<1> DEFINE s == held[r]
           n == Len(s)
<1>1. held \in [RequestProcessor -> Seq(Contract)] /\ s \in Seq(Contract)
  BY DEF TypeOK
<1>2. n \in Nat \ {0} /\ n - 1 \in Int /\ 1 \in Int /\ n - 1 - 1 + 1 = n - 1
  BY <1>1
<1>3. DOMAIN s = 1 .. n /\ \A i \in 1 .. n : s[i] \in Contract
  BY <1>1
<1>4. held'[r] = SubSeq(s, 1, n - 1) /\ \A q \in RequestProcessor : q # r => held'[q] = held[q]
  BY <1>1 DEF DropLast
<1>5. LastHeld(r) = s[n]
  BY DEF LastHeld
<1> HIDE DEF n
<1>6. \A i \in 1 .. n - 1 : s[i] \in Contract
  BY <1>2, <1>3
<1> HIDE DEF s
<1>7. /\ SubSeq(s, 1, n - 1) \in Seq(Contract)
      /\ Len(SubSeq(s, 1, n - 1)) = (IF 1 <= n - 1 THEN n - 1 - 1 + 1 ELSE 0)
      /\ \A i \in 1 .. n - 1 - 1 + 1 : SubSeq(s, 1, n - 1)[i] = s[1 + i - 1]
  BY <1>2, <1>6, SubSeqProperties
<1>8. Len(SubSeq(s, 1, n - 1)) = n - 1
  BY <1>2, <1>7
<1>9. ASSUME NEW i \in 1 .. n - 1
      PROVE  SubSeq(s, 1, n - 1)[i] = s[i]
  <2>1. i \in 1 .. n - 1 - 1 + 1 /\ 1 + i - 1 = i
    BY <1>2
  <2>2. QED
    BY <1>7, <2>1
<1>10. DOMAIN SubSeq(s, 1, n - 1) = 1 .. n - 1
  BY <1>7, <1>8
<1>11. held' \in [RequestProcessor -> Seq(Contract)]
  <2>1. held' = [held EXCEPT ![r] = SubSeq(s, 1, n - 1)]
    BY DEF DropLast, s, n
  <2>2. QED
    BY <1>1, <1>7, <2>1
<1>12. n = Len(held[r]) /\ s = held[r]
  BY DEF n, s
<1>13. s[n] \in Contract
  BY <1>2, <1>3
<1>14. QED
  BY <1>2, <1>3, <1>4, <1>5, <1>7, <1>8, <1>9, <1>10, <1>11, <1>12, <1>13

\* A function acquires another lock.
LEMMA Added ==
  ASSUME TypeOK, NEW r \in RequestProcessor, want[r] \in Contract,
         held' = [held EXCEPT ![r] = Append(@, want[r])]
  PROVE  /\ held' \in [RequestProcessor -> Seq(Contract)]
         /\ \A q \in RequestProcessor : q # r => held'[q] = held[q]
         /\ Len(held[r]) \in Nat
         /\ DOMAIN held[r] = 1 .. Len(held[r])
         /\ DOMAIN held'[r] = 1 .. Len(held[r]) + 1
         /\ held'[r] # << >>
         /\ held'[r][Len(held[r]) + 1] = want[r]
         /\ \A i \in 1 .. Len(held[r]) : held'[r][i] = held[r][i]
<1> DEFINE s == Append(held[r], want[r])
<1>1. held \in [RequestProcessor -> Seq(Contract)] /\ held[r] \in Seq(Contract)
  BY DEF TypeOK
<1>2. /\ s \in Seq(Contract)
      /\ Len(s) = Len(held[r]) + 1
      /\ s[Len(held[r]) + 1] = want[r]
      /\ \A i \in 1 .. Len(held[r]) : s[i] = held[r][i]
  BY <1>1, Appended
<1>3. held' = [held EXCEPT ![r] = s]
  OBVIOUS
<1> HIDE DEF s
<1>4. held'[r] = s /\ \A q \in RequestProcessor : q # r => held'[q] = held[q]
  BY <1>1, <1>3
<1>5. held' \in [RequestProcessor -> Seq(Contract)]
  BY <1>1, <1>2, <1>3
<1>6. Len(held[r]) \in Nat /\ DOMAIN held[r] = 1 .. Len(held[r]) /\ DOMAIN s = 1 .. Len(s)
  BY <1>1, <1>2
<1>7. s # << >>
  BY <1>2, <1>6
<1>8. QED
  BY <1>2, <1>4, <1>5, <1>6, <1>7

\* Every step of a function keeps the order of its locks.
LEMMA FunctionsStep ==
  ASSUME IInv, NEW r \in RequestProcessor, Function(r)
  PROVE  FunctionsOK'
<1>1. TypeOK /\ FunctionOK(r)
  BY DEF IInv, FunctionsOK
<1>2. /\ pc \in [RequestProcessor -> {"idle", "test", "lock", "failed", "run", "universe", "unwind"}]
      /\ want \in [RequestProcessor -> Contract \cup {0}]
      /\ held \in [RequestProcessor -> Seq(Contract)]
  BY <1>1 DEF TypeOK
<1>3. held[r] \in Seq(Contract) /\ Len(held[r]) \in Nat /\ DOMAIN held[r] = 1 .. Len(held[r])
  BY <1>2
<1>4. \A q \in RequestProcessor : q # r =>
        pc'[q] = pc[q] /\ want'[q] = want[q] /\ held'[q] = held[q]
  BY <1>2 DEF Function, StartFunction, CallFromFunction, TestWriters, AcquireRead, RetryOrStop,
              AbortFunction, Unwind, QueryShares, SharesQueried, Return, DropLast
<1>5. FunctionOK(r)'
  <2>1. CASE \E c \in Contract : StartFunction(r, c)
    <3>1. pc[r] = "idle" /\ pc'[r] = "test" /\ want'[r] \in Contract /\ held'[r] = held[r]
      BY <1>2, <2>1 DEF StartFunction
    <3>2. QED
      BY <1>1, <1>3, <3>1 DEF FunctionOK
  <2>2. CASE \E c \in Contract : CallFromFunction(r, c)
    <3>1. PICK c \in Contract : CallFromFunction(r, c)
      BY <2>2
    <3>2. pc[r] = "run" /\ pc'[r] = "test" /\ want'[r] = c /\ held'[r] = held[r]
          /\ c < LastHeld(r)
      BY <1>2, <3>1 DEF CallFromFunction
    <3>3. \A i \in DOMAIN held[r] : c < held[r][i]
      <4>1. held[r] # << >> /\ Len(held[r]) \in DOMAIN held[r]
        BY <1>1, <1>3, <3>2 DEF FunctionOK
      <4>2. \A i \in DOMAIN held[r] : i = Len(held[r]) \/ i < Len(held[r])
        BY <1>3
      <4>3. \A i \in DOMAIN held[r] : held[r][i] \in Int
        <5>1. Contract \subseteq Int
          BY DEF Contract
        <5>2. \A i \in 1 .. Len(held[r]) : held[r][i] \in Contract
          BY <1>3
        <5>3. QED
          BY <1>3, <5>1, <5>2
      <4>4. \A i \in DOMAIN held[r] : i < Len(held[r]) => held[r][Len(held[r])] < held[r][i]
        BY <1>1, <4>1 DEF FunctionOK
      <4>5. c \in Int
        BY DEF Contract
      <4>6. QED
        BY <3>2, <4>1, <4>2, <4>3, <4>4, <4>5 DEF LastHeld
    <3>4. QED
      BY <1>1, <3>2, <3>3 DEF FunctionOK
  <2>3. CASE TestWriters(r) \/ RetryOrStop(r) \/ AbortFunction(r) \/ QueryShares(r) \/ SharesQueried(r)
    <3>1. held'[r] = held[r] /\ (want'[r] = want[r] \/ pc'[r] = "unwind")
      BY <1>2, <2>3 DEF TestWriters, RetryOrStop, AbortFunction, QueryShares, SharesQueried
    <3>2. \/ pc[r] \in {"test", "failed"} /\ pc'[r] \in {"lock", "failed", "test"}
          \/ pc[r] \in {"run", "universe"} /\ pc'[r] \in {"run", "universe"}
          \/ pc'[r] = "unwind"
      BY <1>2, <2>3 DEF TestWriters, RetryOrStop, AbortFunction, QueryShares, SharesQueried
    <3>3. QED
      BY <1>1, <3>1, <3>2 DEF FunctionOK
  <2>4. CASE AcquireRead(r)
    <3>1. pc[r] = "lock" /\ want[r] \in Contract
      BY <1>1, <2>4 DEF AcquireRead, FunctionOK
    <3>2. CASE readers[want[r]] >= 0
      <4>1. pc'[r] = "run" /\ held' = [held EXCEPT ![r] = Append(@, want[r])]
        BY <1>2, <2>4, <3>2 DEF AcquireRead
      <4>2. /\ DOMAIN held'[r] = 1 .. Len(held[r]) + 1
            /\ held'[r] # << >>
            /\ held'[r][Len(held[r]) + 1] = want[r]
            /\ \A i \in 1 .. Len(held[r]) : held'[r][i] = held[r][i]
        BY <1>1, <3>1, <4>1, Added
      <4>3. ASSUME NEW i \in DOMAIN held'[r], NEW j \in DOMAIN held'[r], i < j
            PROVE  held'[r][j] < held'[r][i]
        <5>1. i \in DOMAIN held[r] /\ held'[r][i] = held[r][i]
          BY <1>3, <4>2, <4>3
        <5>2. CASE j = Len(held[r]) + 1
          BY <1>1, <3>1, <4>2, <5>1, <5>2 DEF FunctionOK
        <5>3. CASE j # Len(held[r]) + 1
          <6>1. j \in DOMAIN held[r] /\ held'[r][j] = held[r][j]
            BY <1>3, <4>2, <5>3
          <6>2. QED
            BY <1>1, <4>3, <5>1, <6>1 DEF FunctionOK
        <5>4. QED
          BY <5>2, <5>3
      <4>4. QED
        BY <4>1, <4>2, <4>3 DEF FunctionOK
    <3>3. CASE ~(readers[want[r]] >= 0)
      <4>1. pc'[r] = "failed" /\ held' = held /\ want' = want
        BY <1>2, <2>4, <3>3 DEF AcquireRead
      <4>2. QED
        BY <1>1, <3>1, <4>1 DEF FunctionOK
    <3>4. QED
      BY <3>2, <3>3
  <2>5. CASE Unwind(r) \/ Return(r)
    <3>1. CASE held[r] = << >>
      <4>1. pc'[r] = "idle" /\ held'[r] = << >>
        BY <1>1, <1>2, <2>5, <3>1 DEF Unwind, Return, FunctionOK
      <4>2. QED
        BY <4>1 DEF FunctionOK
    <3>2. CASE held[r] # << >>
      <4>1. held' = DropLast(r)
        BY <2>5, <3>2 DEF Unwind, Return
      <4>2. /\ DOMAIN held'[r] = 1 .. Len(held[r]) - 1
            /\ Len(held'[r]) = Len(held[r]) - 1
            /\ held' \in [RequestProcessor -> Seq(Contract)]
            /\ \A i \in 1 .. Len(held[r]) - 1 : held'[r][i] = held[r][i]
        BY <1>1, <3>2, <4>1, Dropped
      <4>3. \/ pc'[r] = "unwind"
            \/ pc'[r] = "run" /\ Len(held[r]) # 1
            \/ pc'[r] = "idle" /\ Len(held[r]) = 1
        BY <1>2, <2>5, <3>2 DEF Unwind, Return
      <4>4. held'[r] = << >> <=> Len(held[r]) = 1
        <5>1. held'[r] \in Seq(Contract)
          BY <4>2
        <5>2. held'[r] = << >> <=> Len(held'[r]) = 0
          BY <5>1
        <5>3. QED
          BY <1>3, <4>2, <5>2
      <4>5. \A i, j \in DOMAIN held'[r] : i < j => held'[r][j] < held'[r][i]
        BY <1>1, <1>3, <4>2 DEF FunctionOK
      <4>6. QED
        BY <4>3, <4>4, <4>5 DEF FunctionOK
    <3>3. QED
      BY <3>1, <3>2
  <2>6. QED
    BY <2>1, <2>2, <2>3, <2>4, <2>5 DEF Function
<1>6. QED
  BY <1>4, <1>5 DEF IInv, FunctionsOK, FunctionOK

-----------------------------------------------------------------------------
(***************************************************************************)
(* The locks that the contract processor holds.                            *)
(***************************************************************************)

\* The calls that hold locks are the same when no call changes its lock state.
LEMMA KeptLocks ==
  ASSUME frames' = frames, NEW c \in Contract
  PROVE  Writes(c)' = Writes(c) /\ Reads(c)' = Reads(c)
BY DEF Writes, Reads, Frames, Depth

\* A call that begins holds no lock.
LEMMA PushedLocks ==
  ASSUME IInv, NEW f \in Frame, PushStep(f), NEW c \in Contract
  PROVE  /\ Writes(c)' = Writes(c) /\ Reads(c)' = Reads(c)
         /\ frames' # << >> /\ Top' = f
<1>1. /\ frames' \in Seq(Frame)
      /\ Depth \in Nat
      /\ Depth' = Depth + 1
      /\ Frames' = Frames \cup {Depth + 1}
      /\ frames'[Depth + 1] = f
      /\ \A i \in Frames : frames'[i] = frames[i]
  BY Pushed DEF IInv, TypeOK, PushStep
<1>2. f.lock \in {"wanted", "reward"}
  BY DEF PushStep
<1>3. Depth + 1 \notin Frames
  BY <1>1 DEF Frames
<1>4. Writes(c)' = Writes(c) /\ Reads(c)' = Reads(c)
  BY <1>1, <1>2, <1>3 DEF Writes, Reads
<1>5. frames' # << >> /\ Top' = f
  BY <1>1 DEF Top, Depth
<1>6. QED
  BY <1>4, <1>5

\* The call on top acquires the lock, and no other.
LEMMA GrantedLocks ==
  ASSUME IInv, NEW lock \in LockState, GrantStep(lock), NEW c \in Contract
  PROVE  /\ Depth \notin Writes(c) /\ Depth \notin Reads(c)
         /\ Writes(c)' = IF lock = "write" /\ c = Top.contract
                         THEN Writes(c) \cup {Depth} ELSE Writes(c)
         /\ Reads(c)' = IF lock = "read" /\ c = Top.contract
                        THEN Reads(c) \cup {Depth} ELSE Reads(c)
         /\ frames' # << >> /\ Top'.lock = lock /\ Top'.contract = Top.contract
<1>1. /\ frames' \in Seq(Frame)
      /\ Depth \in Nat \ {0}
      /\ Depth' = Depth
      /\ Frames' = Frames
      /\ \A i \in Frames \ {Depth} : frames'[i] = frames[i]
      /\ frames'[Depth].contract = Top.contract
      /\ frames'[Depth].lock = lock
  BY Granted DEF IInv, TypeOK, GrantStep
<1>2. Top.lock \in {"wanted", "announced", "reward"}
  BY DEF GrantStep
<1>3. Top = frames[Depth] /\ Depth \in Frames
  BY <1>1 DEF Frames, Top
<1>4. Depth \notin Writes(c) /\ Depth \notin Reads(c)
  BY <1>2, <1>3 DEF Writes, Reads
<1>5. Writes(c)' = IF lock = "write" /\ c = Top.contract THEN Writes(c) \cup {Depth} ELSE Writes(c)
  BY <1>1, <1>2, <1>3 DEF Writes
<1>6. Reads(c)' = IF lock = "read" /\ c = Top.contract THEN Reads(c) \cup {Depth} ELSE Reads(c)
  BY <1>1, <1>2, <1>3 DEF Reads
<1>7. frames' # << >> /\ Top' = frames'[Depth]
  BY <1>1 DEF Top, Depth
<1>8. QED
  BY <1>1, <1>4, <1>5, <1>6, <1>7

\* The call on top releases its lock, and no other.
LEMMA PoppedLocks ==
  ASSUME IInv, PopStep, NEW c \in Contract
  PROVE  /\ Depth \in Writes(c) <=> c = Top.contract /\ Top.lock = "write"
         /\ Depth \in Reads(c) <=> c = Top.contract /\ Top.lock = "read"
         /\ Writes(c)' = Writes(c) \ {Depth} /\ Reads(c)' = Reads(c) \ {Depth}
         /\ frames' # << >> => Top'.lock # "announced"
<1>1. /\ frames' \in Seq(Frame)
      /\ Depth \in Nat \ {0}
      /\ Depth' = Depth - 1
      /\ Frames' = Frames \ {Depth}
      /\ \A i \in Frames \ {Depth} : frames'[i] = frames[i]
  BY Popped DEF IInv, TypeOK, PopStep
<1>2. Top = frames[Depth] /\ Depth \in Frames
  BY <1>1 DEF Frames, Top
<1>3. /\ Depth \in Writes(c) <=> c = Top.contract /\ Top.lock = "write"
      /\ Depth \in Reads(c) <=> c = Top.contract /\ Top.lock = "read"
  BY <1>2 DEF Writes, Reads
<1>4. Writes(c)' = Writes(c) \ {Depth} /\ Reads(c)' = Reads(c) \ {Depth}
  BY <1>1, <1>2 DEF Writes, Reads
<1>5. ASSUME frames' # << >>
      PROVE  Top'.lock # "announced"
  <2>1. Depth - 1 \in Frames \ {Depth} /\ Depth - 1 # Depth
    <3>1. Depth' = Len(frames') /\ Len(frames') # 0
      BY <1>1, <1>5 DEF Depth
    <3>2. QED
      BY <1>1, <3>1 DEF Frames
  <2>2. Top' = frames[Depth - 1]
    BY <1>1, <2>1 DEF Top
  <2>3. FrameOK(Depth - 1)
    BY <2>1 DEF IInv, FramesOK
  <2>4. QED
    BY <2>1, <2>2, <2>3 DEF FrameOK
<1>6. QED
  BY <1>3, <1>4, <1>5

\* A call whose reward is paid holds no lock, and the callback neither.
LEMMA PaidLocks ==
  ASSUME IInv, PayStep, NEW c \in Contract
  PROVE  /\ Writes(c)' = Writes(c) /\ Reads(c)' = Reads(c)
         /\ frames' # << >> /\ Top'.lock = "wanted"
<1> DEFINE f == CallbackOf(Top.contract, "wanted", callbacksRunning)
<1>1. /\ frames # << >>
      /\ Top.lock = "reward"
      /\ frames' = Append([frames EXCEPT ![Depth].lock = "wanted"], f)
  BY DEF PayStep
<1>2. f \in Frame /\ f.lock = "wanted"
  BY <1>1, TopFacts, CallType DEF IInv, TypeOK, LockState, CallbackOf
<1> HIDE DEF f
<1>3. /\ frames' \in Seq(Frame)
      /\ Depth \in Nat \ {0}
      /\ Depth' = Depth + 1
      /\ Frames' = Frames \cup {Depth + 1}
      /\ \A i \in Frames \ {Depth} : frames'[i] = frames[i]
      /\ frames'[Depth].lock = "wanted"
      /\ frames'[Depth + 1] = f
  BY <1>1, <1>2, PaidReward DEF IInv, TypeOK
<1>4. Top = frames[Depth] /\ Depth \in Frames /\ Depth + 1 \notin Frames
  BY <1>3 DEF Frames, Top
<1>5. Writes(c)' = Writes(c) /\ Reads(c)' = Reads(c)
  BY <1>1, <1>2, <1>3, <1>4 DEF Writes, Reads
<1>6. frames' # << >> /\ Top' = f
  BY <1>3 DEF Top, Depth
<1>7. QED
  BY <1>2, <1>5, <1>6

\* Only a call on top is a waiting writer.
LEMMA WritersStep ==
  ASSUME IInv, Next
  PROVE  WritersOK' /\ writersWaiting' \in [Contract -> Nat]
<1>1. TypeOK /\ WritersOK
  BY DEF IInv
<1>2. writersWaiting \in [Contract -> Nat]
  BY <1>1 DEF TypeOK
<1>3. CASE KeepStep
  <2>1. frames' = frames /\ writersWaiting' = writersWaiting /\ Top' = Top
    BY <1>3 DEF KeepStep, Top, Depth
  <2>2. frames # << >> => Top.contract \in Contract
    BY <1>1, TopFacts
  <2>3. frames # << >> => Writes(Top.contract)' = Writes(Top.contract)
    BY <2>1 DEF Writes, Frames, Depth, Top
  <2>4. QED
    BY <1>1, <1>2, <2>1, <2>2, <2>3 DEF WritersOK
<1>4. ASSUME ~(frames # << >> /\ Top.lock = "announced"),
             writersWaiting' = writersWaiting,
             frames' # << >> => Top'.lock # "announced"
      PROVE  WritersOK' /\ writersWaiting' \in [Contract -> Nat]
  BY <1>1, <1>2, <1>4 DEF WritersOK
<1>5. CASE \E f \in Frame : PushStep(f)
  <2>1. PICK f \in Frame : PushStep(f)
    BY <1>5
  <2>2. \E c \in Contract : TRUE
    BY <2>1 DEF Frame
  <2>3. Top' = f
    BY <2>1, <2>2, PushedLocks
  <2>4. QED
    BY <1>4, <2>1, <2>3 DEF PushStep, lockVars, Held
<1>6. CASE \E lock \in LockState : GrantStep(lock)
  <2>1. PICK lock \in LockState : GrantStep(lock)
    BY <1>6
  <2>2. Top.contract \in Contract
    BY <1>1, <2>1, TopFacts DEF GrantStep
  <2>3. frames # << >> /\ frames' # << >> /\ Top'.lock = lock /\ Top'.contract = Top.contract
    BY <2>1, <2>2, GrantedLocks DEF GrantStep
  <2>4. CASE lock = "announced"
    <3>1. Top.lock = "wanted" /\ Writes(Top.contract) = {}
          /\ writersWaiting' = [writersWaiting EXCEPT ![Top.contract] = @ + 1]
      BY <2>1, <2>4 DEF GrantStep, Announced
    <3>2. \A c \in Contract : writersWaiting[c] = 0
      BY <1>1, <3>1 DEF WritersOK
    <3>3. \A c \in Contract : Writes(c)' = Writes(c)
      BY <2>1, <2>4, GrantedLocks
    <3>4. \A c \in Contract : c = Top'.contract => Writes(c)' = {}
      BY <2>3, <3>1, <3>3
    <3>5. Writes(Top.contract)' = {}
      BY <2>2, <2>3, <3>4 DEF Writes, Top
    <3>6. \A c \in Contract : writersWaiting'[c] = IF c = Top.contract THEN 1 ELSE 0
      BY <1>2, <2>2, <3>1, <3>2
    <3>7. writersWaiting' \in [Contract -> Nat]
      BY <1>2, <2>2, <3>1
    <3>8. QED
      BY <2>3, <2>4, <3>5, <3>6, <3>7 DEF WritersOK
  <2>5. CASE lock = "write"
    <3>1. Top.lock = "announced"
          /\ writersWaiting' = [writersWaiting EXCEPT ![Top.contract] = @ - 1]
      BY <2>1, <2>5 DEF GrantStep
    <3>2. \A c \in Contract : writersWaiting[c] = IF c = Top.contract THEN 1 ELSE 0
      BY <1>1, <2>3, <3>1 DEF WritersOK
    <3>3. \A c \in Contract : writersWaiting'[c] = 0
      BY <1>2, <2>2, <3>1, <3>2
    <3>4. writersWaiting' \in [Contract -> Nat]
      BY <1>2, <2>2, <3>1, <3>2
    <3>5. QED
      BY <2>3, <2>5, <3>3, <3>4 DEF WritersOK
  <2>6. CASE lock \notin {"announced", "write"}
    <3>1. Top.lock # "announced" /\ writersWaiting' = writersWaiting
      BY <2>1, <2>6 DEF GrantStep
    <3>2. QED
      BY <1>4, <2>3, <2>6, <3>1
  <2>7. QED
    BY <2>4, <2>5, <2>6
<1>7. CASE PopStep
  <2>1. Top.contract \in Contract
    BY <1>1, <1>7, TopFacts DEF PopStep
  <2>2. frames' # << >> => Top'.lock # "announced"
    BY <1>7, <2>1, PoppedLocks
  <2>3. QED
    BY <1>4, <1>7, <2>2 DEF PopStep, Held
<1>8. CASE PayStep
  <2>1. Top.contract \in Contract
    BY <1>1, <1>8, TopFacts DEF PayStep
  <2>2. Top'.lock = "wanted"
    BY <1>8, <2>1, PaidLocks
  <2>3. QED
    BY <1>4, <1>8, <2>2 DEF PayStep, lockVars
<1>9. QED
  BY <1>3, <1>5, <1>6, <1>7, <1>8, FrameSteps

-----------------------------------------------------------------------------
(***************************************************************************)
(* The counters of readers.                                                *)
(***************************************************************************)

\* The part of MutualExclusion that is about contract c.
Exclusive(c) ==
  IF Writes(c) # {}
  THEN /\ readers[c] = -1
       /\ Cardinality(Writes(c)) = 1
       /\ Reads(c) = {} /\ FunctionsOn(c) = {}
  ELSE readers[c] = Cardinality(Reads(c)) + Cardinality(FunctionsOn(c))

\* The functions that hold a lock are the same when none acquires or releases one.
LEMMA SameFunctions ==
  ASSUME held' = held, NEW c \in Contract
  PROVE  FunctionsOn(c)' = FunctionsOn(c)
BY DEF FunctionsOn

\* Nothing that exclusion is about changes.
LEMMA SameCounts ==
  ASSUME IInv, NEW c \in Contract, Writes(c)' = Writes(c), Reads(c)' = Reads(c),
         FunctionsOn(c)' = FunctionsOn(c), readers'[c] = readers[c]
  PROVE  Exclusive(c)'
BY DEF IInv, MutualExclusion, Exclusive

\* A function that acquires its lock becomes one of the readers, and only there.
LEMMA AddedFunction ==
  ASSUME IInv, NEW r \in RequestProcessor, pc[r] = "lock",
         held' = [held EXCEPT ![r] = Append(@, want[r])], NEW c \in Contract
  PROVE  /\ want[r] \in Contract
         /\ c # want[r] => FunctionsOn(c)' = FunctionsOn(c)
         /\ r \notin FunctionsOn(want[r])
         /\ c = want[r] => FunctionsOn(c)' = FunctionsOn(c) \cup {r}
<1>1. TypeOK /\ FunctionOK(r)
  BY DEF IInv, FunctionsOK
<1>2. want[r] \in Contract /\ \A i \in DOMAIN held[r] : want[r] < held[r][i]
  BY <1>1 DEF FunctionOK
<1>3. /\ \A q \in RequestProcessor : q # r => held'[q] = held[q]
      /\ Len(held[r]) \in Nat
      /\ DOMAIN held[r] = 1 .. Len(held[r])
      /\ DOMAIN held'[r] = 1 .. Len(held[r]) + 1
      /\ held'[r][Len(held[r]) + 1] = want[r]
      /\ \A i \in 1 .. Len(held[r]) : held'[r][i] = held[r][i]
  BY <1>1, <1>2, Added
<1>4. r \notin FunctionsOn(want[r])
  <2>1. want[r] \in Int
    BY <1>2 DEF Contract
  <2>2. QED
    BY <1>2, <2>1 DEF FunctionsOn
<1>5. (\E i \in DOMAIN held'[r] : held'[r][i] = c)
         <=> (c = want[r] \/ \E i \in DOMAIN held[r] : held[r][i] = c)
  BY <1>3
<1>6. c # want[r] => FunctionsOn(c)' = FunctionsOn(c)
  BY <1>3, <1>5 DEF FunctionsOn
<1>7. c = want[r] => FunctionsOn(c)' = FunctionsOn(c) \cup {r}
  BY <1>3, <1>5 DEF FunctionsOn
<1>8. QED
  BY <1>2, <1>4, <1>6, <1>7

\* A function that releases its last lock is no reader of that contract any more.
LEMMA DroppedFunction ==
  ASSUME IInv, NEW r \in RequestProcessor, held[r] # << >>, held' = DropLast(r),
         NEW c \in Contract
  PROVE  /\ LastHeld(r) \in Contract
         /\ c # LastHeld(r) => FunctionsOn(c)' = FunctionsOn(c)
         /\ r \in FunctionsOn(LastHeld(r))
         /\ c = LastHeld(r) => FunctionsOn(c)' = FunctionsOn(c) \ {r}
<1> DEFINE n == Len(held[r])
<1>1. TypeOK /\ FunctionOK(r)
  BY DEF IInv, FunctionsOK
<1>2. /\ \A q \in RequestProcessor : q # r => held'[q] = held[q]
      /\ DOMAIN held[r] = 1 .. n /\ n \in Nat \ {0}
      /\ DOMAIN held'[r] = 1 .. n - 1
      /\ \A i \in 1 .. n - 1 : held'[r][i] = held[r][i]
      /\ LastHeld(r) \in Contract
  BY <1>1, Dropped
<1>3. LastHeld(r) = held[r][n]
  BY DEF LastHeld
<1> HIDE DEF n
<1>4. n \in DOMAIN held[r] /\ \A i \in DOMAIN held[r] : i \in 1 .. n - 1 \/ i = n
  BY <1>2
<1>5. r \in FunctionsOn(LastHeld(r))
  BY <1>3, <1>4 DEF FunctionsOn
<1>6. \A i \in 1 .. n - 1 : held[r][i] # LastHeld(r)
  <2>1. \A i \in 1 .. n - 1 : i \in DOMAIN held[r] /\ i < n
    BY <1>2
  <2>2. \A i \in 1 .. n - 1 : LastHeld(r) < held[r][i]
    BY <1>1, <1>3, <1>4, <2>1 DEF FunctionOK
  <2>3. LastHeld(r) \in Int
    BY <1>2 DEF Contract
  <2>4. QED
    BY <2>2, <2>3
<1>7. (\E i \in DOMAIN held'[r] : held'[r][i] = c)
         <=> (c # LastHeld(r) /\ \E i \in DOMAIN held[r] : held[r][i] = c)
  <2>1. CASE c = LastHeld(r)
    BY <1>2, <1>6, <2>1
  <2>2. CASE c # LastHeld(r)
    BY <1>2, <1>3, <1>4, <2>2
  <2>3. QED
    BY <2>1, <2>2
<1>8. c # LastHeld(r) => FunctionsOn(c)' = FunctionsOn(c)
  BY <1>2, <1>7 DEF FunctionsOn
<1>9. c = LastHeld(r) => FunctionsOn(c)' = FunctionsOn(c) \ {r}
  BY <1>2, <1>7 DEF FunctionsOn
<1>10. QED
  BY <1>2, <1>5, <1>8, <1>9

\* Steps of a function keep the counters exact.
LEMMA FunctionCounts ==
  ASSUME IInv, NEW r \in RequestProcessor, Function(r), frames' = frames, NEW c \in Contract
  PROVE  Exclusive(c)' /\ readers' \in [Contract -> Int]
<1>1. TypeOK /\ MutualExclusion /\ FunctionOK(r)
  BY DEF IInv, FunctionsOK
<1>2. readers \in [Contract -> Int]
  BY <1>1 DEF TypeOK
<1>3. Writes(c)' = Writes(c) /\ Reads(c)' = Reads(c)
  BY KeptLocks
<1>4. /\ Writes(c) = {} <=> readers[c] >= 0
      /\ FunctionsOn(c) # {} => Writes(c) = {}
      /\ Writes(c) = {} => /\ IsFiniteSet(FunctionsOn(c))
                          /\ Cardinality(Reads(c)) \in Nat
                          /\ Cardinality(FunctionsOn(c)) \in Nat
                          /\ readers[c] = Cardinality(Reads(c)) + Cardinality(FunctionsOn(c))
  BY <1>1, ReaderCounts
<1>5. CASE UNCHANGED <<held, readers>>
  BY <1>2, <1>3, <1>5, SameFunctions, SameCounts
<1>6. CASE AcquireRead(r) /\ readers[want[r]] >= 0
  <2>1. /\ pc[r] = "lock"
        /\ held' = [held EXCEPT ![r] = Append(@, want[r])]
        /\ readers' = [readers EXCEPT ![want[r]] = @ + 1]
    BY <1>6 DEF AcquireRead
  <2>2. /\ want[r] \in Contract
        /\ c # want[r] => FunctionsOn(c)' = FunctionsOn(c)
        /\ r \notin FunctionsOn(want[r])
        /\ c = want[r] => FunctionsOn(c)' = FunctionsOn(c) \cup {r}
    BY <2>1, AddedFunction
  <2>3. readers' \in [Contract -> Int]
    BY <1>2, <2>1, <2>2
  <2>4. CASE c # want[r]
    <3>1. readers'[c] = readers[c]
      BY <1>2, <2>1, <2>4
    <3>2. QED
      BY <1>3, <2>2, <2>3, <2>4, <3>1, SameCounts
  <2>5. CASE c = want[r]
    <3>1. Writes(c) = {} /\ readers'[c] = readers[c] + 1
      BY <1>2, <1>4, <1>6, <2>1, <2>5
    <3>2. Cardinality(FunctionsOn(c)') = Cardinality(FunctionsOn(c)) + 1
      BY <1>4, <2>2, <2>5, <3>1, FS_AddElement
    <3>3. QED
      BY <1>3, <1>4, <2>3, <3>1, <3>2 DEF Exclusive
  <2>6. QED
    BY <2>4, <2>5
<1>7. CASE /\ held[r] # << >> /\ held' = DropLast(r)
           /\ readers' = [readers EXCEPT ![LastHeld(r)] = @ - 1]
  <2>1. /\ LastHeld(r) \in Contract
        /\ c # LastHeld(r) => FunctionsOn(c)' = FunctionsOn(c)
        /\ r \in FunctionsOn(LastHeld(r))
        /\ c = LastHeld(r) => FunctionsOn(c)' = FunctionsOn(c) \ {r}
    BY <1>7, DroppedFunction
  <2>2. readers' \in [Contract -> Int]
    BY <1>2, <1>7, <2>1
  <2>3. CASE c # LastHeld(r)
    <3>1. readers'[c] = readers[c]
      BY <1>2, <1>7, <2>3
    <3>2. QED
      BY <1>3, <2>1, <2>2, <2>3, <3>1, SameCounts
  <2>4. CASE c = LastHeld(r)
    <3>1. Writes(c) = {} /\ readers'[c] = readers[c] - 1
      BY <1>2, <1>4, <1>7, <2>1, <2>4
    <3>2. Cardinality(FunctionsOn(c)') = Cardinality(FunctionsOn(c)) - 1
      BY <1>4, <2>1, <2>4, <3>1, FS_RemoveElement
    <3>3. QED
      BY <1>3, <1>4, <2>2, <3>1, <3>2 DEF Exclusive
  <2>5. QED
    BY <2>3, <2>4
<1>8. CASE Unwind(r) \/ Return(r)
  <2>1. Return(r) => held[r] # << >>
    BY <1>1 DEF Return, FunctionOK
  <2>2. CASE held[r] = << >>
    BY <1>5, <1>8, <2>1, <2>2 DEF Unwind
  <2>3. CASE held[r] # << >>
    BY <1>7, <1>8, <2>3 DEF Unwind, Return
  <2>4. QED
    BY <2>2, <2>3
<1>9. CASE AcquireRead(r) /\ ~(readers[want[r]] >= 0)
  BY <1>5, <1>9 DEF AcquireRead
<1>10. CASE \/ \E k \in Contract : StartFunction(r, k) \/ CallFromFunction(r, k)
            \/ TestWriters(r) \/ RetryOrStop(r) \/ AbortFunction(r)
            \/ QueryShares(r) \/ SharesQueried(r)
  BY <1>5, <1>10 DEF StartFunction, CallFromFunction, TestWriters, RetryOrStop, AbortFunction,
                     QueryShares, SharesQueried, lockVars
<1>11. QED
  BY <1>6, <1>8, <1>9, <1>10 DEF Function

\* Every step keeps the counters exact.
LEMMA MutualStep ==
  ASSUME IInv, Next
  PROVE  MutualExclusion' /\ readers' \in [Contract -> Int]
<1>1. TypeOK /\ MutualExclusion
  BY DEF IInv
<1>2. readers \in [Contract -> Int]
  BY <1>1 DEF TypeOK
<1>3. ASSUME \A c \in Contract : Exclusive(c)' /\ readers' \in [Contract -> Int]
      PROVE  MutualExclusion' /\ readers' \in [Contract -> Int]
  <2>1. \E c \in Contract : TRUE
    <3>1. 1 \in Contract
      BY ConstantsAssumption DEF Contract
    <3>2. QED
      BY <3>1
  <2>2. QED
    BY <1>3, <2>1 DEF MutualExclusion, Exclusive
<1> SUFFICES ASSUME NEW c \in Contract
             PROVE  Exclusive(c)' /\ readers' \in [Contract -> Int]
  BY <1>3
<1>4. /\ Writes(c) = {} <=> readers[c] >= 0
      /\ Writes(c) # {} <=> readers[c] = -1
      /\ Reads(c) # {} \/ FunctionsOn(c) # {} => readers[c] > 0
      /\ readers[c] \in Int
      /\ Writes(c) = {} => /\ IsFiniteSet(Reads(c))
                          /\ Cardinality(Reads(c)) \in Nat
                          /\ Cardinality(FunctionsOn(c)) \in Nat
                          /\ readers[c] = Cardinality(Reads(c)) + Cardinality(FunctionsOn(c))
  BY <1>1, ReaderCounts
<1>5. Exclusive(c)
  BY <1>1 DEF MutualExclusion, Exclusive
<1>6. CASE KeepStep
  <2>1. CASE UNCHANGED <<readers, functionVars>>
    BY <1>2, <1>6, <2>1, KeptLocks, SameFunctions, SameCounts DEF KeepStep, functionVars
  <2>2. CASE \E r \in RequestProcessor : Function(r)
    BY <1>6, <2>2, FunctionCounts DEF KeepStep
  <2>3. QED
    BY <1>6, <2>1, <2>2 DEF KeepStep
<1>7. CASE \E f \in Frame : PushStep(f)
  <2>1. PICK f \in Frame : PushStep(f)
    BY <1>7
  <2>2. readers' = readers /\ held' = held
    BY <2>1 DEF PushStep, lockVars, functionVars
  <2>3. QED
    BY <1>2, <2>1, <2>2, PushedLocks, SameFunctions, SameCounts
<1>8. CASE \E lock \in LockState : GrantStep(lock)
  <2>1. PICK lock \in LockState : GrantStep(lock)
    BY <1>8
  <2>2. Top.contract \in Contract
    BY <1>1, <2>1, TopFacts DEF GrantStep
  <2>3. /\ Depth \notin Writes(c) /\ Depth \notin Reads(c)
        /\ Writes(c)' = IF lock = "write" /\ c = Top.contract
                        THEN Writes(c) \cup {Depth} ELSE Writes(c)
        /\ Reads(c)' = IF lock = "read" /\ c = Top.contract
                       THEN Reads(c) \cup {Depth} ELSE Reads(c)
    BY <2>1, GrantedLocks
  <2>4. FunctionsOn(c)' = FunctionsOn(c)
    BY <2>1, SameFunctions DEF GrantStep, functionVars
  <2>5. CASE lock = "write" /\ c = Top.contract
    <3>1. readers[c] = 0 /\ readers' = [readers EXCEPT ![c] = -1]
      BY <2>1, <2>5 DEF GrantStep
    <3>2. Writes(c) = {} /\ Reads(c) = {} /\ FunctionsOn(c) = {}
      BY <1>4, <3>1
    <3>3. Writes(c)' = {Depth} /\ Reads(c)' = {} /\ FunctionsOn(c)' = {}
      BY <2>3, <2>4, <2>5, <3>2
    <3>4. Cardinality({Depth}) = 1
      BY FS_Singleton
    <3>5. readers'[c] = -1 /\ readers' \in [Contract -> Int]
      BY <1>2, <3>1
    <3>6. QED
      BY <3>3, <3>4, <3>5 DEF Exclusive
  <2>6. CASE lock = "read" /\ c = Top.contract
    <3>1. readers[c] >= 0 /\ readers' = [readers EXCEPT ![c] = @ + 1]
      BY <2>1, <2>6 DEF GrantStep
    <3>2. Writes(c) = {} /\ Writes(c)' = {} /\ Reads(c)' = Reads(c) \cup {Depth}
      BY <1>4, <2>3, <2>6, <3>1
    <3>3. Cardinality(Reads(c)') = Cardinality(Reads(c)) + 1
      BY <1>4, <2>3, <3>2, FS_AddElement
    <3>4. readers'[c] = readers[c] + 1 /\ readers' \in [Contract -> Int]
      BY <1>2, <3>1
    <3>5. QED
      BY <1>4, <2>4, <3>2, <3>3, <3>4 DEF Exclusive
  <2>7. CASE ~(lock \in {"read", "write"} /\ c = Top.contract)
    <3>1. Writes(c)' = Writes(c) /\ Reads(c)' = Reads(c)
      BY <2>3, <2>7
    <3>2. readers'[c] = readers[c] /\ readers' \in [Contract -> Int]
      BY <1>2, <2>1, <2>2, <2>7 DEF GrantStep
    <3>3. QED
      BY <2>4, <3>1, <3>2, SameCounts
  <2>8. QED
    BY <2>5, <2>6, <2>7
<1>9. CASE PopStep
  <2>1. Top.contract \in Contract
    BY <1>1, <1>9, TopFacts DEF PopStep
  <2>2. /\ Depth \in Writes(c) <=> c = Top.contract /\ Top.lock = "write"
        /\ Depth \in Reads(c) <=> c = Top.contract /\ Top.lock = "read"
        /\ Writes(c)' = Writes(c) \ {Depth} /\ Reads(c)' = Reads(c) \ {Depth}
    BY <1>9, PoppedLocks
  <2>3. FunctionsOn(c)' = FunctionsOn(c)
    BY <1>9, SameFunctions DEF PopStep, functionVars
  <2>4. CASE Top.lock = "write" /\ c = Top.contract
    <3>1. readers' = [readers EXCEPT ![c] = 0]
      BY <1>9, <2>4 DEF PopStep
    <3>2. /\ Depth \in Writes(c) /\ Cardinality(Writes(c)) = 1
          /\ Reads(c) = {} /\ FunctionsOn(c) = {}
      BY <1>5, <2>2, <2>4 DEF Exclusive
    <3>3. IsFiniteSet(Writes(c))
      <4>1. Depth \in Nat
        BY <1>1 DEF TypeOK, Depth
      <4>2. IsFiniteSet(Frames)
        BY <4>1, FS_Interval DEF Frames
      <4>3. QED
        BY <4>2, FS_Subset DEF Writes
    <3>4. Cardinality(Writes(c) \ {Depth}) = 0 /\ IsFiniteSet(Writes(c) \ {Depth})
      BY <3>2, <3>3, FS_RemoveElement
    <3>5. Writes(c)' = {} /\ Reads(c)' = {} /\ FunctionsOn(c)' = {}
      BY <2>2, <2>3, <3>2, <3>4, FS_EmptySet
    <3>6. Cardinality({}) = 0 /\ readers'[c] = 0 /\ readers' \in [Contract -> Int]
      BY <1>2, <3>1, FS_EmptySet
    <3>7. QED
      BY <3>5, <3>6 DEF Exclusive
  <2>5. CASE Top.lock = "read" /\ c = Top.contract
    <3>1. readers' = [readers EXCEPT ![c] = @ - 1]
      BY <1>9, <2>5 DEF PopStep
    <3>2. Depth \in Reads(c) /\ Writes(c) = {} /\ Writes(c)' = {}
      BY <1>4, <2>2, <2>5
    <3>3. Cardinality(Reads(c)') = Cardinality(Reads(c)) - 1
      BY <1>4, <2>2, <3>2, FS_RemoveElement
    <3>4. readers'[c] = readers[c] - 1 /\ readers' \in [Contract -> Int]
      BY <1>2, <3>1
    <3>5. QED
      BY <1>4, <2>3, <3>2, <3>3, <3>4 DEF Exclusive
  <2>6. CASE ~(Top.lock \in {"read", "write"} /\ c = Top.contract)
    <3>1. Writes(c)' = Writes(c) /\ Reads(c)' = Reads(c)
      BY <2>2, <2>6
    <3>2. readers'[c] = readers[c] /\ readers' \in [Contract -> Int]
      BY <1>2, <1>9, <2>1, <2>6 DEF PopStep
    <3>3. QED
      BY <2>3, <3>1, <3>2, SameCounts
  <2>7. QED
    BY <2>4, <2>5, <2>6
<1>10. CASE PayStep
  <2>1. readers' = readers /\ held' = held
    BY <1>10 DEF PayStep, lockVars, functionVars
  <2>2. QED
    BY <1>2, <1>10, <2>1, PaidLocks, SameFunctions, SameCounts
<1>11. QED
  BY <1>6, <1>7, <1>8, <1>9, <1>10, FrameSteps

-----------------------------------------------------------------------------
(***************************************************************************)
(* The invariant.                                                          *)
(***************************************************************************)

\* Every step of a function keeps the types of what functions write.
LEMMA FunctionTypes ==
  ASSUME IInv, NEW r \in RequestProcessor, Function(r)
  PROVE  /\ pc' \in [RequestProcessor ->
                       {"idle", "test", "lock", "failed", "run", "universe", "unwind"}]
         /\ held' \in [RequestProcessor -> Seq(Contract)]
         /\ want' \in [RequestProcessor -> Contract \cup {0}]
         /\ UNCHANGED <<processorVars, digestVars>>
<1>1. TypeOK /\ FunctionOK(r)
  BY DEF IInv, FunctionsOK
<1>2. /\ pc \in [RequestProcessor ->
                   {"idle", "test", "lock", "failed", "run", "universe", "unwind"}]
      /\ held \in [RequestProcessor -> Seq(Contract)]
      /\ want \in [RequestProcessor -> Contract \cup {0}]
  BY <1>1 DEF TypeOK
<1>3. UNCHANGED <<processorVars, digestVars>>
  BY DEF Function, StartFunction, CallFromFunction, TestWriters, AcquireRead, RetryOrStop,
         AbortFunction, Unwind, QueryShares, SharesQueried, Return
<1>4. /\ pc' \in [RequestProcessor ->
                    {"idle", "test", "lock", "failed", "run", "universe", "unwind"}]
      /\ want' \in [RequestProcessor -> Contract \cup {0}]
  BY <1>2 DEF Function, StartFunction, CallFromFunction, TestWriters, AcquireRead, RetryOrStop,
              AbortFunction, Unwind, QueryShares, SharesQueried, Return
<1>5. held' \in [RequestProcessor -> Seq(Contract)]
  <2>1. \/ held' = held
        \/ held' = DropLast(r) /\ held[r] # << >>
        \/ want[r] \in Contract /\ held' = [held EXCEPT ![r] = Append(@, want[r])]
    BY <1>1 DEF FunctionOK, Function, StartFunction, CallFromFunction, TestWriters, AcquireRead,
                RetryOrStop, AbortFunction, Unwind, QueryShares, SharesQueried, Return
  <2>2. QED
    BY <1>1, <1>2, <2>1, Dropped, Added
<1>6. QED
  BY <1>3, <1>4, <1>5

\* Every step of the contract processor keeps the types of what it writes alone.
LEMMA ProcessorTypes ==
  ASSUME IInv, Processor
  PROVE  /\ spinning' \in {"no", "aborted", "universe"}
         /\ callbacksRunning' \subseteq CallbackFlag
         /\ universeLock' \in Nat
         /\ changed' \subseteq Watched
         /\ flagged' \subseteq Watched
         /\ UNCHANGED functionVars
<1>1. TypeOK
  BY DEF IInv
<1>2. /\ spinning \in {"no", "aborted", "universe"}
      /\ callbacksRunning \subseteq CallbackFlag
      /\ universeLock \in Nat
      /\ changed \subseteq Watched
      /\ flagged \subseteq Watched
      /\ Depth \in Nat
  BY <1>1 DEF TypeOK, Depth
<1>3. CASE \E c \in Contract :
             \/ StartProcedure(c) \/ StartCallback(c)
             \/ Invoke(c) \/ CallFunction(c)
             \/ TransferCallback(c) \/ RightsCallback(c) \/ ShareholderCallback(c)
  BY <1>2, <1>3 DEF StartProcedure, StartCallback, Invoke, CallFunction, TransferCallback,
                    RightsCallback, ShareholderCallback, CallbackFlag, digestVars
<1>4. CASE PayReward
  BY <1>2, <1>4 DEF PayReward, CallbackFlag, digestVars
<1>5. CASE LockForWriting \/ AcquireWrite \/ LockForReading
  BY <1>2, <1>5 DEF LockForWriting, AcquireWrite, LockForReading, digestVars
<1>6. CASE ReturnFunction \/ ReturnProcedure \/ LeaveProcedure
  <2>1. frames # << >> => Top.before \subseteq CallbackFlag
    BY <1>1, TopFacts DEF Frame
  <2>2. frames # << >> => Restored(Top) \subseteq CallbackFlag
    BY <1>2, <2>1 DEF Restored
  <2>3. QED
    BY <1>2, <1>6, <2>2 DEF ReturnFunction, ReturnProcedure, LeaveProcedure, Running, digestVars
<1>7. CASE BeginDividends \/ EndDividends \/ WaitForUniverse
  BY <1>2, <1>7 DEF BeginDividends, EndDividends, WaitForUniverse, digestVars
<1>8. CASE Abort
  BY <1>2, <1>8 DEF Abort, digestVars
<1>9. CASE GetComputerDigest
  BY <1>2, <1>9 DEF GetComputerDigest, processorVars
<1>10. QED
  BY <1>3, <1>4, <1>5, <1>6, <1>7, <1>8, <1>9 DEF Processor

\* The invariant holds initially.
LEMMA InvariantInit == Init => IInv
<1> SUFFICES ASSUME Init PROVE IInv
  OBVIOUS
<1>1. /\ frames = << >> /\ spinning = "no" /\ callbacksRunning = {}
      /\ readers = [c \in Contract |-> 0]
      /\ writersWaiting = [c \in Contract |-> 0]
      /\ universeLock = 0
      /\ pc = [r \in RequestProcessor |-> "idle"]
      /\ held = [r \in RequestProcessor |-> << >>]
      /\ want = [r \in RequestProcessor |-> 0]
      /\ changed = Watched /\ flagged = Watched
  BY DEF Init
<1>2. Depth = 0 /\ Frames = {}
  BY <1>1 DEF Depth, Frames
<1>3. TypeOK
  <2>1. frames \in Seq(Frame) /\ \A r \in RequestProcessor : held[r] \in Seq(Contract)
    BY <1>1
  <2>2. QED
    BY <1>1, <2>1 DEF TypeOK
<1>4. FramesOK /\ CallsDescend /\ WritersOK
  BY <1>1, <1>2 DEF FramesOK, CallsDescend, WritersOK
<1>5. FlagsOK
  BY <1>1, <1>2 DEF FlagsOK, InCallback
<1>6. FunctionsOK
  BY <1>1 DEF FunctionsOK, FunctionOK
<1>7. MutualExclusion
  <2>1. \A c \in Contract : Writes(c) = {} /\ Reads(c) = {} /\ FunctionsOn(c) = {}
    BY <1>1, <1>2 DEF Writes, Reads, FunctionsOn
  <2>2. \A c \in Contract : readers[c] = 0
    BY <1>1
  <2>3. QED
    BY <2>1, <2>2, FS_EmptySet DEF MutualExclusion
<1>8. QED
  BY <1>3, <1>4, <1>5, <1>6, <1>7 DEF IInv

\* Every step preserves the invariant.
LEMMA InvariantStep == IInv /\ [Next]_vars => IInv'
<1>1. ASSUME IInv, Next
      PROVE  IInv'
  <2>1. TypeOK'
    <3>1. /\ frames' \in Seq(Frame)
          /\ writersWaiting' \in [Contract -> Nat]
          /\ readers' \in [Contract -> Int]
      BY <1>1, CallsStep, WritersStep, MutualStep
    <3>2. CASE Processor
      BY <1>1, <3>1, <3>2, ProcessorTypes DEF IInv, TypeOK, functionVars
    <3>3. CASE \E r \in RequestProcessor : Function(r)
      BY <1>1, <3>1, <3>3, FunctionTypes DEF IInv, TypeOK, processorVars, digestVars
    <3>4. QED
      BY <1>1, <3>2, <3>3 DEF Next
  <2>2. FunctionsOK'
    <3>1. CASE Processor
      BY <1>1, <3>1, ProcessorTypes DEF IInv, FunctionsOK, FunctionOK, functionVars
    <3>2. CASE \E r \in RequestProcessor : Function(r)
      BY <1>1, <3>2, FunctionsStep
    <3>3. QED
      BY <1>1, <3>1, <3>2 DEF Next
  <2>3. QED
    BY <1>1, <2>1, <2>2, CallsStep, WritersStep, MutualStep DEF IInv
<1>2. ASSUME IInv, UNCHANGED vars
      PROVE  IInv'
  <2>1. /\ UNCHANGED <<frames, spinning, callbacksRunning, universeLock, readers, writersWaiting>>
        /\ UNCHANGED <<pc, held, want, changed, flagged>>
    BY <1>2 DEF vars, processorVars, lockVars, functionVars, digestVars
  <2>2. Depth' = Depth /\ Frames' = Frames /\ Top' = Top
    BY <2>1 DEF Depth, Frames, Top
  <2>3. TypeOK' /\ CallsDescend' /\ FunctionsOK'
    BY <1>2, <2>1, <2>2 DEF IInv, TypeOK, CallsDescend, FunctionsOK, FunctionOK
  <2>4. FramesOK' /\ FlagsOK'
    BY <1>2, <2>1, <2>2 DEF IInv, FramesOK, FrameOK, PaysReward, FlagsOK, InCallback, LockedBefore
  <2>5. WritersOK'
    <3>1. Writes(Top.contract)' = Writes(Top.contract)
      BY <2>1, <2>2 DEF Writes
    <3>2. QED
      BY <1>2, <2>1, <2>2, <3>1 DEF IInv, WritersOK
  <2>6. MutualExclusion'
    <3>1. ASSUME NEW c \in Contract
          PROVE  Writes(c)' = Writes(c) /\ Reads(c)' = Reads(c) /\ FunctionsOn(c)' = FunctionsOn(c)
      BY <2>1, <2>2 DEF Writes, Reads, FunctionsOn
    <3>2. QED
      BY <1>2, <2>1, <3>1 DEF IInv, MutualExclusion
  <2>7. QED
    BY <2>3, <2>4, <2>5, <2>6 DEF IInv
<1>3. QED
  BY <1>1, <1>2

\* The invariant holds of every reachable state of the locks, for any number of
\* contracts, request processors and nested calls.
THEOREM LocksInvariant == Spec => []IInv
BY InvariantInit, InvariantStep, PTL DEF Spec

-----------------------------------------------------------------------------
(***************************************************************************)
(* What follows from the invariant.                                        *)
(***************************************************************************)

\* Code that runs, or waits for what it has called, has its state locked for it
\* or for an earlier call.
LEMMA StatesLocked == IInv => StateStaysLocked
<1> SUFFICES ASSUME IInv, NEW i \in Frames, frames[i].lock \in Held
             PROVE  IF frames[i].kind = "procedure" THEN readers[frames[i].contract] = -1
                    ELSE readers[frames[i].contract] # 0
  BY DEF StateStaysLocked
<1>1. TypeOK /\ MutualExclusion /\ FrameOK(i)
  BY DEF IInv, FramesOK
<1>2. Depth \in Nat /\ frames # << >>
  BY <1>1 DEF TypeOK, Frames, Depth
<1>3. frames[i] \in Frame /\ frames[i].contract \in Contract
  BY <1>1, <1>2, TopFacts
<1>4. CASE frames[i].lock = "write"
  <2>1. i \in Writes(frames[i].contract)
    BY <1>4 DEF Writes
  <2>2. QED
    BY <1>1, <1>3, <2>1, ReaderCounts
<1>5. CASE frames[i].lock \in {"reuse", "own"}
  <2>1. PICK k \in 1 .. i - 1 : frames[k].contract = frames[i].contract /\ frames[k].lock = "write"
    BY <1>1, <1>5 DEF FrameOK, LockedBefore
  <2>2. k \in Writes(frames[i].contract)
    BY <1>2, <2>1 DEF Writes, Frames
  <2>3. QED
    BY <1>1, <1>3, <2>2, ReaderCounts
<1>6. CASE frames[i].lock = "read"
  <2>1. i \in Reads(frames[i].contract)
    BY <1>6 DEF Reads
  <2>2. readers[frames[i].contract] > 0
    BY <1>1, <1>3, <2>1, ReaderCounts
  <2>3. frames[i].kind # "procedure"
    BY <1>1, <1>6 DEF FrameOK
  <2>4. QED
    BY <2>2, <2>3
<1>7. QED
  BY <1>4, <1>5, <1>6 DEF Held

\* The contract processor waits only for locks that it does not hold.
LEMMA NeverWaitsForItself == IInv => NoSelfWait
<1> SUFFICES ASSUME IInv, frames # << >>
             PROVE  /\ Top.lock = "announced" => readers[Top.contract] >= 0
                    /\ Top.lock = "wanted" /\ Top.kind = "function" /\ ~Reusable(Top.contract) =>
                         readers[Top.contract] >= 0 /\ writersWaiting[Top.contract] = 0
  BY DEF NoSelfWait
<1>1. TypeOK /\ MutualExclusion /\ WritersOK /\ FlagsOK
  BY DEF IInv
<1>2. Top.contract \in Contract
  BY <1>1, TopFacts
<1>3. Top.lock = "announced" => readers[Top.contract] >= 0
  BY <1>1, <1>2, ReaderCounts DEF WritersOK
<1>4. ASSUME Top.lock = "wanted", ~Reusable(Top.contract)
      PROVE  readers[Top.contract] >= 0 /\ writersWaiting[Top.contract] = 0
  <2>1. spinning = "no"
    BY <1>1, <1>4 DEF FlagsOK, Held
  <2>2. readers[Top.contract] >= 0
    BY <1>4, <2>1, NotLocked
  <2>3. writersWaiting[Top.contract] = 0
    BY <1>1, <1>2, <1>4 DEF WritersOK
  <2>4. QED
    BY <2>2, <2>3
<1>5. QED
  BY <1>3, <1>4

\* Without callbacks, the contracts that the contract processor has locked all
\* have a higher index than the one it waits for, and the lock a function wants
\* has a lower one.
LEMMA NoCycle == IInv => NoCircularWait
<1> SUFFICES ASSUME IInv, frames # << >>, Top.lock = "announced",
                    NEW r \in RequestProcessor,
                    \E i \in DOMAIN held[r] : held[r][i] = Top.contract,
                    pc[r] \in {"test", "lock", "failed"},
                    callbacksRunning = {}
             PROVE  readers[want[r]] >= 0 /\ writersWaiting[want[r]] = 0
  BY DEF NoCircularWait
<1>1. TypeOK /\ MutualExclusion /\ WritersOK /\ FlagsOK /\ CallsDescend /\ FunctionOK(r)
  BY DEF IInv, FunctionsOK
<1>2. /\ Depth \in Nat \ {0} /\ Depth \in Frames /\ Top = frames[Depth]
      /\ Top.contract \in Contract
      /\ \A i \in Frames : frames[i].contract \in Contract
  BY <1>1, TopFacts
<1>3. want[r] \in Contract /\ want[r] < Top.contract
  BY <1>1 DEF FunctionOK
<1>4. \A i \in Frames : i # Depth => Top.contract < frames[i].contract
  <2>1. ~InCallback(Depth)
    BY <1>1 DEF FlagsOK, Held
  <2>2. QED
    BY <1>1, <1>2, <2>1 DEF CallsDescend, InCallback, Frames
<1>5. Contract \subseteq Int
  BY DEF Contract
<1>6. \A i \in Frames : frames[i].contract # want[r]
  <2>1. want[r] \in Int /\ Top.contract \in Int
    BY <1>2, <1>3, <1>5
  <2>2. ASSUME NEW i \in Frames
        PROVE  frames[i].contract # want[r]
    <3>1. frames[i].contract \in Int
      BY <1>2, <1>5
    <3>2. CASE i = Depth
      BY <1>2, <1>3, <2>1, <3>2
    <3>3. CASE i # Depth
      <4>1. Top.contract < frames[i].contract
        BY <1>4, <3>3
      <4>2. QED
        BY <1>3, <2>1, <3>1, <4>1
    <3>4. QED
      BY <3>2, <3>3
  <2>3. QED
    BY <2>2
<1>7. Writes(want[r]) = {}
  BY <1>6 DEF Writes
<1>8. readers[want[r]] >= 0
  BY <1>1, <1>3, <1>7, ReaderCounts
<1>9. writersWaiting[want[r]] = 0
  BY <1>1, <1>2, <1>3, <1>6 DEF WritersOK
<1>10. QED
  BY <1>8, <1>9

\* A write lock is held for one call and excludes all readers, and the counters
\* of readers stay exact when functions are stopped and unwound.
THEOREM StatesExclusive == Spec => []MutualExclusion
<1>1. IInv => MutualExclusion
  BY DEF IInv
<1>2. QED
  BY <1>1, LocksInvariant, PTL

\* The state a running contract works on is never unlocked under it, neither by
\* the return of a callback that reused the lock nor by a function.
THEOREM StatesStayLocked == Spec => []StateStaysLocked
BY StatesLocked, LocksInvariant, PTL

\* The contract processor never waits for a lock that only its own return would
\* release, whichever contracts call back.
THEOREM ProcessorNotStuck == Spec => []NoSelfWait
BY NeverWaitsForItself, LocksInvariant, PTL

\* The order of the indices, and the flags of the callbacks where that order is
\* broken, keep functions and the contract processor from waiting in a circle.
THEOREM WaitsNotCircular == Spec => []NoCircularWait
BY NoCycle, LocksInvariant, PTL

\* Every variable keeps its type; the number of waiting writers never underflows.
THEOREM LocksTyped == Spec => []TypeOK
<1>1. IInv => TypeOK
  BY DEF IInv
<1>2. QED
  BY <1>1, LocksInvariant, PTL
=============================================================================

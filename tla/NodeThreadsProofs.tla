--------------------------- MODULE NodeThreadsProofs ---------------------------
(***************************************************************************)
(* Proofs about what the threads of a node do together: the epoch          *)
(* transition, for any number of request processors, epochs and contract   *)
(* processor threads; the snapshots, for any number of ticks; the lock for *)
(* readers and writers, for any set of threads; the message queue, for any *)
(* messages, buffer and length; and the peers, for any finite sets of      *)
(* slots.                                                                  *)
(***************************************************************************)
EXTENDS MCNodeThreads, FiniteSetTheorems, TLAPS

-----------------------------------------------------------------------------
(***************************************************************************)
(* Facts about the definitions                                             *)
(***************************************************************************)

\* The main loop has seven stages that matter, one after the other.
LEMMA Stages ==
  /\ Len(MainStage) = 7
  /\ \A i \in 0 .. 7 : ((i % 7) + 1) \in 1 .. 7
BY DEF MainStage

\* A set of request processors is finite, and has as many elements as there are threads only if
\* it has all of them.
LEMMA Counting ==
  ASSUME NEW S \in SUBSET Processor
  PROVE  /\ IsFiniteSet(S)
         /\ Cardinality(S) \in 0 .. Cardinality(Processor)
         /\ Cardinality(S) >= Cardinality(Processor) => S = Processor
         /\ Cardinality(S) = 0 => S = {}
<1>1. IsFiniteSet(Processor)
  BY EpochAssumption DEF Processor
<1>2. /\ IsFiniteSet(S) /\ Cardinality(S) <= Cardinality(Processor)
      /\ Cardinality(Processor) = Cardinality(S) => Processor = S
  BY <1>1, FS_Subset
<1>3. Cardinality(S) \in Nat /\ Cardinality(Processor) \in Nat
  BY <1>1, <1>2, FS_CardinalityType
<1>4. Cardinality(S) = 0 => S = {}
  BY <1>2, FS_EmptySet
<1> QED
  BY <1>2, <1>3, <1>4

\* A thread that parks is counted, one that goes on is not counted any more.
LEMMA CountedChanges ==
  ASSUME EpochTypeOK, NEW r \in Processor
  PROVE  /\ Park(r) => Cardinality(Counted') = Cardinality(Counted) + 1
         /\ Leave(r) => Cardinality(Counted') = Cardinality(Counted) - 1
<1>1. ASSUME Park(r) PROVE Cardinality(Counted') = Cardinality(Counted) + 1
  <2>1. Counted' = Counted \cup {r} /\ r \notin Counted /\ Counted \in SUBSET Processor
    BY <1>1 DEF Park, Counted, EpochTypeOK, Processor
  <2> QED
    BY <2>1, Counting, FS_AddElement
<1>2. ASSUME Leave(r) PROVE Cardinality(Counted') = Cardinality(Counted) - 1
  <2>1. Counted' = Counted \ {r} /\ r \in Counted /\ Counted \in SUBSET Processor
    BY <1>2 DEF Leave, Counted, EpochTypeOK, Processor
  <2> QED
    BY <2>1, Counting, FS_RemoveElement
<1> QED
  BY <1>1, <1>2

-----------------------------------------------------------------------------
(***************************************************************************)
(* The invariant is inductive                                              *)
(***************************************************************************)

\* The initial state satisfies the invariant.
LEMMA EpochInvInit == EpochInit => EpochInv
<1> SUFFICES ASSUME EpochInit PROVE EpochInv
  OBVIOUS
<1>1. Counted = {} /\ Cardinality(Counted) = 0
  BY FS_EmptySet DEF EpochInit, Counted, Processor
<1>2. Cardinality(Processor) \in Nat
  BY EpochAssumption, FS_CardinalityType DEF Processor
<1>3. EpochTypeOK
  <2>1. /\ writing \in [name : EpochFile \cup {"none", "periodic"}, epoch : 0 .. MaxEpoch, torn : BOOLEAN]
        /\ file \in [EpochFile -> Torn .. MaxEpoch]
    BY EpochAssumption DEF EpochInit, NotWriting, Torn
  <2>2. tickPc \in TickPc /\ afterRun \in TickPc /\ mainPc \in 0 .. Len(MainStage)
    BY Stages DEF EpochInit, TickPc
  <2>3. unserved \in BOOLEAN /\ revenueQueued \in BOOLEAN /\ saveDue \in BOOLEAN /\ shutDownNode \in BOOLEAN
    BY DEF EpochInit
  <2>4. epochTransitionWaiting \in 0 .. Cardinality(EpochRequestProcessor)
    BY <1>2 DEF EpochInit, Processor
  <2>5. requestPc \in [EpochRequestProcessor -> {"loop", "entering", "parked", "leaving", "handling", "ended"}]
    BY DEF EpochInit
  <2> QED
    BY <2>1, <2>2, <2>3, <2>4, <2>5, EpochAssumption DEF EpochInit, EpochTypeOK
<1>4. PlaceOK /\ FlagsOK
  BY DEF EpochInit, PlaceOK, InTick, Paused, Beginning, FlagsOK
<1>8. WritingOK /\ PeriodOK
  BY DEF EpochInit, WritingOK, PeriodOK
<1>5. ProcessorsOK
  BY <1>1 DEF EpochInit, ProcessorsOK, Exclusive, Processor
<1>6. ContractOK
  BY EpochAssumption DEF EpochInit, ContractOK
<1>7. FilesOK
  BY DEF EpochInit, FilesOK, EpochFile, RequestedFile
<1> QED
  BY <1>3, <1>4, <1>5, <1>6, <1>7, <1>8 DEF EpochInv

\* A step of a request processor.
LEMMA RequestStepInv ==
  ASSUME EpochInv, NEW r \in EpochRequestProcessor, RequestProcessorStep(r)
  PROVE  EpochInv'
<1> USE DEF EpochInv
<1>1. UNCHANGED <<isVirtualMachine, epochTransitionState, cleanMemoryFlag, tickPc, afterRun, epoch,
                  contractVars, mustBeSaved, revenueQueued, mainVars, writing, file>>
  BY DEF RequestProcessorStep
<1>2. /\ requestPc' \in [EpochRequestProcessor ->
           {"loop", "entering", "parked", "leaving", "handling", "ended"}]
      /\ \A q \in EpochRequestProcessor : q # r => requestPc'[q] = requestPc[q]
  BY DEF RequestProcessorStep, EndRequestProcessor, ReadTransitionState, Park, SeeTransitionEnd,
         Leave, HandleRequest, EpochTypeOK
<1>3. epochTransitionWaiting' = Cardinality(Counted')
  <2>1. CASE Park(r)
    BY <2>1, CountedChanges DEF Park, ProcessorsOK, Processor
  <2>2. CASE Leave(r)
    BY <2>2, CountedChanges DEF Leave, ProcessorsOK, Processor
  <2>3. CASE ~Park(r) /\ ~Leave(r)
    <3>1. Counted' = Counted /\ UNCHANGED epochTransitionWaiting
      BY <2>3 DEF RequestProcessorStep, EndRequestProcessor, ReadTransitionState, SeeTransitionEnd,
                  HandleRequest, Counted, EpochTypeOK, Processor
    <3> QED
      BY <3>1 DEF ProcessorsOK
  <2> QED
    BY <2>1, <2>2, <2>3
<1>4. EpochTypeOK'
  <2>1. Counted' \in SUBSET Processor
    BY DEF Counted
  <2> QED
    BY <1>1, <1>2, <1>3, <2>1, Counting DEF EpochTypeOK, contractVars, mainVars, Processor
<1>5. ProcessorsOK'
  <2>1. epochTransitionState = 0 => requestPc'[r] # "entering"
    BY DEF RequestProcessorStep, EndRequestProcessor, ReadTransitionState, Park, SeeTransitionEnd,
           Leave, HandleRequest, EpochTypeOK, ProcessorsOK
  <2>2. epochTransitionState # 0 => requestPc'[r] # "leaving"
    BY DEF RequestProcessorStep, EndRequestProcessor, ReadTransitionState, Park, SeeTransitionEnd,
           Leave, HandleRequest, EpochTypeOK, ProcessorsOK
  <2>3. tickPc = "awaitOperator" => requestPc'[r] \notin {"parked", "leaving"}
    BY DEF RequestProcessorStep, EndRequestProcessor, ReadTransitionState, Park, SeeTransitionEnd,
           Leave, HandleRequest, EpochTypeOK, ProcessorsOK, Processor, PlaceOK, InTick, Paused
  <2>4. ~(tickPc \in Exclusive \/ (tickPc = "run" /\ afterRun # "loop"))
    <3>1. SUFFICES ASSUME requestPc[r] = "parked", epochTransitionState # 0 PROVE FALSE
      BY DEF ProcessorsOK, Processor, PlaceOK, InTick, Paused, Exclusive
    <3> QED
      BY <3>1 DEF RequestProcessorStep, EndRequestProcessor, ReadTransitionState, Park, SeeTransitionEnd,
             Leave, HandleRequest
  <2> QED
    BY <1>1, <1>2, <1>3, <2>1, <2>2, <2>3, <2>4 DEF ProcessorsOK, Processor
<1> QED
  BY <1>1, <1>4, <1>5
  DEF PlaceOK, InTick, Paused, Beginning, Ending, ContractOK, FlagsOK, WritingOK, PeriodOK, FilesOK, contractVars, mainVars

\* A step of the contract processor or of its event callback.
LEMMA ContractStepInv ==
  ASSUME EpochInv, ContractProcessorStep
  PROVE  EpochInv'
<1> USE DEF EpochInv
<1>1. UNCHANGED <<isVirtualMachine, epochTransitionState, cleanMemoryFlag, requestVars, tickPc, afterRun,
                  epoch, mustBeSaved, revenueQueued, mainVars, writing, file>>
  BY DEF ContractProcessorStep
<1>2. ContractOK' /\ contractProcessorState' \in 0 .. 2 /\ unserved' \in BOOLEAN
        /\ executing' \in 0 .. MaxContractThreads /\ callbacks' \in 0 .. MaxContractThreads
  <2>1. CASE EndRun
    <3>1. unserved' \in BOOLEAN /\ ~unserved'
      BY <2>1 DEF EndRun
    <3>2. executing = 1 /\ contractProcessorState = 2 /\ callbacks \in Nat
      BY <2>1 DEF EndRun, ContractOK, EpochTypeOK
    <3>3. /\ executing' = 0 /\ callbacks' = callbacks + 1
          /\ contractProcessorState' = IF isVirtualMachine THEN 2 ELSE 0
      BY <2>1, <3>2 DEF EndRun
    <3>4. ContractOK'
      BY <1>1, <3>1, <3>2, <3>3, EpochAssumption DEF ContractOK
    <3> QED
      BY <3>1, <3>2, <3>3, <3>4, EpochAssumption DEF ContractOK
  <2>2. CASE ShutdownCallback
    BY <1>1, <2>2, EpochAssumption DEF ShutdownCallback, ContractOK, EpochTypeOK
  <2> QED
    BY <2>1, <2>2 DEF ContractProcessorStep
<1> QED
  BY <1>1, <1>2
  DEF EpochTypeOK, PlaceOK, InTick, Paused, Beginning, Ending, ProcessorsOK, Counted, FlagsOK, WritingOK,
      PeriodOK, FilesOK, requestVars, mainVars

\* What the main loop never touches keeps its part of the invariant.
LEMMA MainLoopKeeps ==
  ASSUME EpochInv,
         UNCHANGED <<isVirtualMachine, epochTransitionState, cleanMemoryFlag, requestVars, tickPc, afterRun, epoch>>
  PROVE  PlaceOK' /\ ProcessorsOK'
BY DEF EpochInv, PlaceOK, InTick, Paused, Beginning, ProcessorsOK, Counted, requestVars

\* While a file is being written the main loop is at the stage of that file.
LEMMA WritingStage ==
  ASSUME EpochInv, writing # NotWriting
  PROVE  MainStage[mainPc] \notin {"contract", "flush"}
BY DEF EpochInv, WritingOK, RequestedFile

\* A step of the main loop.
LEMMA MainStepInv ==
  ASSUME EpochInv, MainLoopStep
  PROVE  EpochInv'
<1> USE DEF EpochInv
<1>1. UNCHANGED <<isVirtualMachine, epochTransitionState, cleanMemoryFlag, requestVars, tickPc, afterRun, epoch>>
  BY DEF MainLoopStep
<1>2. PlaceOK' /\ ProcessorsOK'
  BY <1>1, MainLoopKeeps
<1>3. NextStage => mainPc' \in 0 .. Len(MainStage)
  BY Stages DEF NextStage, EpochTypeOK
<1>4. mainPc \in 0 .. Len(MainStage) /\ mainPc # 0 /\ Len(MainStage) = 7
  BY Stages DEF EpochTypeOK, MainLoopStep, Running
<1>5. CASE StartContractProcessor
  <2>1. writing = NotWriting
    BY <1>5, WritingStage DEF StartContractProcessor
  <2>6. /\ contractProcessorState = 1 /\ executing = 0 /\ unserved /\ callbacks < MaxContractThreads
        /\ contractProcessorState' = 2 /\ executing' = 1 /\ NextStage
        /\ UNCHANGED <<callbacks, unserved, mustBeSaved, revenueQueued, saveDue, shutDownNode, writing, file>>
    BY <1>5 DEF StartContractProcessor, ContractOK, EpochTypeOK
  <2>2. EpochTypeOK'
    BY <1>1, <1>3, <2>6, EpochAssumption DEF EpochTypeOK, requestVars
  <2>3. ContractOK'
    <3>1. tickPc = "run" /\ (isVirtualMachine => callbacks = 0) /\ callbacks \in Nat
      BY <2>6 DEF EpochTypeOK, ContractOK
    <3>2. unserved' /\ UNCHANGED <<isVirtualMachine, tickPc, callbacks>>
      BY <1>1, <2>6
    <3> QED
      BY <2>6, <3>1, <3>2, EpochAssumption DEF ContractOK
  <2>4. FlagsOK' /\ WritingOK' /\ FilesOK'
    BY <1>1, <1>5, <2>1 DEF StartContractProcessor, FlagsOK, WritingOK, FilesOK, InTick, Beginning
  <2>5. PeriodOK'
    BY <1>1, <1>5, <2>1 DEF StartContractProcessor, PeriodOK, NotWriting
  <2> QED
    BY <1>2, <2>2, <2>3, <2>4, <2>5
<1>6. CASE PassStage
  <2>1. UNCHANGED <<contractVars, mustBeSaved, revenueQueued, saveDue, shutDownNode, writing, file>>
        /\ writing = NotWriting
    BY <1>6 DEF PassStage
  <2>2. EpochTypeOK'
    BY <1>1, <1>3, <1>6, <2>1 DEF EpochTypeOK, PassStage, requestVars, contractVars
  <2>3. ContractOK' /\ FlagsOK' /\ WritingOK' /\ FilesOK'
    BY <1>1, <2>1 DEF ContractOK, FlagsOK, WritingOK, FilesOK, InTick, Beginning, contractVars
  <2>4. PeriodOK'
    BY <1>1, <2>1 DEF PeriodOK, NotWriting
  <2> QED
    BY <1>2, <2>2, <2>3, <2>4
<1>7. CASE StartPeriodicSave
  <2>1. UNCHANGED <<contractVars, mustBeSaved, revenueQueued, mainPc, shutDownNode, file>>
        /\ saveDue' = FALSE /\ saveDue /\ MainStage[mainPc] = "periodic" /\ writing = NotWriting
        /\ writing' = [name |-> IF epochTransitionState = 1 THEN "system" ELSE "periodic",
                       epoch |-> epoch, torn |-> FALSE]
    BY <1>7 DEF StartPeriodicSave
  <2>2. EpochTypeOK'
    BY <1>1, <2>1 DEF EpochTypeOK, requestVars, contractVars, EpochFile, RequestedFile
  <2>3. ContractOK' /\ FlagsOK' /\ FilesOK' /\ PeriodOK'
    BY <1>1, <2>1 DEF ContractOK, FlagsOK, FilesOK, InTick, Beginning, contractVars, PeriodOK
  <2>4. WritingOK'
    <3>1. epochTransitionState = 1 => Ending
      BY DEF PlaceOK, Ending
    <3>2. tickPc = "awaitSystem" => "system" \in mustBeSaved
      BY <2>1 DEF PeriodOK
    <3> QED
      BY <1>1, <1>4, <2>1, <3>1, <3>2 DEF WritingOK, Ending, InTick, Beginning
  <2> QED
    BY <1>2, <2>2, <2>3, <2>4
<1>8. CASE StartRequestedSave
  <2>1. UNCHANGED <<contractVars, mustBeSaved, revenueQueued, mainPc, shutDownNode, file>>
        /\ saveDue' = (saveDue /\ MainStage[mainPc] # "system")
        /\ MainStage[mainPc] \in mustBeSaved /\ writing = NotWriting
        /\ writing' = [name |-> MainStage[mainPc], epoch |-> epoch, torn |-> FALSE]
    BY <1>8 DEF StartRequestedSave
  <2>2. MainStage[mainPc] \in RequestedFile
    BY <2>1 DEF EpochTypeOK
  <2>3. EpochTypeOK'
    <3>1. saveDue' \in BOOLEAN
      BY <2>1
    <3>2. writing' \in [name : EpochFile \cup {"none", "periodic"}, epoch : 0 .. MaxEpoch, torn : BOOLEAN]
      BY <2>1, <2>2 DEF EpochTypeOK, EpochFile
    <3> QED
      BY <1>1, <2>1, <3>1, <3>2 DEF EpochTypeOK, requestVars, contractVars
  <2>4. ContractOK' /\ FlagsOK' /\ FilesOK'
    BY <1>1, <2>1 DEF ContractOK, FlagsOK, FilesOK, InTick, Beginning, contractVars
  <2>5. PeriodOK'
    BY <1>1, <2>1, <2>2 DEF PeriodOK
  <2>6. WritingOK'
    BY <1>1, <1>4, <2>1, <2>2 DEF WritingOK, Ending, InTick, Beginning, FlagsOK
  <2> QED
    BY <1>2, <2>3, <2>4, <2>5, <2>6
<1>9. CASE EndSave
  <2>1. UNCHANGED <<contractVars, revenueQueued, saveDue, shutDownNode>> /\ writing # NotWriting
        /\ writing' = NotWriting /\ mustBeSaved' = mustBeSaved \ {MainStage[mainPc]}
        /\ file' = IF writing.name \in EpochFile
                   THEN [file EXCEPT ![writing.name] = IF writing.torn THEN Torn ELSE writing.epoch]
                   ELSE file
    BY <1>9 DEF EndSave
  <2>2. EpochTypeOK'
    <3>1. writing' \in [name : EpochFile \cup {"none", "periodic"}, epoch : 0 .. MaxEpoch, torn : BOOLEAN]
      BY <2>1, EpochAssumption DEF NotWriting
    <3>2. file' \in [EpochFile -> Torn .. MaxEpoch]
      BY <2>1, EpochAssumption DEF EpochTypeOK, Torn
    <3>3. mainPc' \in 0 .. Len(MainStage)
      BY <1>3, <1>9 DEF EndSave
    <3> QED
      BY <1>1, <2>1, <3>1, <3>2, <3>3 DEF EpochTypeOK, requestVars, contractVars
  <2>3. ContractOK' /\ FlagsOK' /\ WritingOK'
    BY <1>1, <2>1 DEF ContractOK, FlagsOK, WritingOK, contractVars
  <2>4. PeriodOK'
    BY <1>1, <2>1 DEF PeriodOK, NotWriting, WritingOK
  <2>5. FilesOK'
    <3>1. CASE MainStage[mainPc] = "periodic" /\ writing.name \in {"system", "periodic"}
      BY <1>1, <2>1, <3>1 DEF FilesOK, InTick, Beginning, Ending, WritingOK, EpochFile, RequestedFile, EpochTypeOK
    <3>2. CASE MainStage[mainPc] = writing.name /\ writing.name \in RequestedFile
               /\ writing.epoch = epoch /\ ~writing.torn
      BY <1>1, <2>1, <3>2 DEF FilesOK, InTick, Beginning, EpochFile, RequestedFile, EpochTypeOK
    <3> QED
      BY <2>1, <3>1, <3>2 DEF WritingOK
  <2> QED
    BY <1>2, <2>2, <2>3, <2>4, <2>5
<1>10. CASE Flush
  <2>1. writing = NotWriting
    BY <1>10, WritingStage DEF Flush
  <2>2. UNCHANGED <<contractVars, mustBeSaved, saveDue, shutDownNode, writing>> /\ revenueQueued' = FALSE
        /\ file' = IF revenueQueued THEN [file EXCEPT !["revenue"] = epoch] ELSE file
    BY <1>10 DEF Flush
  <2>3. EpochTypeOK'
    <3>1. file' \in [EpochFile -> Torn .. MaxEpoch]
      BY <2>2, EpochAssumption DEF EpochTypeOK, Torn, EpochFile
    <3>2. mainPc' \in 0 .. Len(MainStage)
      BY <1>3, <1>10 DEF Flush
    <3> QED
      BY <1>1, <2>2, <3>1, <3>2 DEF EpochTypeOK, requestVars, contractVars
  <2>4. ContractOK' /\ FlagsOK' /\ WritingOK'
    BY <1>1, <2>1, <2>2 DEF ContractOK, FlagsOK, WritingOK, contractVars
  <2>5. PeriodOK'
    BY <1>1, <2>1, <2>2 DEF PeriodOK, NotWriting
  <2>6. FilesOK'
    BY <1>1, <2>2 DEF FilesOK, InTick, Beginning, EpochFile, RequestedFile, EpochTypeOK
  <2> QED
    BY <1>2, <2>3, <2>4, <2>5, <2>6
<1> QED
  BY <1>5, <1>6, <1>7, <1>8, <1>9, <1>10 DEF MainLoopStep
\* The steps that only the clock, the operator or the end of the process make.
LEMMA OutsideStepInv ==
  ASSUME EpochInv, ExitMainLoop \/ PeriodElapses \/ Continue \/ ShutDown
  PROVE  EpochInv'
<1> USE DEF EpochInv
<1>1. UNCHANGED <<isVirtualMachine, epochTransitionState, requestVars, tickPc, afterRun, epoch, contractVars,
                  mustBeSaved, revenueQueued, writing, file>>
  BY DEF ExitMainLoop, PeriodElapses, Continue, ShutDown
<1>2. PlaceOK' /\ ProcessorsOK' /\ ContractOK' /\ FlagsOK' /\ FilesOK'
  BY <1>1 DEF PlaceOK, ProcessorsOK, ContractOK, FlagsOK, FilesOK, InTick, Paused, Beginning, Counted,
              requestVars, contractVars
<1>3. MainStage[1] = "contract"
  BY DEF MainStage
<1>4. CASE ExitMainLoop
  <2>1. writing = NotWriting /\ mainPc' = 0 /\ UNCHANGED <<cleanMemoryFlag, saveDue, shutDownNode>>
    BY <1>3, <1>4, WritingStage DEF ExitMainLoop
  <2>2. EpochTypeOK'
    BY <1>1, <2>1, Stages DEF EpochTypeOK, requestVars, contractVars
  <2>3. WritingOK' /\ PeriodOK'
    BY <1>1, <2>1 DEF WritingOK, PeriodOK, NotWriting
  <2> QED
    BY <1>2, <2>2, <2>3
<1>5. CASE PeriodElapses
  <2>1. /\ saveDue' = TRUE /\ UNCHANGED <<cleanMemoryFlag, mainPc, shutDownNode>>
        /\ tickPc = "awaitSystem" => "system" \in mustBeSaved /\ writing.name # "system"
    BY <1>5 DEF PeriodElapses
  <2>2. EpochTypeOK'
    BY <1>1, <2>1 DEF EpochTypeOK, requestVars, contractVars
  <2>3. WritingOK' /\ PeriodOK'
    BY <1>1, <2>1 DEF WritingOK, PeriodOK, Ending, InTick, Beginning
  <2> QED
    BY <1>2, <2>2, <2>3
<1>6. CASE Continue \/ ShutDown
  <2>1. UNCHANGED <<saveDue, mainPc>> /\ cleanMemoryFlag' \in {0, 1} /\ shutDownNode' \in BOOLEAN
    BY <1>6 DEF Continue, ShutDown, mainVars, EpochTypeOK
  <2>2. EpochTypeOK'
    BY <1>1, <2>1 DEF EpochTypeOK, requestVars, contractVars
  <2>3. WritingOK' /\ PeriodOK'
    BY <1>1, <2>1 DEF WritingOK, PeriodOK, Ending, InTick, Beginning
  <2> QED
    BY <1>2, <2>2, <2>3
<1> QED
  BY <1>4, <1>5, <1>6

\* A write that is disturbed goes on, as one that is torn.
LEMMA Disturbed ==
  ASSUME EpochTypeOK, Disturb
  PROVE  /\ writing = NotWriting => writing' = NotWriting
         /\ writing # NotWriting => writing' # NotWriting /\ writing'.torn
         /\ writing'.name = writing.name /\ writing'.epoch = writing.epoch
         /\ writing' \in [name : EpochFile \cup {"none", "periodic"}, epoch : 0 .. MaxEpoch, torn : BOOLEAN]
<1>1. CASE writing = NotWriting
  BY <1>1 DEF EpochTypeOK, Disturb
<1>2. CASE writing # NotWriting
  <2>1. writing' = [writing EXCEPT !.torn = TRUE]
    BY <1>2 DEF Disturb
  <2> QED
    BY <1>2, <2>1 DEF EpochTypeOK, NotWriting
<1> QED
  BY <1>1, <1>2

\* When all request processors are counted, and none leaves, all are parked.
LEMMA ParkedAll ==
  ASSUME EpochInv, AllParked, epochTransitionState # 0
  PROVE  \A r \in Processor : requestPc[r] = "parked"
<1>1. Counted \in SUBSET Processor /\ Cardinality(Counted) >= Cardinality(Processor)
  BY DEF EpochInv, ProcessorsOK, AllParked, Counted, Processor
<1> QED
  BY <1>1, Counting DEF EpochInv, ProcessorsOK, Counted

\* The types of what the tick processor changes.
LEMMA TickTypes ==
  ASSUME EpochInv, TickProcessorStep
  PROVE  EpochTypeOK'
<1>1. /\ EpochTypeOK /\ (Disturb => writing' \in [name : EpochFile \cup {"none", "periodic"},
                                                  epoch : 0 .. MaxEpoch, torn : BOOLEAN])
      /\ UNCHANGED <<isVirtualMachine, requestVars, mainVars, file>>
  BY Disturbed DEF EpochInv, TickProcessorStep
<1>2. afterRun \in {"loop", "donations", "reopen"} /\ (tickPc = "awaitParkedAgain" => epoch < MaxEpoch)
  BY DEF EpochInv, PlaceOK
<1> USE <1>1, <1>2, EpochAssumption
    DEF EpochTypeOK, Go, AskForRun, TickPc, RequestedFile, requestVars, mainVars, contractVars
<1>11. CASE EndTickProcessor
  BY <1>11 DEF EndTickProcessor
<1>12. CASE RunInTick
  BY <1>12 DEF RunInTick
<1>13. CASE RunEnded
  BY <1>13 DEF RunEnded
<1>14. CASE DecideEpochEnd
  BY <1>14 DEF DecideEpochEnd
<1>15. CASE RunEndEpoch
  BY <1>15 DEF RunEndEpoch
<1>16. CASE NotifyDonation
  BY <1>16 DEF NotifyDonation
<1>17. CASE Reopen
  BY <1>17 DEF Reopen
<1>18. CASE AwaitOperator
  BY <1>18 DEF AwaitOperator
<1>19. CASE CloseAgain
  BY <1>19 DEF CloseAgain
<1>20. CASE FinishEndEpoch
  BY <1>20 DEF FinishEndEpoch
<1>21. CASE AskToSaveSystem
  BY <1>21 DEF AskToSaveSystem
<1>22. CASE SystemSaved
  BY <1>22 DEF SystemSaved
<1>23. CASE BeginEpoch
  BY <1>23 DEF BeginEpoch
<1>24. CASE AskToSaveUniverse
  BY <1>24 DEF AskToSaveUniverse
<1>25. CASE AskToSaveComputer
  BY <1>25 DEF AskToSaveComputer
<1>26. CASE EndTransition
  BY <1>26 DEF EndTransition
<1> QED
  BY <1>11, <1>12, <1>13, <1>14, <1>15, <1>16, <1>17, <1>18, <1>19, <1>20, <1>21, <1>22, <1>23, <1>24, <1>25, <1>26 DEF TickProcessorStep

\* Where the tick processor goes, and that no request processor is where it must not be.
LEMMA TickPlaces ==
  ASSUME EpochInv, TickProcessorStep
  PROVE  PlaceOK' /\ ProcessorsOK'
<1>1. /\ EpochTypeOK /\ PlaceOK /\ ProcessorsOK /\ UNCHANGED requestVars
      /\ Counted' = Counted
      /\ (AllParked /\ epochTransitionState # 0 => \A r \in Processor : requestPc[r] = "parked")
  BY ParkedAll DEF EpochInv, TickProcessorStep, requestVars, Counted
<1>2. epochTransitionWaiting = 0 => \A r \in Processor : requestPc[r] \notin {"parked", "leaving"}
  <2>1. Counted \in SUBSET Processor
    BY DEF Counted
  <2> QED
    BY <1>1, <2>1, Counting DEF ProcessorsOK, Counted
<1> USE <1>1, <1>2, EpochAssumption
    DEF PlaceOK, ProcessorsOK, Go, AskForRun, InTick, Paused, Beginning, Exclusive, requestVars, EpochTypeOK, Processor
<1>11. CASE EndTickProcessor
  BY <1>11 DEF EndTickProcessor
<1>12. CASE RunInTick
  BY <1>12 DEF RunInTick
<1>13. CASE RunEnded
  BY <1>13 DEF RunEnded
<1>14. CASE DecideEpochEnd
  BY <1>14 DEF DecideEpochEnd
<1>15. CASE RunEndEpoch
  BY <1>15 DEF RunEndEpoch
<1>16. CASE NotifyDonation
  BY <1>16 DEF NotifyDonation
<1>17. CASE Reopen
  BY <1>17 DEF Reopen
<1>18. CASE AwaitOperator
  BY <1>18 DEF AwaitOperator
<1>19. CASE CloseAgain
  BY <1>19 DEF CloseAgain
<1>20. CASE FinishEndEpoch
  BY <1>20 DEF FinishEndEpoch
<1>21. CASE AskToSaveSystem
  BY <1>21 DEF AskToSaveSystem
<1>22. CASE SystemSaved
  BY <1>22 DEF SystemSaved
<1>23. CASE BeginEpoch
  BY <1>23 DEF BeginEpoch
<1>24. CASE AskToSaveUniverse
  BY <1>24 DEF AskToSaveUniverse
<1>25. CASE AskToSaveComputer
  BY <1>25 DEF AskToSaveComputer
<1>26. CASE EndTransition
  BY <1>26 DEF EndTransition
<1> QED
  BY <1>11, <1>12, <1>13, <1>14, <1>15, <1>16, <1>17, <1>18, <1>19, <1>20, <1>21, <1>22, <1>23, <1>24, <1>25, <1>26 DEF TickProcessorStep

\* The tick processor asks for a run only when the last one has ended.
LEMMA TickContracts ==
  ASSUME EpochInv, TickProcessorStep
  PROVE  ContractOK'
<1>1. EpochTypeOK /\ ContractOK /\ UNCHANGED isVirtualMachine
  BY DEF EpochInv, TickProcessorStep
<1>2. (\E next : Go(next)) \/ (tickPc # "run" /\ \E next : AskForRun(next))
  BY DEF TickProcessorStep, EndTickProcessor, RunInTick, RunEnded, DecideEpochEnd, RunEndEpoch, NotifyDonation,
         Reopen, AwaitOperator, CloseAgain, FinishEndEpoch, AskToSaveSystem, SystemSaved, BeginEpoch,
         AskToSaveUniverse, AskToSaveComputer, EndTransition
<1>3. tickPc # "run" \/ contractProcessorState = 0
  BY DEF TickProcessorStep, EndTickProcessor, RunInTick, RunEnded, DecideEpochEnd, RunEndEpoch, NotifyDonation,
         Reopen, AwaitOperator, CloseAgain, FinishEndEpoch, AskToSaveSystem, SystemSaved, BeginEpoch,
         AskToSaveUniverse, AskToSaveComputer, EndTransition
<1>4. CASE \E next : Go(next)
  BY <1>1, <1>3, <1>4 DEF Go, ContractOK, contractVars
<1>5. CASE tickPc # "run" /\ \E next : AskForRun(next)
  <2>1. executing = 0 /\ (isVirtualMachine => callbacks = 0)
    BY <1>1, <1>5 DEF ContractOK
  <2>2. tickPc' = "run" /\ contractProcessorState' = 1 /\ unserved' /\ UNCHANGED <<executing, callbacks>>
    BY <1>5 DEF AskForRun
  <2> QED
    BY <1>1, <2>1, <2>2 DEF ContractOK
<1> QED
  BY <1>2, <1>4, <1>5

\* What the tick processor does to a write under way: nothing is asked for in the phases that
\* change the state of the node, so only a regular save is disturbed.
LEMMA TickFiles ==
  ASSUME EpochInv, TickProcessorStep
  PROVE  FlagsOK' /\ WritingOK' /\ PeriodOK' /\ FilesOK'
<1> DEFINE Requested(f) == writing.name = f /\ MainStage[mainPc] = f
<1>1. /\ EpochTypeOK /\ PlaceOK /\ FlagsOK /\ WritingOK /\ PeriodOK /\ FilesOK
      /\ UNCHANGED <<mainPc, saveDue, file>>
  BY DEF EpochInv, TickProcessorStep, mainVars
<1>2. writing # NotWriting \/ writing.name = "none"
  BY DEF NotWriting
<1>3. /\ Disturb => (writing = NotWriting => writing' = NotWriting)
      /\ Disturb => (writing # NotWriting => writing' # NotWriting /\ writing'.torn)
      /\ Disturb => (writing'.name = writing.name /\ writing'.epoch = writing.epoch)
  BY <1>1, Disturbed
<1> USE <1>1, <1>2, <1>3
    DEF FlagsOK, WritingOK, PeriodOK, FilesOK, Go, AskForRun, InTick, Paused, Beginning, Ending, RequestedFile, EpochFile, PlaceOK
<1>11. CASE EndTickProcessor
  BY <1>11 DEF EndTickProcessor
<1>12. CASE RunInTick
  BY <1>12 DEF RunInTick
<1>13. CASE RunEnded
  BY <1>13 DEF RunEnded
<1>14. CASE DecideEpochEnd
  BY <1>14 DEF DecideEpochEnd
<1>15. CASE RunEndEpoch
  BY <1>15 DEF RunEndEpoch
<1>16. CASE NotifyDonation
  BY <1>16 DEF NotifyDonation
<1>17. CASE Reopen
  BY <1>17 DEF Reopen
<1>18. CASE AwaitOperator
  BY <1>18 DEF AwaitOperator
<1>19. CASE CloseAgain
  BY <1>19 DEF CloseAgain
<1>20. CASE FinishEndEpoch
  BY <1>20 DEF FinishEndEpoch
<1>21. CASE AskToSaveSystem
  BY <1>21 DEF AskToSaveSystem
<1>22. CASE SystemSaved
  BY <1>22 DEF SystemSaved
<1>23. CASE BeginEpoch
  BY <1>23 DEF BeginEpoch
<1>24. CASE AskToSaveUniverse
  BY <1>24 DEF AskToSaveUniverse
<1>25. CASE AskToSaveComputer
  BY <1>25 DEF AskToSaveComputer
<1>26. CASE EndTransition
  BY <1>26 DEF EndTransition
<1> QED
  BY <1>11, <1>12, <1>13, <1>14, <1>15, <1>16, <1>17, <1>18, <1>19, <1>20, <1>21, <1>22, <1>23, <1>24, <1>25, <1>26 DEF TickProcessorStep

\* Every step of every thread preserves the invariant.
LEMMA EpochInvStep == EpochInv /\ [EpochNext]_epochVars => EpochInv'
<1> SUFFICES ASSUME EpochInv, [EpochNext]_epochVars PROVE EpochInv'
  OBVIOUS
<1>1. CASE \E r \in EpochRequestProcessor : RequestProcessorStep(r)
  BY <1>1, RequestStepInv
<1>2. CASE ContractProcessorStep
  BY <1>2, ContractStepInv
<1>3. CASE MainLoopStep
  BY <1>3, MainStepInv
<1>4. CASE ExitMainLoop \/ PeriodElapses \/ Continue \/ ShutDown
  BY <1>4, OutsideStepInv
<1>5. CASE TickProcessorStep
  BY <1>5, TickTypes, TickPlaces, TickContracts, TickFiles DEF EpochInv
<1>6. CASE UNCHANGED epochVars
  BY <1>6 DEF EpochInv, epochVars, EpochTypeOK, PlaceOK, InTick, Paused, Beginning, Ending, ProcessorsOK, Counted,
              ContractOK, FlagsOK, WritingOK, PeriodOK, FilesOK, requestVars, contractVars, mainVars
<1> QED
  BY <1>1, <1>2, <1>3, <1>4, <1>5, <1>6 DEF EpochNext

-----------------------------------------------------------------------------
(***************************************************************************)
(* The theorems about the epoch transition                                 *)
(***************************************************************************)

\* The inductive invariant holds in every reachable state.
THEOREM EpochInvariance == EpochSpec => []EpochInv
<1>1. EpochInit => EpochInv
  BY EpochInvInit
<1>2. EpochInv /\ [EpochNext]_epochVars => EpochInv'
  BY EpochInvStep
<1> QED
  BY <1>1, <1>2, PTL DEF EpochSpec

\* Every variable has its type; in particular the counter of waiting request processors stays
\* between 0 and their number, which is what the tick processor compares it with.
THEOREM EpochTyped == EpochSpec => []EpochTypeOK
BY EpochInvariance, PTL DEF EpochInv

\* No request processor handles a request while the tick processor ends an epoch or begins one,
\* also after the operator's pause, when the processors have worked again in between.
THEOREM RequestsStayParked == EpochSpec => []RequestsParked
<1>1. EpochInv => RequestsParked
  BY DEF EpochInv, ProcessorsOK, RequestsParked, Processor
<1> QED
  BY <1>1, EpochInvariance, PTL

\* The tick processor never goes on before the contract processor has executed what it was asked
\* for: no event callback of an earlier run ends the wait.
THEOREM ContractsAwaited == EpochSpec => []ContractCallsComplete
<1>1. EpochInv => ContractCallsComplete
  BY DEF EpochInv, ContractOK, ContractCallsComplete
<1> QED
  BY <1>1, EpochInvariance, PTL

\* When an epoch transition is over, all files of the epoch are on disk and whole.
THEOREM FilesSaved == EpochSpec => []FilesComplete
<1>1. EpochInv => FilesComplete
  BY DEF EpochInv, FilesOK, FlagsOK, InTick, FilesComplete, EpochFile, RequestedFile
<1> QED
  BY <1>1, EpochInvariance, PTL

-----------------------------------------------------------------------------
(***************************************************************************)
(* The files and their order                                               *)
(***************************************************************************)

\* The files of a snapshot, in the order in which they are written and loaded.
LEMMA Files ==
  /\ SaveOrder[1] = "spectrum" /\ SaveOrder[2] = "system" /\ SaveOrder[3] = "digests"
  /\ SaveOrder[4] = "flags" /\ SaveOrder[5] = "ticks" /\ SaveOrder[6] = "metadata"
  /\ LoadOrder[1] = "metadata" /\ LoadOrder[2] = "ticks" /\ LoadOrder[3] = "spectrum"
  /\ LoadOrder[4] = "system" /\ LoadOrder[5] = "digests" /\ LoadOrder[6] = "flags"
  /\ \/ Len(SaveOrder) = 6 /\ Len(LoadOrder) = 6
     \/ /\ Len(SaveOrder) = 7 /\ Len(LoadOrder) = 7
        /\ SaveOrder[7] = "txStatus" /\ LoadOrder[7] = "txStatus"
<1> DEFINE s == <<"spectrum", "system", "digests", "flags", "ticks", "metadata">>
           l == <<"metadata", "ticks", "spectrum", "system", "digests", "flags">>
           names == {"spectrum", "system", "digests", "flags", "ticks", "metadata", "txStatus"}
<1>1. s \in Seq(names) /\ l \in Seq(names) /\ <<"txStatus">> \in Seq(names) /\ Len(s) = 6 /\ Len(l) = 6
  OBVIOUS
<1>2. CASE TxStatusAddon
  <2>1. SaveOrder = s \o <<"txStatus">> /\ LoadOrder = l \o <<"txStatus">>
    BY <1>2 DEF SaveOrder, LoadOrder, AddonPart
  <2> QED
    BY <1>1, <2>1
<1>3. CASE ~TxStatusAddon
  <2>1. SaveOrder = s /\ LoadOrder = l
    BY <1>3 DEF SaveOrder, LoadOrder, AddonPart
  <2> QED
    BY <1>1, <2>1
<1> QED
  BY <1>2, <1>3

\* The parts are saved, and loaded, one by one.
LEMMA PartsInOrder ==
  /\ Len(LoadOrder) = Len(SaveOrder)
  /\ Part = {LoadOrder[j] : j \in 1 .. Len(LoadOrder)}
<1>1. CASE Len(SaveOrder) = 6
  <2>1. Part = {SaveOrder[i] : i \in {1, 2, 3, 4, 5, 6}} /\ 1 .. 6 = {1, 2, 3, 4, 5, 6}
    BY <1>1 DEF Part
  <2>2. Part = {LoadOrder[i] : i \in {1, 2, 3, 4, 5, 6}}
    BY <1>1, <2>1, Files
  <2> QED
    BY <1>1, <2>1, <2>2, Files
<1>2. CASE Len(SaveOrder) = 7
  <2>1. Part = {SaveOrder[i] : i \in {1, 2, 3, 4, 5, 6, 7}} /\ 1 .. 7 = {1, 2, 3, 4, 5, 6, 7}
    BY <1>2 DEF Part
  <2>2. Part = {LoadOrder[i] : i \in {1, 2, 3, 4, 5, 6, 7}}
    BY <1>2, <2>1, Files
  <2> QED
    BY <1>2, <2>1, <2>2, Files
<1> QED
  BY <1>1, <1>2, Files

\* Every part has its place in the order of saving, and the metadata have one place.
LEMMA SavingOrder ==
  /\ Len(SaveOrder) \in Nat /\ 6 <= Len(SaveOrder) /\ Len(SaveOrder) <= 7
  /\ "metadata" \in Part /\ "system" \in Agreeing
  /\ Agreeing \in SUBSET Part /\ "system" \notin LedgerPart
  /\ \A i \in 1 .. Len(SaveOrder) : SaveOrder[i] \in Part
  /\ \A i \in 1 .. Len(SaveOrder) : SaveOrder[i] = "metadata" <=> i = MetadataAt
  /\ \A p \in Part : \E i \in 1 .. Len(SaveOrder) : SaveOrder[i] = p
<1>1. Len(SaveOrder) \in Nat /\ 6 <= Len(SaveOrder) /\ Len(SaveOrder) <= 7
  <2>1. CASE Len(SaveOrder) = 6
    BY <2>1
  <2>2. CASE Len(SaveOrder) = 7
    BY <2>2
  <2> QED
    BY <2>1, <2>2, Files
<1>2. /\ \A i \in 1 .. Len(SaveOrder) : SaveOrder[i] \in Part
      /\ \A p \in Part : \E i \in 1 .. Len(SaveOrder) : SaveOrder[i] = p
  BY DEF Part
<1>3. \A i \in 1 .. Len(SaveOrder) : SaveOrder[i] = "metadata" <=> i = MetadataAt
  <2>1. CASE Len(SaveOrder) = 6
    <3>1. \A i \in {1, 2, 3, 4, 5, 6} : SaveOrder[i] = "metadata" <=> i = 6
      BY <2>1, Files
    <3> QED
      BY <2>1, <3>1 DEF MetadataAt
  <2>2. CASE Len(SaveOrder) = 7
    <3>1. \A i \in {1, 2, 3, 4, 5, 6, 7} : SaveOrder[i] = "metadata" <=> i = 6
      BY <2>2, Files
    <3> QED
      BY <2>2, <3>1 DEF MetadataAt
  <2> QED
    BY <2>1, <2>2, Files
<1>4. SaveOrder[6] = "metadata" /\ SaveOrder[2] = "system"
  BY Files
<1>5. "metadata" \in Part /\ "system" \in Part
  BY <1>1, <1>2, <1>4
<1> QED
  BY <1>1, <1>2, <1>3, <1>5 DEF Agreeing, LedgerPart

\* No part is saved twice.
LEMMA SaveOrderInjective ==
  \A i, j \in 1 .. Len(SaveOrder) : i # j => SaveOrder[i] # SaveOrder[j]
<1>1. CASE Len(SaveOrder) = 6
  <2>1. \A i, j \in {1, 2, 3, 4, 5, 6} : i # j => SaveOrder[i] # SaveOrder[j]
    BY <1>1, Files
  <2> QED
    BY <1>1, <2>1
<1>2. CASE Len(SaveOrder) = 7
  <2>1. \A i, j \in {1, 2, 3, 4, 5, 6, 7} : i # j => SaveOrder[i] # SaveOrder[j]
    BY <1>2, Files
  <2> QED
    BY <1>2, <2>1
<1> QED
  BY <1>1, <1>2, Files

\* Loading stops before the first file when the metadata are not valid, and is complete when no
\* file is missing; a file that is loaded is there.
LEMMA Loading ==
  /\ ~(snapshot["metadata"] >= 0) => Loaded = {}
  /\ (\A p \in Part : snapshot[p] >= 0) => Loaded = Part
  /\ \A p \in Loaded : snapshot[p] >= 0
  /\ LoadComplete => \A p \in Part : snapshot[p] >= 0
<1>1. LoadOrder[1] = "metadata" /\ Len(LoadOrder) \in Nat /\ Part = {LoadOrder[j] : j \in 1 .. Len(LoadOrder)}
  BY Files, PartsInOrder
<1>2. ASSUME ~(snapshot["metadata"] >= 0) PROVE Loaded = {}
  BY <1>1, <1>2 DEF Loaded
<1>3. ASSUME \A p \in Part : snapshot[p] >= 0 PROVE Loaded = Part
  <2>1. \A j \in 1 .. Len(LoadOrder) : \A k \in 1 .. j : snapshot[LoadOrder[k]] >= 0
    BY <1>1, <1>3
  <2> QED
    BY <1>1, <2>1 DEF Loaded
<1>4. \A p \in Loaded : snapshot[p] >= 0
  BY <1>1 DEF Loaded
<1> QED
  BY <1>2, <1>3, <1>4 DEF LoadComplete

-----------------------------------------------------------------------------
(***************************************************************************)
(* The invariant is inductive                                              *)
(***************************************************************************)

\* A node that has just started has no snapshot.
LEMMA SnapshotInvInit == SnapshotInit => SnapshotInv
<1> SUFFICES ASSUME SnapshotInit PROVE SnapshotInv
  OBVIOUS
<1>1. /\ \A p \in Part : memory[p] = 0 /\ snapshot[p] = -1
      /\ memory \in [Part -> 0 .. SnapshotTicks] /\ snapshot \in [Part -> -2 .. SnapshotTicks]
      /\ saving = 0 /\ snapshotPc = "loop" /\ saving \in -2 .. Len(SaveOrder)
  BY SavingOrder, SnapshotAssumption DEF SnapshotInit, Absent
<1>2. snapshot["metadata"] = -1
  BY <1>1, SavingOrder
<1>3. SnapshotFilesOK
  BY <1>1, <1>2 DEF SnapshotFilesOK, FilesToCome, FilesWritten, FilesWhole, Invalidating, MetadataAt
<1>4. MemoryOK
  BY <1>1, SavingOrder DEF MemoryOK
<1>5. HandshakeOK
  BY <1>1 DEF HandshakeOK, SnapshotInit
<1>6. SnapshotTypeOK
  BY <1>1 DEF SnapshotTypeOK, SnapshotInit, Invalid, Invalidating
<1> QED
  BY <1>3, <1>4, <1>5, <1>6 DEF SnapshotInv

\* The files stay as good as they are while neither they nor the main loop move, if the state in
\* memory does not change behind a save that is not mixed.
LEMMA FilesUnmoved ==
  ASSUME SnapshotFilesOK, UNCHANGED <<snapshot, saving, up, astray>>,
         mixed => mixed',
         saving > 1 /\ ~mixed' => memory' = memory /\ snapshotPc' \in {"waiting", "clearing"},
         saving \in Int
  PROVE  SnapshotFilesOK'
<1>1. FilesToCome' /\ FilesWhole'
  BY DEF SnapshotFilesOK, FilesToCome, FilesWhole, OneTick
<1>2. ASSUME saving' > 0, ~mixed'
      PROVE  /\ ~astray'
             /\ saving' > 1 => snapshotPc' \in {"waiting", "clearing"}
             /\ \A i \in 1 .. saving' - 1 : snapshot'[SaveOrder[i]] = memory'[SaveOrder[i]]
  <2>1. CASE saving = 1
    BY <1>2, <2>1 DEF SnapshotFilesOK, FilesWritten
  <2>2. CASE saving > 1
    BY <1>2, <2>2 DEF SnapshotFilesOK, FilesWritten
  <2> QED
    BY <1>2, <2>1, <2>2
<1> QED
  BY <1>1, <1>2 DEF SnapshotFilesOK, FilesWritten

\* A step of the tick processor.
LEMMA TickStepInv ==
  ASSUME SnapshotInv,
         \/ PauseForSnapshot
         \/ SeeRequestEnd
         \/ GoOn
         \/ NoRequest
         \/ ExecuteTick
         \/ LeaveTick
  PROVE  SnapshotInv'
<1> USE DEF SnapshotInv
<1>1. /\ "system" \in Part /\ "system" \notin LedgerPart /\ Agreeing \in SUBSET Part
      /\ memory \in [Part -> 0 .. SnapshotTicks] /\ saving \in Int
  <2>1. "system" \in Part /\ "system" \notin LedgerPart /\ Agreeing \in SUBSET Part
    BY SavingOrder
  <2>2. saving \in Invalidating .. Len(SaveOrder) /\ memory \in [Part -> 0 .. SnapshotTicks]
    BY DEF SnapshotTypeOK
  <2>3. saving \in Int
    BY <2>2, SavingOrder DEF Invalidating
  <2> QED
    BY <2>1, <2>2, <2>3
<1>2. UNCHANGED <<snapshot, saving, up, astray, requestPersistingNodeState>> /\ (mixed => mixed')
  <2>1. UNCHANGED <<snapshot, saving, up, astray, requestPersistingNodeState>>
    BY DEF PauseForSnapshot, SeeRequestEnd, GoOn, NoRequest, ExecuteTick, LeaveTick, history
  <2>2. mixed => mixed'
    BY Zenon DEF PauseForSnapshot, SeeRequestEnd, GoOn, NoRequest, ExecuteTick, LeaveTick, history
  <2> QED
    BY <2>1, <2>2
<1>3. saving > 1 /\ ~mixed' => memory' = memory /\ snapshotPc' \in {"waiting", "clearing"}
  <2>1. saving > 1 /\ ~mixed' =>
          requestPersistingNodeState = 1 /\ snapshotPc \in {"waiting", "clearing"}
    BY <1>1, <1>2 DEF HandshakeOK, SnapshotFilesOK, FilesWritten
  <2>2. ~GoOn \/ ~(saving > 1 /\ ~mixed')
    BY <1>1 DEF GoOn
  <2> QED
    BY <2>1, <2>2 DEF PauseForSnapshot, SeeRequestEnd, NoRequest, ExecuteTick, LeaveTick
<1>4. SnapshotFilesOK'
  BY <1>1, <1>2, <1>3, FilesUnmoved
<1>5. CASE PauseForSnapshot \/ SeeRequestEnd \/ GoOn \/ NoRequest
  <2>1. UNCHANGED memory /\ snapshotPc # "processed" /\ snapshotPc' # "processed"
    BY <1>5 DEF PauseForSnapshot, SeeRequestEnd, GoOn, NoRequest
  <2>2. MemoryOK'
    BY <1>2, <2>1 DEF MemoryOK
  <2>3. HandshakeOK'
    BY <1>5 DEF PauseForSnapshot, SeeRequestEnd, GoOn, NoRequest, history, HandshakeOK, SnapshotTypeOK
  <2>4. SnapshotTypeOK'
    BY <1>2, <1>5, <2>1 DEF PauseForSnapshot, SeeRequestEnd, GoOn, NoRequest, history, SnapshotTypeOK
  <2> QED
    BY <1>4, <2>2, <2>3, <2>4
<1>6. CASE ExecuteTick
  <2>1. /\ \A p \in Part : memory'[p] = IF p \in LedgerPart THEN memory["system"] + 1 ELSE memory[p]
        /\ memory' \in [Part -> 0 .. SnapshotTicks]
        /\ memory["system"] < SnapshotTicks /\ snapshotPc = "processing" /\ snapshotPc' = "processed"
        /\ UNCHANGED <<persistingNodeStateTickProcWaiting, history>>
    BY <1>1, <1>6, SnapshotAssumption DEF ExecuteTick
  <2>2. MemoryOK'
    BY <1>1, <1>2, <2>1 DEF MemoryOK
  <2>3. HandshakeOK'
    BY <1>2, <2>1 DEF HandshakeOK, history
  <2>4. SnapshotTypeOK'
    BY <1>2, <2>1 DEF SnapshotTypeOK, history
  <2> QED
    BY <1>4, <2>2, <2>3, <2>4
<1>7. CASE LeaveTick
  <2>1. /\ \A p \in Part : memory'[p] = IF p \in LedgerPart THEN memory[p] ELSE memory["system"] + 1
        /\ snapshotPc = "processed" /\ snapshotPc' = "loop"
        /\ UNCHANGED <<persistingNodeStateTickProcWaiting, history>>
    BY <1>7 DEF LeaveTick
  <2>2. memory' \in [Part -> 0 .. SnapshotTicks]
    BY <1>1, <1>7, <2>1, SnapshotAssumption DEF LeaveTick, MemoryOK
  <2>3. MemoryOK'
    BY <1>1, <1>2, <2>1 DEF MemoryOK
  <2>4. HandshakeOK'
    BY <1>2, <2>1 DEF HandshakeOK, history
  <2>5. SnapshotTypeOK'
    BY <1>2, <2>1, <2>2 DEF SnapshotTypeOK, history
  <2> QED
    BY <1>4, <2>3, <2>4, <2>5
<1> QED
  BY <1>5, <1>6, <1>7

\* When the process leaves off and the metadata are accepted, all files are there or they are mixed.
LEMMA LeavingOff ==
  ASSUME SnapshotInv, snapshot["metadata"] >= 0, ~mixed, ~LeftOff
  PROVE  OneTick /\ \A p \in Part : snapshot[p] >= 0
<1>1. OneTick /\ (saving = 0 => \A p \in Part : snapshot[p] >= 0)
  BY DEF SnapshotInv, SnapshotFilesOK, FilesWhole
<1>2. saving # 0 => saving = Removing \/ saving > MetadataAt
  <2>1. saving \in -2 .. 7 /\ snapshot["metadata"] \in Int
    <3>1. saving \in Invalidating .. Len(SaveOrder) /\ snapshot \in [Part -> Invalid .. SnapshotTicks]
      BY DEF SnapshotInv, SnapshotTypeOK
    <3> QED
      <4>1. snapshot["metadata"] \in Invalid .. SnapshotTicks
        BY <3>1, SavingOrder
      <4>2. Len(SaveOrder) \in Nat /\ 6 <= Len(SaveOrder) /\ Len(SaveOrder) <= 7
        BY SavingOrder
      <4>3. snapshot["metadata"] \in Int
        <5>1. SnapshotTicks \in Int /\ Invalid = -2
          BY SnapshotAssumption DEF Invalid
        <5> QED
          BY <4>1, <5>1
      <4>4. saving \in -2 .. 7
        <5>1. saving \in Int /\ -2 <= saving /\ saving <= Len(SaveOrder)
          BY <3>1, <4>2 DEF Invalidating
        <5>2. Len(SaveOrder) <= 7 /\ Len(SaveOrder) \in Int
          BY <4>2
        <5> QED
          BY <5>1, <5>2
      <4> QED
        BY <4>3, <4>4
  <2>2. saving # Invalidating
    BY SavingOrder DEF SnapshotInv, SnapshotFilesOK, FilesToCome, Absent
  <2>3. saving \notin 1 .. MetadataAt
    BY DEF SnapshotInv, SnapshotFilesOK, FilesToCome, Invalid
  <2> QED
    BY <2>1, <2>2, <2>3 DEF Removing, Invalidating, MetadataAt
<1>3. saving # 0 => \A p \in Part : snapshot[p] >= 0
  BY <1>2, Loading DEF LeftOff
<1> QED
  BY <1>1, <1>3

\* A step of the main loop.
LEMMA SaveStepInv ==
  ASSUME SnapshotInv,
         \/ RequestSnapshot
         \/ StartSaving
         \/ RemoveOldFile
         \/ FinishRemoval
         \/ InvalidateNodeStates
         \/ SaveNextPart
         \/ SaveFails
  PROVE  SnapshotInv'
<1> USE DEF SnapshotInv
<1>1. UNCHANGED <<memory, snapshotPc, persistingNodeStateTickProcWaiting, up, missed, astray>> /\ up
  BY DEF RequestSnapshot, StartSaving, RemoveOldFile, FinishRemoval, InvalidateNodeStates, SaveNextPart,
         SaveFails, history
<1>2. MemoryOK'
  BY <1>1 DEF MemoryOK
<1>3. /\ Len(SaveOrder) \in Nat /\ 6 <= Len(SaveOrder) /\ Len(SaveOrder) <= 7 /\ "metadata" \in Part
      /\ snapshot \in [Part -> Invalid .. SnapshotTicks] /\ Invalid = -2 /\ Absent = -1
      /\ saving \in -2 .. Len(SaveOrder) /\ SnapshotTicks \in Nat
      /\ MetadataAt = 6 /\ Agreeing \in SUBSET Part
  <2>1. snapshot \in [Part -> Invalid .. SnapshotTicks] /\ saving \in Invalidating .. Len(SaveOrder)
    BY DEF SnapshotTypeOK
  <2> QED
    BY <2>1, SavingOrder, SnapshotAssumption DEF Invalid, Absent, Invalidating, MetadataAt
<1>4. ASSUME HandshakeOK', SnapshotFilesOK', snapshot' \in [Part -> Invalid .. SnapshotTicks],
             saving' \in -2 .. Len(SaveOrder), requestPersistingNodeState' \in {0, 1}, mixed' \in BOOLEAN
      PROVE  SnapshotInv'
  BY <1>1, <1>2, <1>4 DEF SnapshotTypeOK, Invalidating
<1>5. CASE RequestSnapshot
  <2>1. saving = 0 /\ saving' = 0 /\ UNCHANGED <<snapshot, mixed>> /\ requestPersistingNodeState' = 1
    BY <1>5 DEF RequestSnapshot, history
  <2>2. SnapshotFilesOK'
    BY <1>1, <2>1, FilesUnmoved
  <2>3. HandshakeOK'
    BY <1>1, <2>1 DEF HandshakeOK
  <2> QED
    BY <1>3, <1>4, <2>1, <2>2, <2>3 DEF SnapshotTypeOK
<1>6. CASE StartSaving
  <2>1. /\ saving = 0 /\ saving' = -1 /\ requestPersistingNodeState = 1
        /\ persistingNodeStateTickProcWaiting = 1
        /\ UNCHANGED <<snapshot, mixed, requestPersistingNodeState>>
    BY <1>6 DEF StartSaving, Removing, history
  <2>2. SnapshotFilesOK'
    BY <1>1, <2>1
       DEF SnapshotFilesOK, FilesToCome, FilesWritten, FilesWhole, OneTick, Invalidating, MetadataAt
  <2>3. HandshakeOK'
    BY <1>1, <2>1 DEF HandshakeOK
  <2> QED
    BY <1>3, <1>4, <2>1, <2>2, <2>3 DEF SnapshotTypeOK
<1>7. CASE RemoveOldFile
  <2>1. saving = -1 /\ saving' = -1 /\ UNCHANGED <<mixed, requestPersistingNodeState>>
    BY <1>7 DEF RemoveOldFile, Removing, history
  <2>2. PICK q \in Part : snapshot' = [snapshot EXCEPT ![q] = Absent]
    BY <1>7 DEF RemoveOldFile
  <2>3. /\ snapshot' \in [Part -> Invalid .. SnapshotTicks]
        /\ \A p \in Part : snapshot'[p] = Absent \/ snapshot'[p] = snapshot[p]
    BY <1>3, <2>2
  <2>4. FilesWhole'
    <3>1. SUFFICES ASSUME snapshot'["metadata"] >= 0, ~mixed' PROVE OneTick'
      BY <1>1, <2>1 DEF FilesWhole
    <3>2. snapshot["metadata"] >= 0 /\ ~mixed
      BY <1>3, <2>1, <2>3, <3>1
    <3>3. PICK t \in 0 .. SnapshotTicks : \A p \in Agreeing : snapshot[p] \in {t, Absent}
      BY <3>2 DEF SnapshotFilesOK, FilesWhole, OneTick
    <3>4. \A p \in Agreeing : snapshot'[p] \in {t, Absent}
      BY <1>3, <2>3, <3>3
    <3> QED
      BY <3>4 DEF OneTick
  <2>5. SnapshotFilesOK'
    BY <2>1, <2>4 DEF SnapshotFilesOK, FilesToCome, FilesWritten, Invalidating, MetadataAt
  <2>6. HandshakeOK'
    BY <1>1, <2>1 DEF HandshakeOK
  <2> QED
    BY <1>3, <1>4, <2>1, <2>3, <2>5, <2>6 DEF SnapshotTypeOK
<1>8. CASE FinishRemoval
  <2>1. /\ saving = -1 /\ saving' = -2 /\ \A p \in Part : snapshot[p] = Absent
        /\ UNCHANGED <<snapshot, mixed, requestPersistingNodeState>>
    BY <1>8 DEF FinishRemoval, Removing, Invalidating, history
  <2>2. snapshot'["metadata"] = -1
    BY <1>3, <2>1
  <2>3. SnapshotFilesOK'
    BY <2>1, <2>2 DEF SnapshotFilesOK, FilesToCome, FilesWritten, FilesWhole, MetadataAt
  <2>4. HandshakeOK'
    BY <1>1, <2>1 DEF HandshakeOK
  <2> QED
    BY <1>3, <1>4, <2>1, <2>3, <2>4 DEF SnapshotTypeOK
<1>9. CASE InvalidateNodeStates
  <2>1. /\ saving = -2 /\ saving' = 1 /\ snapshot' = [snapshot EXCEPT !["metadata"] = Invalid]
        /\ mixed' = astray /\ UNCHANGED requestPersistingNodeState
    BY <1>9 DEF InvalidateNodeStates, Invalidating
  <2>2. /\ snapshot' \in [Part -> Invalid .. SnapshotTicks] /\ snapshot'["metadata"] = -2
        /\ \A p \in Part : p # "metadata" => snapshot'[p] = snapshot[p]
    BY <1>3, <2>1
  <2>3. \A i \in 1 .. Len(SaveOrder) : i # MetadataAt => snapshot'[SaveOrder[i]] = Absent
    BY <2>1, <2>2, SavingOrder DEF SnapshotFilesOK, FilesToCome, Invalidating
  <2>4. SnapshotFilesOK'
    BY <1>1, <1>3, <2>1, <2>2, <2>3 DEF SnapshotFilesOK, FilesToCome, FilesWritten, FilesWhole, Invalidating
  <2>5. HandshakeOK'
    BY <1>1, <2>1 DEF HandshakeOK
  <2>6. mixed' \in BOOLEAN
    <3>1. astray \in BOOLEAN
      BY DEF SnapshotTypeOK
    <3> QED
      BY <2>1, <3>1
  <2>7. saving' \in -2 .. Len(SaveOrder)
    BY <1>3, <2>1
  <2>8. requestPersistingNodeState' \in {0, 1}
    BY <2>1 DEF SnapshotTypeOK
  <2> QED
    BY <1>4, <2>2, <2>4, <2>5, <2>6, <2>7, <2>8
<1>10. CASE SaveNextPart
  <2>1. /\ saving \in 1 .. Len(SaveOrder) /\ SaveOrder[saving] \in Part
        /\ snapshot' = [snapshot EXCEPT ![SaveOrder[saving]] = memory[SaveOrder[saving]]]
        /\ mixed' = (mixed \/ missed)
    BY <1>3, <1>10, SavingOrder DEF SaveNextPart
  <2>2. IF saving < Len(SaveOrder)
        THEN saving' = saving + 1 /\ UNCHANGED requestPersistingNodeState
        ELSE saving' = 0 /\ requestPersistingNodeState' = 0
    BY <1>10 DEF SaveNextPart
  <2>3. memory \in [Part -> 0 .. SnapshotTicks]
    BY DEF SnapshotTypeOK
  <2>4. /\ snapshot' \in [Part -> Invalid .. SnapshotTicks]
        /\ snapshot'[SaveOrder[saving]] = memory[SaveOrder[saving]]
        /\ \A p \in Part : p # SaveOrder[saving] => snapshot'[p] = snapshot[p]
    <3>1. memory[SaveOrder[saving]] \in 0 .. SnapshotTicks
      BY <2>1, <2>3
    <3> QED
      BY <1>3, <2>1, <3>1
  <2>5. HandshakeOK'
    BY <1>1, <1>3, <2>1, <2>2 DEF HandshakeOK
  <2>6. \A i \in 1 .. Len(SaveOrder) : i # saving => SaveOrder[i] # SaveOrder[saving]
    BY <2>1, SaveOrderInjective
  <2>7. \A i \in saving + 1 .. Len(SaveOrder) : i # MetadataAt => snapshot'[SaveOrder[i]] = Absent
    <3>1. \A i \in saving .. Len(SaveOrder) : i # MetadataAt => snapshot[SaveOrder[i]] = Absent
      BY <2>1 DEF SnapshotFilesOK, FilesToCome
    <3> QED
      BY <1>3, <2>1, <2>4, <2>6, <3>1, SavingOrder
  <2>8. /\ saving < 6 => snapshot'["metadata"] = Invalid
        /\ saving = 6 => snapshot'["metadata"] = memory["metadata"]
    <3>1. saving <= 6 => snapshot["metadata"] = Invalid
      BY <1>3, <2>1 DEF SnapshotFilesOK, FilesToCome
    <3> QED
      BY <1>3, <2>1, <2>4, <3>1, SavingOrder
  <2>9. ASSUME ~mixed'
        PROVE  /\ ~astray /\ snapshotPc \in {"waiting", "clearing"}
               /\ \A i \in 1 .. saving : snapshot'[SaveOrder[i]] = memory[SaveOrder[i]]
    <3>1. ~mixed /\ ~missed
      BY <2>1, <2>9
    <3>2. /\ ~astray /\ snapshotPc \in {"waiting", "clearing"}
          /\ \A i \in 1 .. saving - 1 : snapshot[SaveOrder[i]] = memory[SaveOrder[i]]
      BY <2>1, <3>1 DEF SnapshotFilesOK, FilesWritten, HandshakeOK
    <3>3. \A i \in 1 .. saving - 1 : snapshot'[SaveOrder[i]] = memory[SaveOrder[i]]
      BY <1>3, <2>1, <2>4, <2>6, <3>2, SavingOrder
    <3> QED
      BY <2>1, <2>4, <3>2, <3>3
  <2>10. ASSUME ~mixed', saving >= 6 PROVE OneTick'
    <3>1. \A p \in Agreeing : memory[p] = memory["system"]
      BY <2>9, <2>10 DEF MemoryOK
    <3>2. memory["system"] \in 0 .. SnapshotTicks
      BY <2>3, SavingOrder
    <3>3. \A p \in Agreeing : snapshot'[p] \in {memory["system"], Absent}
      <4> SUFFICES ASSUME NEW p \in Agreeing PROVE snapshot'[p] \in {memory["system"], Absent}
        OBVIOUS
      <4>1. PICK i \in 1 .. Len(SaveOrder) : SaveOrder[i] = p
        BY <1>3, SavingOrder
      <4>2. i # MetadataAt
        BY <4>1, SavingOrder DEF Agreeing
      <4> QED
        BY <1>3, <2>1, <2>7, <2>9, <2>10, <3>1, <4>1, <4>2
    <3> QED
      BY <3>2, <3>3 DEF OneTick
  <2>11. FilesToCome'
    BY <1>3, <2>1, <2>2, <2>7, <2>8 DEF FilesToCome, Invalidating
  <2>12. FilesWritten'
    BY <1>1, <1>3, <2>1, <2>2, <2>9 DEF FilesWritten
  <2>13. FilesWhole'
    <3>1. SUFFICES ASSUME snapshot'["metadata"] >= 0, ~mixed'
                   PROVE  OneTick' /\ (saving' = 0 => \A p \in Part : snapshot'[p] >= 0)
      BY <1>1 DEF FilesWhole
    <3>2. saving >= 6
      BY <1>3, <2>1, <2>8, <3>1
    <3>3. ASSUME saving' = 0 PROVE \A p \in Part : snapshot'[p] >= 0
      <4>1. saving = Len(SaveOrder)
        BY <1>3, <2>1, <2>2, <3>3
      <4> QED
        BY <2>3, <2>9, <3>1, <4>1, SavingOrder
    <3> QED
      BY <2>10, <3>1, <3>2, <3>3
  <2>14. /\ saving' \in -2 .. Len(SaveOrder) /\ requestPersistingNodeState' \in {0, 1}
         /\ mixed' \in BOOLEAN
    <3>1. saving' \in -2 .. Len(SaveOrder) /\ requestPersistingNodeState' \in {0, 1}
      BY <1>3, <2>1, <2>2 DEF SnapshotTypeOK
    <3> QED
      BY <2>1, <3>1 DEF SnapshotTypeOK
  <2> QED
    BY <1>4, <2>4, <2>5, <2>11, <2>12, <2>13, <2>14 DEF SnapshotFilesOK
<1>11. CASE SaveFails
  <2>1. /\ saving # 0 /\ saving' = 0 /\ requestPersistingNodeState' = 0 /\ UNCHANGED snapshot
        /\ mixed' = (mixed \/ LeftOff)
    BY <1>11 DEF SaveFails
  <2>2. FilesWhole'
    BY <1>1, <1>3, <2>1, LeavingOff DEF FilesWhole, OneTick
  <2>3. SnapshotFilesOK'
    BY <1>3, <2>1, <2>2 DEF SnapshotFilesOK, FilesToCome, FilesWritten, Invalidating
  <2>4. HandshakeOK'
    BY <1>1, <2>1 DEF HandshakeOK
  <2>5. mixed' \in BOOLEAN
    BY <2>1 DEF SnapshotTypeOK, LeftOff
  <2> QED
    BY <1>3, <1>4, <2>1, <2>3, <2>4, <2>5 DEF SnapshotTypeOK
<1> QED
  BY <1>5, <1>6, <1>7, <1>8, <1>9, <1>10, <1>11

\* A crash leaves the files as they are, and a restart loads a whole snapshot or none, or the node
\* is astray.
LEMMA CrashStepInv ==
  ASSUME SnapshotInv, Crash \/ Restart
  PROVE  SnapshotInv'
<1> USE DEF SnapshotInv
<1>1. CASE Crash
  <2>1. /\ up' = FALSE /\ mixed' = (mixed \/ LeftOff)
        /\ UNCHANGED <<memory, snapshot, snapshotPc, requestPersistingNodeState,
                       persistingNodeStateTickProcWaiting, saving, missed, astray>>
    BY <1>1 DEF Crash
  <2>2. /\ saving \in -2 .. Len(SaveOrder)
        /\ Len(SaveOrder) \in Nat /\ 6 <= Len(SaveOrder) /\ Len(SaveOrder) <= 7
    BY SavingOrder DEF SnapshotTypeOK, Invalidating
  <2>3. FilesWhole'
    BY <2>1, LeavingOff DEF FilesWhole, OneTick
  <2>4. SnapshotFilesOK'
    BY <2>1, <2>3 DEF SnapshotFilesOK, FilesToCome, FilesWritten
  <2>5. MemoryOK' /\ HandshakeOK'
    BY <2>1 DEF MemoryOK, HandshakeOK
  <2>6. mixed' \in BOOLEAN
    BY <2>1 DEF SnapshotTypeOK, LeftOff
  <2>7. SnapshotTypeOK'
    BY <2>1, <2>6 DEF SnapshotTypeOK
  <2> QED
    BY <2>4, <2>5, <2>7
<1>2. CASE Restart
  <2>1. /\ up' = TRUE /\ snapshotPc' = "loop" /\ requestPersistingNodeState' = 0
        /\ persistingNodeStateTickProcWaiting' = 0 /\ saving' = 0 /\ ~up
        /\ missed' = FALSE /\ UNCHANGED <<snapshot, mixed>>
    BY <1>2 DEF Restart
  <2>2. /\ astray' = (snapshot["metadata"] >= 0 /\ mixed)
        /\ memory' = [p \in Part |->
             IF p \in Loaded /\ (LoadComplete \/ p \notin ScratchPart) THEN snapshot[p] ELSE 0]
    BY <1>2 DEF Restart
  <2>3. /\ snapshot \in [Part -> -2 .. SnapshotTicks] /\ SnapshotTicks \in Nat
        /\ Len(SaveOrder) \in Nat /\ 6 <= Len(SaveOrder) /\ Len(SaveOrder) <= 7
    BY SavingOrder, SnapshotAssumption DEF SnapshotTypeOK, Invalid
  <2>4. memory' \in [Part -> 0 .. SnapshotTicks]
    <3>1. \A p \in Part : p \in Loaded => snapshot[p] \in 0 .. SnapshotTicks
      BY <2>3, Loading
    <3> QED
      BY <2>2, <2>3, <3>1
  <2>5. SnapshotFilesOK'
    BY <2>1, <2>3 DEF SnapshotFilesOK, FilesToCome, FilesWritten, FilesWhole, OneTick, Invalidating
  <2>6. ASSUME ~astray' PROVE \A p \in Agreeing : memory'[p] = memory'["system"]
    <3>1. CASE ~(snapshot["metadata"] >= 0)
      BY <2>2, <3>1, Loading, SavingOrder
    <3>2. CASE snapshot["metadata"] >= 0
      <4>1. OneTick /\ \A p \in Part : snapshot[p] >= 0
        BY <2>1, <2>2, <2>6, <3>2 DEF SnapshotFilesOK, FilesWhole
      <4>2. \A p \in Part : memory'[p] = snapshot[p]
        BY <2>2, <4>1, Loading DEF LoadComplete
      <4>3. PICK t \in 0 .. SnapshotTicks : \A p \in Agreeing : snapshot[p] \in {t, Absent}
        BY <4>1 DEF OneTick
      <4>4. \A p \in Agreeing : snapshot[p] = t
        BY <4>1, <4>3, SavingOrder DEF Absent
      <4> QED
        BY <4>2, <4>4, SavingOrder
    <3> QED
      BY <3>1, <3>2
  <2>7. MemoryOK'
    BY <2>1, <2>6 DEF MemoryOK
  <2>8. HandshakeOK'
    BY <2>1 DEF HandshakeOK
  <2>9. astray' \in BOOLEAN /\ saving' \in Invalidating .. Len(SaveOrder)
    BY <2>1, <2>2, <2>3 DEF Invalidating
  <2>10. SnapshotTypeOK'
    BY <2>1, <2>4, <2>9 DEF SnapshotTypeOK
  <2> QED
    BY <2>5, <2>7, <2>8, <2>10
<1> QED
  BY <1>1, <1>2

-----------------------------------------------------------------------------
(***************************************************************************)
(* The theorems about the snapshots                                        *)
(***************************************************************************)

\* Every step of the snapshots keeps their invariant.
LEMMA SnapshotInvStep == SnapshotInv /\ [SnapshotNext]_snapshotVars => SnapshotInv'
<1> SUFFICES ASSUME SnapshotInv, [SnapshotNext]_snapshotVars PROVE SnapshotInv'
  OBVIOUS
<1>1. CASE SnapshotNext
  BY <1>1, TickStepInv, SaveStepInv, CrashStepInv DEF SnapshotNext
<1>2. CASE UNCHANGED snapshotVars
  BY <1>2 DEF snapshotVars, history, SnapshotInv, SnapshotTypeOK, MemoryOK, HandshakeOK, SnapshotFilesOK,
              FilesToCome, FilesWritten, FilesWhole, OneTick
<1> QED
  BY <1>1, <1>2

\* What a snapshot holds, and what the node has in memory, in every reachable state.
THEOREM SnapshotInvariance == SnapshotSpec => []SnapshotInv
BY SnapshotInvInit, SnapshotInvStep, PTL DEF SnapshotSpec

\* Whenever the tick processor takes up a tick, after a crash and a restart too, all parts of the
\* node's state belong to that tick, unless the node has started from files that do not belong
\* together: a snapshot is taken between two ticks, and it is loaded whole or, when it was left
\* unfinished, not at all.
THEOREM RestartsConsistent == SnapshotSpec => []RestoredConsistent
<1>1. SnapshotInv => RestoredConsistent
  BY DEF SnapshotInv, MemoryOK, RestoredConsistent, Agreeing
<1> QED
  BY <1>1, SnapshotInvariance, PTL

-----------------------------------------------------------------------------
(***************************************************************************)
(* The read-write lock                                                     *)
(***************************************************************************)

\* A set of threads is finite; it is counted by 0 exactly when it is empty, and a thread that
\* joins or leaves it changes its count by one.
LEMMA ThreadCounting ==
  ASSUME NEW S \in SUBSET LockThread
  PROVE  /\ Cardinality(S) \in Nat
         /\ Cardinality(S) = 0 <=> S = {}
         /\ \A t \in LockThread \ S : Cardinality(S \cup {t}) = Cardinality(S) + 1
         /\ \A t \in S : Cardinality(S \ {t}) = Cardinality(S) - 1
<1>1. IsFiniteSet(S)
  BY LockThreadAssumption, FS_Subset
<1> QED
  BY <1>1, FS_CardinalityType, FS_EmptySet, FS_AddElement, FS_RemoveElement

\* Nobody is in the lock at first.
LEMMA LockInvInit == LockInit => LockInv
<1> SUFFICES ASSUME LockInit PROVE LockInv
  OBVIOUS
<1>1. Reading = {} /\ Writing = {} /\ Cardinality(Reading) = 0
  BY FS_EmptySet DEF LockInit, Reading, Writing
<1> QED
  BY <1>1 DEF LockInit, LockInv, LockTypeOK, LockPlace

\* The sets of readers and writers follow the place of the thread that steps.
LEMMA Holders ==
  ASSUME LockTypeOK, NEW t \in LockThread, NEW place \in LockPlace, GoTo(t, place)
  PROVE  /\ Reading' = IF place = "reading" THEN Reading \cup {t} ELSE Reading \ {t}
         /\ Writing' = IF place \in {"granted", "writing"} THEN Writing \cup {t} ELSE Writing \ {t}
         /\ lockPc' \in [LockThread -> LockPlace]
         /\ lockPc'[t] = place /\ \A u \in LockThread : u # t => lockPc'[u] = lockPc[u]
<1>1. /\ lockPc' \in [LockThread -> LockPlace] /\ lockPc'[t] = place
      /\ \A u \in LockThread : u # t => lockPc'[u] = lockPc[u]
  BY DEF GoTo, LockTypeOK
<1>2. Reading' = IF place = "reading" THEN Reading \cup {t} ELSE Reading \ {t}
  BY <1>1 DEF Reading
<1>3. Writing' = IF place \in {"granted", "writing"} THEN Writing \cup {t} ELSE Writing \ {t}
  BY <1>1 DEF Writing
<1> QED
  BY <1>1, <1>2, <1>3

\* A step of a thread keeps the counter equal to the number of readers, or -1 with one writer.
LEMMA LockStepInv ==
  ASSUME LockInv, NEW t \in LockThread, LockStep(t)
  PROVE  LockInv'
<1>1. LockTypeOK /\ Reading \in SUBSET LockThread
  BY DEF LockInv, Reading
<1>2. /\ Cardinality(Reading) \in Nat
      /\ Cardinality(Reading) = 0 <=> Reading = {}
      /\ \A u \in LockThread \ Reading : Cardinality(Reading \cup {u}) = Cardinality(Reading) + 1
      /\ \A u \in Reading : Cardinality(Reading \ {u}) = Cardinality(Reading) - 1
  BY <1>1, ThreadCounting
<1>3. PICK place \in LockPlace : GoTo(t, place)
  BY DEF LockStep, Call, TestWaiting, ReadReaders, SwapReaders, ReleaseRead, Announce, TakeWrite,
         EndWaiting, ReleaseWrite, LockPlace
<1>4. /\ Reading' = IF place = "reading" THEN Reading \cup {t} ELSE Reading \ {t}
      /\ Writing' = IF place \in {"granted", "writing"} THEN Writing \cup {t} ELSE Writing \ {t}
      /\ lockPc' \in [LockThread -> LockPlace]
      /\ lockPc'[t] = place /\ \A u \in LockThread : u # t => lockPc'[u] = lockPc[u]
  BY <1>1, <1>3, Holders
<1>5. t \in Reading <=> At(t, "reading")
  BY DEF Reading, At
<1>6. t \in Writing <=> At(t, "granted") \/ At(t, "writing")
  BY DEF Writing, At
<1>7. \/ Writing = {} /\ readers = Cardinality(Reading)
      \/ Reading = {} /\ readers = -1 /\ \E u \in LockThread : Writing = {u}
  BY DEF LockInv
<1>8. LockTypeOK'
  BY <1>1, <1>4 DEF LockTypeOK, LockStep, Call, TestWaiting, ReadReaders, SwapReaders, ReleaseRead, Announce,
         TakeWrite, EndWaiting, ReleaseWrite
<1>9. \A u \in LockThread : lockPc'[u] = "swapping" => currentReaders'[u] >= 0
  BY <1>1, <1>4 DEF LockInv, LockTypeOK, LockStep, Call, TestWaiting, ReadReaders, SwapReaders, ReleaseRead,
         Announce, TakeWrite, EndWaiting, ReleaseWrite, GoTo, At
<1>10. \/ Writing' = {} /\ readers' = Cardinality(Reading')
       \/ Reading' = {} /\ readers' = -1 /\ \E u \in LockThread : Writing' = {u}
  <2>1. CASE /\ UNCHANGED readers /\ Reading' = Reading /\ Writing' = Writing
    BY <1>7, <2>1
  <2>2. CASE Call(t) \/ TestWaiting(t) \/ ReadReaders(t) \/ Announce(t)
    <3>1. UNCHANGED readers /\ Reading' = Reading /\ Writing' = Writing
      BY <1>1, <1>4, <1>5, <1>6, <2>2
         DEF Call, TestWaiting, ReadReaders, Announce, GoTo, At, LockTypeOK
    <3> QED
      BY <2>1, <3>1
  <2>3. CASE SwapReaders(t)
    <3>1. CASE readers = currentReaders[t]
      <4>1. currentReaders[t] >= 0 /\ t \notin Reading /\ t \notin Writing
        BY <1>5, <1>6, <2>3 DEF SwapReaders, LockInv, At
      <4>2. place = "reading" /\ readers' = readers + 1
        BY <1>1, <1>4, <2>3, <3>1 DEF SwapReaders, GoTo, LockTypeOK
      <4> QED
        BY <1>2, <1>4, <1>7, <3>1, <4>1, <4>2
    <3>2. CASE readers # currentReaders[t]
      <4>1. UNCHANGED readers /\ Reading' = Reading /\ Writing' = Writing
        BY <1>1, <1>4, <1>5, <1>6, <2>3, <3>2 DEF SwapReaders, GoTo, At, LockTypeOK
      <4> QED
        BY <2>1, <4>1
    <3> QED
      BY <3>1, <3>2
  <2>4. CASE ReleaseRead(t)
    <3>1. t \in Reading /\ t \notin Writing /\ place = "idle" /\ readers' = readers - 1
      BY <1>1, <1>4, <1>5, <1>6, <2>4 DEF ReleaseRead, GoTo, At, LockTypeOK
    <3> QED
      BY <1>2, <1>4, <1>7, <3>1
  <2>5. CASE TakeWrite(t)
    <3>1. readers = 0 /\ place = "granted" /\ readers' = -1
      BY <1>1, <1>4, <2>5 DEF TakeWrite, GoTo, LockTypeOK
    <3> QED
      BY <1>2, <1>4, <1>7, <3>1
  <2>6. CASE EndWaiting(t)
    <3>1. t \notin Reading /\ t \in Writing /\ place = "writing" /\ UNCHANGED readers
      BY <1>1, <1>4, <1>5, <1>6, <2>6 DEF EndWaiting, GoTo, At, LockTypeOK
    <3> QED
      BY <1>4, <1>7, <3>1
  <2>7. CASE ReleaseWrite(t)
    <3>1. t \notin Reading /\ t \in Writing /\ place = "idle" /\ readers' = 0
      BY <1>1, <1>4, <1>5, <1>6, <2>7 DEF ReleaseWrite, GoTo, At, LockTypeOK
    <3>2. Reading = {} /\ Writing = {t}
      BY <1>7, <3>1
    <3> QED
      BY <1>2, <1>4, <3>1, <3>2
  <2> QED
    BY <2>2, <2>3, <2>4, <2>5, <2>6, <2>7 DEF LockStep
<1> QED
  BY <1>8, <1>9, <1>10 DEF LockInv

\* Every step of the lock keeps its invariant.
LEMMA LockInvStep == LockInv /\ [LockNext]_lockVars => LockInv'
<1> SUFFICES ASSUME LockInv, [LockNext]_lockVars PROVE LockInv'
  OBVIOUS
<1>1. CASE LockNext
  BY <1>1, LockStepInv DEF LockNext
<1>2. CASE UNCHANGED lockVars
  BY <1>2 DEF lockVars, LockInv, LockTypeOK, Reading, Writing
<1> QED
  BY <1>1, <1>2

\* In every reachable state the counter of the lock is the number of the threads that read, or -1
\* while exactly one thread writes and nobody reads.
THEOREM LockInvariance == LockSpec => []LockInv
BY LockInvInit, LockInvStep, PTL DEF LockSpec

\* What a thread holds after it has stepped, and that the others hold what they held.
LEMMA HoldsChange ==
  ASSUME LockTypeOK, NEW t \in LockThread, NEW place \in LockPlace, GoTo(t, place)
  PROVE  LockHolds' = [LockHolds EXCEPT ![t] =
                         IF place = "reading" THEN "read"
                         ELSE IF place \in {"granted", "writing"} THEN "write" ELSE "nothing"]
BY Holders DEF LockHolds, Reading, Writing

\* A step of a thread gives it the lock, takes the lock from it or changes nobody's hold, as
\* SharedLock allows.
LEMMA LockStepShared ==
  ASSUME LockInv, NEW t \in LockThread, LockStep(t)
  PROVE  UNCHANGED LockHolds \/ Shared!SharedNext
<1>1. LockTypeOK /\ Reading \in SUBSET LockThread
  BY DEF LockInv, Reading
<1>2. Cardinality(Reading) = 0 => Reading = {}
  BY <1>1, ThreadCounting
<1>3. \/ Writing = {} /\ readers = Cardinality(Reading)
      \/ Reading = {} /\ readers = -1 /\ \E u \in LockThread : Writing = {u}
  BY DEF LockInv
<1>4. Cardinality(Reading) \in Nat
  BY <1>1, ThreadCounting
<1>5. CASE SwapReaders(t) /\ readers = currentReaders[t]
  <2>1. /\ GoTo(t, "reading") /\ LockHolds[t] = "nothing"
        /\ \A u \in LockThread : LockHolds[u] # "write"
    BY <1>1, <1>3, <1>5 DEF SwapReaders, At, LockInv, LockHolds, Reading, Writing
  <2>2. LockHolds' = [LockHolds EXCEPT ![t] = "read"]
    BY <1>1, <2>1, HoldsChange DEF LockPlace
  <2> QED
    BY <2>1, <2>2 DEF Shared!SharedNext, Shared!GrantRead
<1>6. CASE TakeWrite(t)
  <2>1. GoTo(t, "granted") /\ Reading = {} /\ Writing = {}
    BY <1>2, <1>3, <1>6 DEF TakeWrite
  <2>2. \A u \in LockThread : LockHolds[u] = "nothing"
    BY <2>1 DEF LockHolds
  <2>3. LockHolds' = [LockHolds EXCEPT ![t] = "write"]
    BY <1>1, <2>1, HoldsChange DEF LockPlace
  <2> QED
    BY <2>2, <2>3 DEF Shared!SharedNext, Shared!GrantWrite
<1>7. CASE ReleaseRead(t) \/ ReleaseWrite(t)
  <2>1. GoTo(t, "idle") /\ LockHolds[t] # "nothing"
    BY <1>7 DEF ReleaseRead, ReleaseWrite, At, LockHolds, Reading, Writing
  <2>2. LockHolds' = [LockHolds EXCEPT ![t] = "nothing"]
    BY <1>1, <2>1, HoldsChange DEF LockPlace
  <2> QED
    BY <2>1, <2>2 DEF Shared!SharedNext, Shared!GiveBack
<1>8. CASE \/ Call(t) \/ TestWaiting(t) \/ ReadReaders(t) \/ Announce(t) \/ EndWaiting(t)
           \/ (SwapReaders(t) /\ readers # currentReaders[t])
  <2>1. PICK place \in LockPlace :
          /\ GoTo(t, place) /\ place # "reading"
          /\ place \in {"granted", "writing"} <=> t \in Writing
          /\ t \notin Reading
    BY <1>8 DEF Call, TestWaiting, ReadReaders, SwapReaders, Announce, EndWaiting, At, LockPlace, Reading, Writing
  <2>2. LockHolds' = [LockHolds EXCEPT ![t] = LockHolds[t]]
    BY <1>1, <2>1, HoldsChange DEF LockHolds
  <2> QED
    BY <2>2 DEF LockHolds
<1> QED
  BY <1>5, <1>6, <1>7, <1>8 DEF LockStep

\* The lock implements SharedLock: readers never share it with a writer, nor do two writers,
\* whatever happens between their tests and the compare-and-exchange.
THEOREM LockIsShared == LockSpec => ImplementsSharedLock
<1>1. LockInit => Shared!SharedInit
  BY DEF LockInit, Shared!SharedInit, LockHolds, Reading, Writing
<1>2. LockInv /\ [LockNext]_lockVars => [UNCHANGED lockVars \/ Shared!SharedNext]_LockHolds
  BY LockStepShared DEF LockNext
<1> QED
  BY <1>1, <1>2, LockInvariance, PTL DEF LockSpec, ImplementsSharedLock

-----------------------------------------------------------------------------
(***************************************************************************)
(* The message queue                                                       *)
(***************************************************************************)

\* The ring of elements: the distance between head and tail, and an index that passes the end.
LEMMA RingIndex ==
  ASSUME NEW n \in Nat \ {0, 1}, NEW h \in 0 .. n - 1, NEW t \in 0 .. n - 1
  PROVE  /\ (h - t) % n = IF h >= t THEN h - t ELSE h - t + n
         /\ (h + 1) % n = IF h + 1 = n THEN 0 ELSE h + 1
         /\ \A k \in 1 .. n : (t + k - 1) % n = IF t + k - 1 < n THEN t + k - 1 ELSE t + k - 1 - n
<1>1. \A x \in Int : 0 <= x /\ x < n => x % n = x
  OBVIOUS
<1>2. \A x \in Int : n <= x /\ x < 2 * n => x % n = x - n
  OBVIOUS
<1>3. \A x \in Int : -n < x /\ x < 0 => x % n = x + n
  OBVIOUS
<1>4. (h - t) % n = IF h >= t THEN h - t ELSE h - t + n
  <2> h - t \in Int /\ -n < h - t /\ h - t < n
    OBVIOUS
  <2> QED
    BY <1>1, <1>3
<1>5. (h + 1) % n = IF h + 1 = n THEN 0 ELSE h + 1
  <2> h + 1 \in Int /\ h + 1 <= n /\ n <= n /\ n < 2 * n /\ 0 <= h + 1
    OBVIOUS
  <2> QED
    BY <1>1, <1>2
<1>6. ASSUME NEW k \in 1 .. n
      PROVE  (t + k - 1) % n = IF t + k - 1 < n THEN t + k - 1 ELSE t + k - 1 - n
  <2> t + k - 1 \in Int /\ 0 <= t + k - 1 /\ t + k - 1 < 2 * n
    OBVIOUS
  <2> QED
    BY <1>1, <1>2
<1> QED
  BY <1>4, <1>5, <1>6

\* The element at the head is behind those of the messages; the first one is at the tail.
LEMMA RingTypes ==
  ASSUME QueueTypeOK
  PROVE  /\ Count \in 0 .. QueueLength - 1
         /\ \A k \in 1 .. QueueLength : ElementOf(k) \in Index /\ Offset(k) \in Address
         /\ ElementOf(Count + 1) = elementHead /\ \A k \in 1 .. Count : ElementOf(k) # elementHead
         /\ ElementOf(1) = elementTail
         /\ Count = 0 <=> elementTail = elementHead
         /\ (elementHead + 1) % QueueLength # elementTail => Count < QueueLength - 1
<1>1. /\ QueueLength \in Nat \ {0, 1}
      /\ elementHead \in 0 .. QueueLength - 1 /\ elementTail \in 0 .. QueueLength - 1
      /\ elements \in [Index -> Address]
  BY QueueAssumption DEF QueueTypeOK, Index
<1>2. /\ Count = IF elementHead >= elementTail THEN elementHead - elementTail
                 ELSE elementHead - elementTail + QueueLength
      /\ (elementHead + 1) % QueueLength = IF elementHead + 1 = QueueLength THEN 0 ELSE elementHead + 1
      /\ \A k \in 1 .. QueueLength :
           ElementOf(k) = IF elementTail + k - 1 < QueueLength THEN elementTail + k - 1
                     ELSE elementTail + k - 1 - QueueLength
  BY <1>1, RingIndex DEF Count, ElementOf
<1>3. Count \in 0 .. QueueLength - 1
  BY <1>1, <1>2
<1>4. \A k \in 1 .. QueueLength : ElementOf(k) \in 0 .. QueueLength - 1
  BY <1>1, <1>2
<1>5. ElementOf(Count + 1) = elementHead
  BY <1>1, <1>2, <1>3
<1>6. \A k \in 1 .. Count : ElementOf(k) # elementHead
  BY <1>1, <1>2, <1>3
<1>7. /\ ElementOf(1) = elementTail
      /\ Count = 0 <=> elementTail = elementHead
      /\ (elementHead + 1) % QueueLength # elementTail => Count < QueueLength - 1
  BY <1>1, <1>2
<1> QED
  BY <1>1, <1>3, <1>4, <1>5, <1>6, <1>7 DEF Index, Offset

\* Storing adds an element behind the others.
LEMMA RingStore ==
  ASSUME QueueTypeOK, Count < QueueLength - 1,
         elementHead' = (elementHead + 1) % QueueLength, elementTail' = elementTail
  PROVE  Count' = Count + 1 /\ \A k : ElementOf(k)' = ElementOf(k)
<1>1. /\ QueueLength \in Nat \ {0, 1}
      /\ elementHead \in 0 .. QueueLength - 1 /\ elementTail \in 0 .. QueueLength - 1
  BY QueueAssumption DEF QueueTypeOK, Index
<1>2. /\ Count = IF elementHead >= elementTail THEN elementHead - elementTail
                 ELSE elementHead - elementTail + QueueLength
      /\ elementHead' = IF elementHead + 1 = QueueLength THEN 0 ELSE elementHead + 1
  BY <1>1, RingIndex DEF Count
<1>3. elementHead' \in 0 .. QueueLength - 1
  BY <1>1, <1>2
<1>4. Count' = IF elementHead' >= elementTail THEN elementHead' - elementTail
               ELSE elementHead' - elementTail + QueueLength
  BY <1>1, <1>3, RingIndex DEF Count
<1>5. Count' = Count + 1
  BY <1>1, <1>2, <1>3, <1>4
<1> QED
  BY <1>5 DEF ElementOf

\* Freeing the oldest element moves the others up by one.
LEMMA RingFree ==
  ASSUME QueueTypeOK, Count > 0,
         elementTail' = (elementTail + 1) % QueueLength, elementHead' = elementHead
  PROVE  /\ elementTail' \in Index
         /\ Count' = Count - 1
         /\ \A k \in 1 .. QueueLength - 1 : ElementOf(k)' = ElementOf(k + 1)
<1>1. /\ QueueLength \in Nat \ {0, 1}
      /\ elementHead \in 0 .. QueueLength - 1 /\ elementTail \in 0 .. QueueLength - 1
  BY QueueAssumption DEF QueueTypeOK, Index
<1>2. /\ Count = IF elementHead >= elementTail THEN elementHead - elementTail
                 ELSE elementHead - elementTail + QueueLength
      /\ \A k \in 1 .. QueueLength :
           ElementOf(k) = IF elementTail + k - 1 < QueueLength THEN elementTail + k - 1
                     ELSE elementTail + k - 1 - QueueLength
  BY <1>1, RingIndex DEF Count, ElementOf
<1>3. elementTail' = IF elementTail + 1 = QueueLength THEN 0 ELSE elementTail + 1
  BY <1>1, RingIndex
<1>4. elementTail' \in 0 .. QueueLength - 1
  BY <1>1, <1>3
<1>5. /\ Count' = IF elementHead >= elementTail' THEN elementHead - elementTail'
                  ELSE elementHead - elementTail' + QueueLength
      /\ \A k \in 1 .. QueueLength :
           ElementOf(k)' = IF elementTail' + k - 1 < QueueLength THEN elementTail' + k - 1
                      ELSE elementTail' + k - 1 - QueueLength
  BY <1>1, <1>4, RingIndex DEF Count, ElementOf
<1>6. Count' = Count - 1
  BY <1>1, <1>2, <1>3, <1>4, <1>5
<1>7. ASSUME NEW k \in 1 .. QueueLength - 1 PROVE ElementOf(k)' = ElementOf(k + 1)
  <2>1. k \in 1 .. QueueLength /\ k + 1 \in 1 .. QueueLength
    BY <1>1
  <2>2. /\ ElementOf(k + 1) = IF elementTail + k < QueueLength THEN elementTail + k
                         ELSE elementTail + k - QueueLength
        /\ ElementOf(k)' = IF elementTail' + k - 1 < QueueLength THEN elementTail' + k - 1
                      ELSE elementTail' + k - 1 - QueueLength
    BY <1>1, <1>2, <1>5, <2>1
  <2>3. CASE elementTail + 1 = QueueLength
    <3>1. elementTail' = 0
      BY <1>3, <2>3
    <3>2. ElementOf(k + 1) = elementTail + k - QueueLength /\ ElementOf(k)' = k - 1
      BY <1>1, <2>1, <2>2, <2>3, <3>1
    <3> QED
      BY <1>1, <2>1, <2>3, <3>2
  <2>4. CASE elementTail + 1 # QueueLength
    <3>1. elementTail' = elementTail + 1
      BY <1>3, <2>4
    <3> QED
      BY <1>1, <2>1, <2>2, <3>1
  <2> QED
    BY <2>3, <2>4
<1> QED
  BY <1>4, <1>6, <1>7 DEF Index

\* What holds while the head has not lapped the tail.
InOrder ==
  /\ QueueTypeOK
  /\ bufferHead <= BufferBytes - MaxMessageSize
  /\ LiveMessages
  /\ Disjoint
  /\ BetweenTailAndHead
  /\ TailPlace
  /\ RoomFound

\* Sizes and offsets are numbers, and every message ends within the buffer.
LEMMA LiveNumbers ==
  ASSUME InOrder
  PROVE  /\ BufferBytes \in Nat /\ MaxMessageSize \in Nat /\ 0 < MaxMessageSize
         /\ MaxMessageSize < BufferBytes
         /\ bufferHead \in 0 .. BufferBytes - MaxMessageSize /\ bufferTail \in 0 .. BufferBytes
         /\ Count \in Nat /\ Count <= QueueLength - 1
         /\ QueueLength \in Nat
         /\ Live \in SUBSET (1 .. Count)
         /\ \A k \in Live : /\ Offset(k) \in 0 .. BufferBytes - MaxMessageSize
                            /\ Size(k) \in 1 .. MaxMessageSize
<1>1. /\ BufferBytes \in Nat /\ MaxMessageSize \in Nat /\ 0 < MaxMessageSize
      /\ MaxMessageSize < BufferBytes /\ QueueLength \in Nat
      /\ MessageSize \in [Message -> 1 .. MaxMessageSize]
  BY QueueAssumption
<1>2. bufferHead \in 0 .. BufferBytes - MaxMessageSize /\ bufferTail \in 0 .. BufferBytes
  BY <1>1 DEF InOrder, QueueTypeOK, Address
<1>3. Count \in Nat /\ Count <= QueueLength - 1
  BY <1>1, RingTypes DEF InOrder
<1>4. Live \in SUBSET (1 .. Count)
  BY <1>3 DEF Live
<1>5. \A k \in Live : Offset(k) \in 0 .. BufferBytes - MaxMessageSize /\ Size(k) \in 1 .. MaxMessageSize
  BY <1>1 DEF InOrder, LiveMessages, Size
<1> QED
  BY <1>1, <1>2, <1>3, <1>4, <1>5

\* The messages stay what and where they are while buffer and elements stay the same.
LEMMA SameMessages ==
  ASSUME UNCHANGED <<buffer, elements, elementHead, elementTail>>
  PROVE  /\ Count' = Count
         /\ \A k : Offset(k)' = Offset(k) /\ Msg(k)' = Msg(k) /\ Size(k)' = Size(k)
         /\ \A k : Holds(Offset(k), Msg(k))' <=> Holds(Offset(k), Msg(k))
<1>1. Count' = Count /\ \A k : Offset(k)' = Offset(k)
  BY DEF Count, Offset, ElementOf
<1>2. \A k : Msg(k)' = Msg(k)
  BY <1>1 DEF Msg, MessageAt
<1>3. \A k : Size(k)' = Size(k)
  BY <1>2 DEF Size
<1>4. \A k : Holds(Offset(k), Msg(k))' <=> Holds(Offset(k), Msg(k))
  BY <1>1, <1>2 DEF Holds
<1> QED
  BY <1>1, <1>2, <1>3, <1>4

\* An empty queue is in order.
LEMMA QueueInvInit == QueueInit => QueueInv
<1> SUFFICES ASSUME QueueInit PROVE QueueTypeOK /\ Ends /\ QueueInOrder
  BY DEF QueueInv
<1>1. QueueTypeOK
  <2>1. 0 \in Address /\ 0 \in Index /\ 0 \in 0 .. BufferBytes
    BY QueueAssumption DEF Address, Index
  <2>2. lapped \in BOOLEAN
    BY DEF QueueInit
  <2>3. /\ buffer \in [Address -> Byte \cup {NoMessage}] /\ elements \in [Index -> Address]
        /\ consumerPc \in {"idle", "copied", "freed", "wrapped"}
    BY <2>1 DEF QueueInit
  <2> QED
    BY <2>1, <2>2, <2>3 DEF QueueInit, QueueTypeOK
<1>2. Count = 0
  BY <1>1, RingTypes DEF QueueInit
<1>3. Live = {}
  BY <1>2 DEF Live, QueueInit
<1>4. LiveMessages /\ Disjoint /\ BetweenTailAndHead
  BY <1>3 DEF LiveMessages, Disjoint, BetweenTailAndHead
<1>5. TailPlace /\ RoomFound
  BY <1>2 DEF TailPlace, RoomFound, QueueInit, Start
<1>6. Ends
  BY QueueAssumption DEF QueueInit, Ends
<1> QED
  BY <1>1, <1>4, <1>5, <1>6 DEF QueueInOrder

\* Room for a message is room up to the end of the buffer or, once the head is behind the tail,
\* up to the tail.
LEMMA FindRoomInv ==
  ASSUME InOrder, NEW m \in Message, FindRoom(m)
  PROVE  InOrder'
<1>1. /\ producing' = m
      /\ UNCHANGED <<buffer, elements, bufferHead, bufferTail, elementHead, elementTail,
                     consumerPc, copied, lapped>>
  BY DEF FindRoom
<1>2. QueueTypeOK'
  BY <1>1 DEF InOrder, QueueTypeOK
<1>3. Count' = Count /\ Live' = Live /\ \A k : Start(k)' = Start(k)
  BY <1>1, SameMessages DEF Live, Start
<1>4. LiveMessages' /\ Disjoint' /\ BetweenTailAndHead' /\ TailPlace'
  BY <1>1, <1>3, SameMessages
  DEF InOrder, LiveMessages, Disjoint, BetweenTailAndHead, TailPlace, Wrap
<1>5. Count < QueueLength - 1
  BY RingTypes DEF InOrder, FindRoom, HasRoom
<1>6. bufferHead < bufferTail => bufferHead + MessageSize[m] < bufferTail
  BY LiveNumbers DEF FindRoom, HasRoom
<1>7. RoomFound'
  BY <1>1, <1>3, <1>5, <1>6 DEF RoomFound
<1> QED
  BY <1>1, <1>2, <1>4, <1>7 DEF InOrder

\* The consumer copies the first message.
LEMMA CopyInv ==
  ASSUME InOrder, Copy
  PROVE  InOrder' /\ 1 \in Live /\ copied' = Msg(1)
<1>1. /\ consumerPc = "idle" /\ consumerPc' = "copied"
      /\ UNCHANGED <<buffer, elements, bufferHead, bufferTail, elementHead, elementTail, producing,
                     lapped>>
  BY DEF Copy
<1>2. Count > 0
  BY LiveNumbers, RingTypes DEF Copy, InOrder
<1>3. 1 \in Live /\ copied' = Msg(1)
  BY <1>1, <1>2, LiveNumbers, RingTypes DEF Copy, InOrder, Live, Msg, Offset
<1>4. QueueTypeOK'
  BY <1>1, <1>3 DEF InOrder, QueueTypeOK, LiveMessages
<1>5. Count' = Count /\ Live' = Live /\ \A k : Start(k)' = Start(k)
  BY <1>1, SameMessages DEF Live, Start
<1>6. LiveMessages' /\ Disjoint' /\ BetweenTailAndHead' /\ RoomFound'
  BY <1>1, <1>5, SameMessages
  DEF InOrder, LiveMessages, Disjoint, BetweenTailAndHead, RoomFound, Wrap
<1>7. TailPlace'
  BY <1>1, <1>2, <1>3, <1>5, SameMessages DEF InOrder, TailPlace
<1> QED
  BY <1>1, <1>3, <1>4, <1>6, <1>7 DEF InOrder

\* The consumer gives the bytes of the first message back.
LEMMA FreeBytesInv ==
  ASSUME InOrder, FreeBytes
  PROVE  InOrder'
<1>1. /\ consumerPc = "copied" /\ consumerPc' = "freed"
      /\ bufferTail' = bufferTail + MessageSize[copied]
      /\ UNCHANGED <<buffer, elements, bufferHead, elementHead, elementTail, producing, copied,
                     lapped>>
  BY DEF FreeBytes
<1>2. /\ Count > 0 /\ 1 \in Live /\ bufferTail = Offset(1) /\ bufferTail' = Offset(1) + Size(1)
      /\ Live = 1 .. Count /\ Live' = 2 .. Count
      /\ Live' \in SUBSET Live
  <2>1. Count > 0 /\ Live = 1 .. Count
    BY <1>1 DEF InOrder, TailPlace, Live
  <2>2. Live' = 2 .. Count
    BY <1>1, SameMessages DEF Live
  <2> QED
    BY <1>1, <2>1, <2>2, LiveNumbers DEF InOrder, TailPlace, Start, Size
<1>3. QueueTypeOK'
  BY <1>1, <1>2, LiveNumbers DEF InOrder, QueueTypeOK
<1>4. Count' = Count /\ \A k : Start(k)' = Start(k)
  BY <1>1, SameMessages DEF Start
<1>5. LiveMessages' /\ Disjoint'
  BY <1>1, <1>2, <1>4, SameMessages DEF InOrder, LiveMessages, Disjoint, Wrap
<1>6. BetweenTailAndHead'
  <2> SUFFICES ASSUME NEW k \in Live'
               PROVE  IF bufferHead >= bufferTail'
                      THEN bufferTail' <= Offset(k) /\ Offset(k) + Size(k) <= bufferHead
                      ELSE bufferTail' <= Offset(k) \/ Offset(k) + Size(k) <= bufferHead
    BY <1>1, <1>2, SameMessages DEF BetweenTailAndHead
  <2>1. k \in Live /\ 1 < k
    BY <1>2, LiveNumbers
  <2>2. Offset(1) + Size(1) <= Offset(k) \/ Offset(k) + Size(k) <= Offset(1)
    BY <1>2, <2>1 DEF InOrder, Disjoint
  <2>3. IF bufferHead >= bufferTail
        THEN /\ bufferTail <= Offset(k) /\ Offset(k) + Size(k) <= bufferHead
             /\ Offset(1) + Size(1) <= bufferHead
        ELSE bufferTail <= Offset(k) \/ Offset(k) + Size(k) <= bufferHead
    BY <1>2, <2>1 DEF InOrder, BetweenTailAndHead
  <2>4. /\ Offset(k) \in Nat /\ Size(k) \in Nat /\ 0 < Size(k)
        /\ Offset(1) \in Nat /\ Size(1) \in Nat /\ 0 < Size(1)
        /\ bufferHead \in Nat
    BY <1>2, <2>1, LiveNumbers
  <2> QED
    BY <1>2, <2>2, <2>3, <2>4
<1>7. TailPlace'
  BY <1>1, <1>2, <1>4, SameMessages DEF InOrder, TailPlace, LiveMessages, Wrap
<1>8. RoomFound'
  <2> SUFFICES ASSUME producing # NoMessage, bufferHead < bufferTail'
               PROVE  bufferHead + MessageSize[producing] < bufferTail'
    BY <1>1, <1>4 DEF InOrder, RoomFound
  <2>1. MessageSize[producing] \in Nat
    BY QueueAssumption DEF InOrder, QueueTypeOK
  <2>2. IF bufferHead >= bufferTail THEN Offset(1) + Size(1) <= bufferHead
        ELSE bufferHead + MessageSize[producing] < bufferTail
    BY <1>2, LiveNumbers DEF InOrder, BetweenTailAndHead, RoomFound
  <2>3. /\ Offset(1) \in Nat /\ Size(1) \in Nat /\ 0 < Size(1) /\ bufferHead \in Nat
        /\ MaxMessageSize \in Nat
    BY <1>2, LiveNumbers
  <2> QED
    BY <1>2, <2>1, <2>2, <2>3
<1> QED
  BY <1>1, <1>3, <1>5, <1>6, <1>7, <1>8 DEF InOrder

\* The tail returns to the start of the buffer where the head did: no message lies behind it.
LEMMA WrapTailInv ==
  ASSUME InOrder, WrapTail
  PROVE  InOrder'
<1>1. /\ consumerPc = "freed" /\ consumerPc' = "wrapped"
      /\ bufferTail' = Wrap(bufferTail)
      /\ UNCHANGED <<buffer, elements, bufferHead, elementHead, elementTail, producing, copied,
                     lapped>>
  BY DEF WrapTail
<1>2. Count' = Count /\ Live' = Live /\ \A k : Start(k)' = Start(k)
  BY <1>1, SameMessages DEF Start, Live
<1>3. \/ bufferTail' = bufferTail
      \/ bufferTail' = 0 /\ bufferTail > BufferBytes - MaxMessageSize
  BY <1>1 DEF Wrap
<1>4. QueueTypeOK'
  BY <1>1, <1>3, LiveNumbers DEF InOrder, QueueTypeOK
<1>5. LiveMessages' /\ Disjoint'
  BY <1>1, <1>2, SameMessages DEF InOrder, LiveMessages, Disjoint, Wrap
<1>6. BetweenTailAndHead'
  <2> SUFFICES ASSUME NEW k \in Live
               PROVE  IF bufferHead >= bufferTail'
                      THEN bufferTail' <= Offset(k) /\ Offset(k) + Size(k) <= bufferHead
                      ELSE bufferTail' <= Offset(k) \/ Offset(k) + Size(k) <= bufferHead
    BY <1>1, <1>2, SameMessages DEF BetweenTailAndHead
  <2>1. IF bufferHead >= bufferTail
        THEN bufferTail <= Offset(k) /\ Offset(k) + Size(k) <= bufferHead
        ELSE bufferTail <= Offset(k) \/ Offset(k) + Size(k) <= bufferHead
    BY DEF InOrder, BetweenTailAndHead
  <2> QED
    BY <1>3, <2>1, LiveNumbers
<1>7. TailPlace'
  BY <1>1, <1>2 DEF InOrder, TailPlace
<1>8. RoomFound'
  <2>1. bufferHead < bufferTail' => bufferTail' = bufferTail
    BY <1>3, LiveNumbers
  <2> QED
    BY <1>1, <1>2, <2>1 DEF InOrder, RoomFound
<1> QED
  BY <1>1, <1>4, <1>5, <1>6, <1>7, <1>8 DEF InOrder

\* The others move up when the element of the first message is freed.
LEMMA FreeElementMoves ==
  ASSUME InOrder, FreeElement
  PROVE  /\ Count > 0 /\ Count' = Count - 1
         /\ \A k \in 1 .. Count' : /\ k + 1 \in Live
                                   /\ Offset(k)' = Offset(k + 1) /\ Msg(k)' = Msg(k + 1)
                                   /\ Size(k)' = Size(k + 1)
         /\ \A k \in 1 .. Count : Start(k)' = Start(k + 1)
<1>1. /\ consumerPc = "wrapped" /\ consumerPc' = "idle"
      /\ elementTail' = (elementTail + 1) % QueueLength
      /\ UNCHANGED <<buffer, elements, bufferHead, bufferTail, elementHead, producing, copied,
                     lapped>>
  BY DEF FreeElement
<1>2. Count > 0
  BY <1>1 DEF InOrder, TailPlace
<1>3. /\ Count' = Count - 1
      /\ \A k \in 1 .. QueueLength - 1 : ElementOf(k)' = ElementOf(k + 1)
  BY <1>1, <1>2, RingFree DEF InOrder
<1>4. Live = 2 .. Count
  BY <1>1 DEF Live
<1>5. \A k \in 1 .. Count : Offset(k)' = Offset(k + 1) /\ Msg(k)' = Msg(k + 1)
  <2> SUFFICES ASSUME NEW k \in 1 .. Count PROVE Offset(k)' = Offset(k + 1) /\ Msg(k)' = Msg(k + 1)
    OBVIOUS
  <2>1. k \in 1 .. QueueLength - 1
    BY LiveNumbers
  <2>2. Offset(k)' = Offset(k + 1)
    BY <1>1, <1>3, <2>1 DEF Offset
  <2> QED
    BY <1>1, <2>2 DEF Msg, MessageAt
<1>6. \A k \in 1 .. Count' : k + 1 \in Live /\ k \in 1 .. Count
  BY <1>3, <1>4, LiveNumbers
<1>7. \A k \in 1 .. Count : Size(k)' = Size(k + 1)
  BY <1>5 DEF Size
<1>8. \A k \in 1 .. Count : Start(k)' = Start(k + 1)
  <2> SUFFICES ASSUME NEW k \in 1 .. Count PROVE Start(k)' = Start(k + 1)
    OBVIOUS
  <2>1. k <= Count' <=> k + 1 <= Count
    BY <1>3, LiveNumbers
  <2> QED
    BY <1>1, <1>5, <2>1 DEF Start
<1> QED
  BY <1>2, <1>3, <1>5, <1>6, <1>7, <1>8

\* So the queue stays in order when an element is freed,
LEMMA FreeElementInv ==
  ASSUME InOrder, FreeElement
  PROVE  InOrder'
<1>1. /\ consumerPc = "wrapped" /\ consumerPc' = "idle"
      /\ elementTail' = (elementTail + 1) % QueueLength
      /\ UNCHANGED <<buffer, elements, bufferHead, bufferTail, elementHead, producing, copied,
                     lapped>>
  BY DEF FreeElement
<1>2. /\ Count > 0 /\ Count' = Count - 1
      /\ \A k \in 1 .. Count' : /\ k + 1 \in Live
                                /\ Offset(k)' = Offset(k + 1) /\ Msg(k)' = Msg(k + 1)
                                /\ Size(k)' = Size(k + 1)
      /\ \A k \in 1 .. Count : Start(k)' = Start(k + 1)
  BY FreeElementMoves
<1>3. Live' = 1 .. Count' /\ \A k \in Live' : k \in 1 .. Count /\ k + 1 \in Live /\ k \in Nat
  <2>1. Live' = 1 .. Count'
    BY <1>1 DEF Live
  <2> QED
    BY <1>2, <2>1, LiveNumbers
<1>4. QueueTypeOK'
  BY <1>1, <1>2, RingFree DEF InOrder, QueueTypeOK
<1>5. LiveMessages'
  <2> SUFFICES ASSUME NEW k \in Live'
               PROVE  /\ Msg(k)' \in Message
                      /\ Offset(k)' \in 0 .. BufferBytes - MaxMessageSize
                      /\ Holds(Offset(k), Msg(k))'
                      /\ Start(k + 1)' = Wrap(Offset(k)' + Size(k)')
    BY DEF LiveMessages, Wrap
  <2>1. /\ k + 1 \in Live /\ k \in 1 .. Count /\ k \in Nat
        /\ Offset(k)' = Offset(k + 1) /\ Msg(k)' = Msg(k + 1) /\ Size(k)' = Size(k + 1)
    BY <1>2, <1>3
  <2>2. /\ Msg(k + 1) \in Message
        /\ Offset(k + 1) \in 0 .. BufferBytes - MaxMessageSize
        /\ Holds(Offset(k + 1), Msg(k + 1))
        /\ Start((k + 1) + 1) = Wrap(Offset(k + 1) + Size(k + 1))
    BY <2>1 DEF InOrder, LiveMessages
  <2>3. Start(k + 1)' = Start((k + 1) + 1)
    <3>1. k + 1 \in 1 .. Count
      BY <2>1, LiveNumbers
    <3> QED
      BY <1>2, <3>1
  <2>4. Holds(Offset(k), Msg(k))'
    BY <1>1, <2>1, <2>2 DEF Holds
  <2> QED
    BY <2>1, <2>2, <2>3, <2>4
<1>6. Disjoint'
  <2> SUFFICES ASSUME NEW j \in Live', NEW k \in Live', j < k
               PROVE  Offset(j)' + Size(j)' <= Offset(k)' \/ Offset(k)' + Size(k)' <= Offset(j)'
    BY DEF Disjoint
  <2>1. j + 1 \in Live /\ k + 1 \in Live /\ j + 1 < k + 1
    BY <1>3
  <2>2. \/ Offset(j + 1) + Size(j + 1) <= Offset(k + 1)
        \/ Offset(k + 1) + Size(k + 1) <= Offset(j + 1)
    BY <2>1 DEF InOrder, Disjoint
  <2> QED
    BY <1>2, <1>3, <2>2
<1>7. BetweenTailAndHead'
  BY <1>1, <1>2, <1>3 DEF InOrder, BetweenTailAndHead
<1>8. TailPlace'
  BY <1>1, <1>2, LiveNumbers DEF InOrder, TailPlace
<1>9. RoomFound'
  BY <1>1, <1>2, LiveNumbers DEF InOrder, RoomFound
<1> QED
  BY <1>1, <1>4, <1>5, <1>6, <1>7, <1>8, <1>9 DEF InOrder

\* A message of which all bytes are there is read as it was written.
LEMMA MessageRead ==
  ASSUME NEW m \in Message, NEW a \in Nat, Holds(a, m)'
  PROVE  MessageAt(a)' = m
<1>1. 1 \in 1 .. MessageSize[m] /\ a + 1 - 1 = a /\ MaxMessageSize \in Nat
  BY QueueAssumption
<1>2. buffer'[a] = [message |-> m, number |-> 1]
  <2>1. buffer'[a + 1 - 1] = [message |-> m, number |-> 1]
    BY <1>1 DEF Holds
  <2> QED
    BY <1>1, <2>1
<1>3. buffer'[a] # NoMessage
  <2>1. [message |-> m, number |-> 1] \in [message : Message, number : 1 .. MaxMessageSize]
    BY QueueAssumption
  <2> QED
    BY <1>2, <2>1, QueueAssumption
<1>4. buffer'[a].message = m /\ buffer'[a].number = 1
  BY <1>2
<1>5. \A i \in 1 .. MessageSize[m] : buffer'[a + i - 1] = [message |-> m, number |-> i]
  BY DEF Holds
<1> QED
  BY <1>3, <1>4, <1>5 DEF MessageAt

\* The message that is stored lies where no byte of another one is.
LEMMA StoreIsFresh ==
  ASSUME InOrder, Store, NEW k \in Live
  PROVE  Offset(k) + Size(k) <= bufferHead \/ bufferHead + MessageSize[producing] <= Offset(k)
<1>1. producing # NoMessage /\ MessageSize[producing] \in Nat
  BY QueueAssumption DEF Store, InOrder, QueueTypeOK
<1>2. IF bufferHead >= bufferTail
      THEN Offset(k) + Size(k) <= bufferHead
      ELSE bufferTail <= Offset(k) \/ Offset(k) + Size(k) <= bufferHead
  BY DEF InOrder, BetweenTailAndHead
<1>3. bufferHead < bufferTail => bufferHead + MessageSize[producing] < bufferTail
  BY <1>1 DEF InOrder, RoomFound
<1> QED
  BY <1>1, <1>2, <1>3, LiveNumbers

\* Storing adds the message behind the others, and leaves them alone.
LEMMA StoreAdds ==
  ASSUME InOrder, Store,
         NEW m, m = producing, NEW head, head = bufferHead, NEW n, n = Count
  PROVE  /\ m \in Message /\ n < QueueLength - 1
         /\ Count' = n + 1 /\ Live' = Live \cup {n + 1} /\ n + 1 \notin Live
         /\ Offset(n + 1)' = head /\ Msg(n + 1)' = m /\ Holds(head, m)'
         /\ \A k \in Live : /\ Offset(k)' = Offset(k) /\ Msg(k)' = Msg(k) /\ Size(k)' = Size(k)
                            /\ Holds(Offset(k), Msg(k))'
         /\ \A k \in 1 .. n + 1 : Start(k)' = Start(k)
         /\ Start(n + 2)' = bufferHead'
<1>1. /\ m # NoMessage
      /\ buffer' = [a \in Address |->
           IF a \in head .. head + MessageSize[m] - 1
           THEN [message |-> m, number |-> a - head + 1] ELSE buffer[a]]
      /\ elements' = [elements EXCEPT ![elementHead] = head]
      /\ elementHead' = (elementHead + 1) % QueueLength
      /\ UNCHANGED <<bufferTail, elementTail, consumerPc, copied>>
  BY DEF Store
<1>2. /\ m \in Message /\ MessageSize[m] \in 1 .. MaxMessageSize
      /\ BufferBytes \in Nat /\ MaxMessageSize \in Nat
      /\ head \in 0 .. BufferBytes - MaxMessageSize
      /\ n \in Nat
  BY <1>1, LiveNumbers, QueueAssumption DEF InOrder, QueueTypeOK
<1>3. n < QueueLength - 1
  BY <1>1 DEF InOrder, RoomFound
<1>4. Count' = n + 1 /\ \A k : ElementOf(k)' = ElementOf(k)
  BY <1>1, <1>3, RingStore DEF InOrder
<1>5. Live' = Live \cup {n + 1} /\ n + 1 \notin Live
  <2>1. CASE consumerPc \in {"idle", "copied"}
    BY <1>1, <1>2, <1>4, <2>1 DEF Live
  <2>2. CASE consumerPc \notin {"idle", "copied"}
    <3>1. 2 <= n + 1
      BY <1>2, <2>2 DEF InOrder, TailPlace
    <3>2. Live' = 2 .. n + 1 /\ Live = 2 .. n
      BY <1>1, <1>4, <2>2 DEF Live
    <3> QED
      BY <1>2, <3>1, <3>2
  <2> QED
    BY <2>1, <2>2
<1>6. /\ elements \in [Index -> Address] /\ elementHead \in Index
      /\ ElementOf(n + 1) = elementHead
      /\ \A k \in 1 .. n : ElementOf(k) # elementHead /\ ElementOf(k) \in Index
  BY <1>2, <1>3, RingTypes, LiveNumbers DEF InOrder, QueueTypeOK
<1>7. Offset(n + 1)' = head
  BY <1>1, <1>4, <1>6 DEF Offset
<1>8. \A k \in 1 .. n : Offset(k)' = Offset(k)
  BY <1>1, <1>4, <1>6 DEF Offset
<1>9. Holds(head, m)'
  <2> SUFFICES ASSUME NEW i \in 1 .. MessageSize[m]
               PROVE  buffer'[head + i - 1] = [message |-> m, number |-> i]
    BY DEF Holds
  <2>1. /\ head + i - 1 \in Address /\ head + i - 1 \in head .. head + MessageSize[m] - 1
        /\ (head + i - 1) - head + 1 = i
    BY <1>2 DEF Address
  <2> QED
    BY <1>1, <2>1
<1>10. ASSUME NEW k \in Live
       PROVE  /\ Offset(k)' = Offset(k) /\ Msg(k)' = Msg(k) /\ Size(k)' = Size(k)
              /\ Holds(Offset(k), Msg(k))'
  <2> DEFINE a == Offset(k)  p == Msg(k)
  <2>1. /\ k \in 1 .. n /\ a \in 0 .. BufferBytes - MaxMessageSize
        /\ p \in Message /\ MessageSize[p] \in 1 .. MaxMessageSize
        /\ Holds(a, p)
        /\ Offset(k)' = a
    BY <1>2, <1>8, LiveNumbers DEF InOrder, LiveMessages, Size
  <2>2. a + MessageSize[p] <= head \/ head + MessageSize[m] <= a
    BY StoreIsFresh DEF Size
  <2>3. ASSUME NEW b, b = a, NEW q, q = p
        PROVE  Holds(b, q)'
    <3> SUFFICES ASSUME NEW i \in 1 .. MessageSize[q]
                 PROVE  buffer'[b + i - 1] = [message |-> q, number |-> i]
      BY DEF Holds
    <3>1. buffer[b + i - 1] = [message |-> q, number |-> i]
      BY <2>1, <2>3 DEF Holds
    <3>2. b + i - 1 \in Address /\ b + i - 1 \notin head .. head + MessageSize[m] - 1
      <4> HIDE DEF a, p
      <4> QED
        BY <1>2, <2>1, <2>2, <2>3 DEF Address
    <3> QED
      BY <1>1, <3>1, <3>2
  <2>4. ASSUME NEW b, b = a, NEW q, q = p
        PROVE  MessageAt(b)' = q /\ Holds(b, q)'
    BY <1>2, <2>1, <2>3, <2>4, MessageRead
  <2>5. Offset(k)' = Offset(k) /\ Msg(k)' = Msg(k)
    BY <2>1, <2>4 DEF Msg
  <2> QED
    BY <2>4, <2>5 DEF Size, Holds
<1>11. Msg(n + 1)' = m
  BY <1>2, <1>7, <1>9, MessageRead DEF Msg
<1>12. \A k \in 1 .. n + 1 : Start(k)' = Start(k)
  BY <1>2, <1>4, <1>7, <1>8 DEF Start
<1>13. Start(n + 2)' = bufferHead'
  BY <1>2, <1>4 DEF Start
<1> QED
  BY <1>2, <1>3, <1>4, <1>5, <1>7, <1>9, <1>10, <1>11, <1>12, <1>13

\* and when a message is stored, unless the head comes round to a tail at the start.
LEMMA StoreInv ==
  ASSUME InOrder, Store, ~lapped'
  PROVE  InOrder'
<1> DEFINE m == producing  head == bufferHead  n == Count
<1>1. /\ m # NoMessage /\ producing' = NoMessage
      /\ bufferHead' = Wrap(head + MessageSize[m])
      /\ elementHead' = (elementHead + 1) % QueueLength
      /\ UNCHANGED <<bufferTail, elementTail, consumerPc, copied>>
  BY DEF Store
<1>2. /\ m \in Message /\ n < QueueLength - 1
      /\ Count' = n + 1 /\ Live' = Live \cup {n + 1} /\ n + 1 \notin Live
      /\ \A k \in Live : /\ Offset(k)' = Offset(k) /\ Msg(k)' = Msg(k) /\ Size(k)' = Size(k)
                         /\ Holds(Offset(k), Msg(k))'
      /\ \A k \in 1 .. n + 1 : Start(k)' = Start(k)
  BY StoreAdds
<1>3. ASSUME NEW last, last = n + 1
      PROVE  /\ Offset(last)' = head /\ Msg(last)' = m /\ Holds(Offset(last), Msg(last))'
             /\ Size(last)' = MessageSize[m]
             /\ Start(last + 1)' = bufferHead'
  <2>1. ASSUME NEW q, q = m, NEW b, b = head
        PROVE  Offset(last)' = b /\ Msg(last)' = q /\ Holds(b, q)'
    BY <1>3, <2>1, StoreAdds
  <2>2. ASSUME NEW c, c = n PROVE Start(c + 2)' = bufferHead'
    BY <2>2, StoreAdds
  <2>3. last + 1 = n + 2
    BY <1>3, LiveNumbers
  <2> QED
    BY <1>3, <2>1, <2>2, <2>3 DEF Size, Holds
<1>4. /\ BufferBytes \in Nat /\ MaxMessageSize \in Nat /\ 0 < MaxMessageSize
      /\ MaxMessageSize < BufferBytes
      /\ head \in 0 .. BufferBytes - MaxMessageSize /\ bufferTail \in 0 .. BufferBytes
      /\ MessageSize[m] \in 1 .. MaxMessageSize
      /\ n \in Nat
  BY <1>2, LiveNumbers, QueueAssumption
<1>5. /\ head < bufferTail => head + MessageSize[m] < bufferTail
      /\ bufferHead' = 0 => Wrap(bufferTail) # 0
  BY <1>1 DEF InOrder, RoomFound, Store
<1>6. \/ bufferHead' = head + MessageSize[m] /\ bufferHead' <= BufferBytes - MaxMessageSize
      \/ bufferHead' = 0 /\ head >= bufferTail /\ bufferTail > 0
  BY <1>1, <1>4, <1>5 DEF Wrap
<1>7. bufferHead' \in 0 .. BufferBytes - MaxMessageSize
  BY <1>4, <1>6
<1>8. QueueTypeOK'
  <2>1. buffer' \in [Address -> Byte \cup {NoMessage}]
    <3> SUFFICES ASSUME NEW a \in Address, a \in head .. head + MessageSize[m] - 1
                 PROVE  [message |-> m, number |-> a - head + 1] \in Byte
      BY DEF Store, InOrder, QueueTypeOK
    <3>1. a - head + 1 \in 1 .. MaxMessageSize
      BY <1>4 DEF Address
    <3> QED
      BY <1>2, <3>1 DEF Byte
  <2>2. elements' \in [Index -> Address] /\ elementHead' \in Index
    <3>1. elementHead' \in Index
      BY <1>1, RingIndex, QueueAssumption DEF InOrder, QueueTypeOK, Index
    <3> QED
      BY <3>1 DEF Store, InOrder, QueueTypeOK
  <2>3. bufferHead' \in Address
    BY <1>4, <1>7 DEF Address
  <2> QED
    BY <1>1, <2>1, <2>2, <2>3 DEF InOrder, QueueTypeOK, Store
<1>9. LiveMessages'
  <2> SUFFICES ASSUME NEW k \in Live'
               PROVE  /\ Msg(k)' \in Message
                      /\ Offset(k)' \in 0 .. BufferBytes - MaxMessageSize
                      /\ Holds(Offset(k), Msg(k))'
                      /\ Start(k + 1)' = Wrap(Offset(k)' + Size(k)')
    BY DEF LiveMessages, Wrap
  <2>1. CASE k \in Live
    <3>1. k + 1 \in 1 .. n + 1
      BY <2>1, LiveNumbers
    <3>2. Start(k + 1)' = Start(k + 1)
      BY <1>2, <3>1
    <3> QED
      BY <1>2, <2>1, <3>2 DEF InOrder, LiveMessages
  <2>2. CASE k = n + 1
    BY <1>1, <1>2, <1>3, <1>4, <2>2
  <2> QED
    BY <1>2, <2>1, <2>2
<1>10. Disjoint'
  <2> SUFFICES ASSUME NEW j \in Live', NEW k \in Live', j < k
               PROVE  Offset(j)' + Size(j)' <= Offset(k)' \/ Offset(k)' + Size(k)' <= Offset(j)'
    BY DEF Disjoint
  <2>1. j \in Live
    BY <1>2, LiveNumbers
  <2>2. CASE k \in Live
    BY <1>2, <2>1, <2>2 DEF InOrder, Disjoint
  <2>3. CASE k = n + 1
    BY <1>2, <1>3, <2>1, <2>3, StoreIsFresh
  <2> QED
    BY <1>2, <2>2, <2>3
<1>11. BetweenTailAndHead'
  <2> SUFFICES ASSUME NEW k \in Live'
               PROVE  IF bufferHead' >= bufferTail
                      THEN bufferTail <= Offset(k)' /\ Offset(k)' + Size(k)' <= bufferHead'
                      ELSE bufferTail <= Offset(k)' \/ Offset(k)' + Size(k)' <= bufferHead'
    BY <1>1 DEF BetweenTailAndHead
  <2>1. CASE k \in Live
    <3>1. /\ Offset(k)' = Offset(k) /\ Size(k)' = Size(k)
          /\ Offset(k) \in Nat /\ Size(k) \in Nat
          /\ IF head >= bufferTail
             THEN bufferTail <= Offset(k) /\ Offset(k) + Size(k) <= head
             ELSE bufferTail <= Offset(k) \/ Offset(k) + Size(k) <= head
      BY <1>2, <2>1, LiveNumbers DEF InOrder, BetweenTailAndHead
    <3> QED
      BY <1>4, <1>5, <1>6, <3>1
  <2>2. CASE k = n + 1
    <3>1. Offset(k)' = head /\ Size(k)' = MessageSize[m]
      BY <1>3, <2>2
    <3> QED
      BY <1>4, <1>5, <1>6, <3>1
  <2> QED
    BY <1>2, <2>1, <2>2
<1>12. TailPlace'
  <2>1. Start(1)' = Start(1)
    BY <1>2, <1>4
  <2>2. n > 0 => Start(2)' = Start(2)
    BY <1>2, <1>4
  <2>3. consumerPc = "copied" => Msg(1)' = Msg(1)
    <3>1. consumerPc = "copied" => 1 \in Live
      BY <1>4 DEF InOrder, TailPlace, Live
    <3> QED
      BY <1>2, <3>1
  <2>4. Wrap(bufferTail)' = Wrap(bufferTail)
    BY <1>1 DEF Wrap
  <2> QED
    BY <1>1, <1>2, <1>4, <2>1, <2>2, <2>3, <2>4 DEF InOrder, TailPlace
<1>13. RoomFound'
  BY <1>1 DEF RoomFound
<1> QED
  BY <1>4, <1>7, <1>8, <1>9, <1>10, <1>11, <1>12, <1>13 DEF InOrder

\* Whatever is overwritten, head and tail stay within the buffer, and once the head has lapped the
\* tail it has.
LEMMA QueueTypes ==
  ASSUME QueueTypeOK, Ends, [QueueNext]_queueVars
  PROVE  QueueTypeOK' /\ Ends' /\ (lapped => lapped')
<1> DEFINE last == BufferBytes - MaxMessageSize
<1>1. /\ BufferBytes \in Nat /\ MaxMessageSize \in Nat /\ 0 < MaxMessageSize
      /\ MaxMessageSize < BufferBytes
      /\ MessageSize \in [Message -> 1 .. MaxMessageSize]
      /\ last \in Nat
      /\ bufferHead \in 0 .. last /\ bufferTail \in 0 .. BufferBytes
  BY QueueAssumption DEF QueueTypeOK, Ends, Address
<1>2. ASSUME NEW m \in Message, FindRoom(m)
      PROVE  QueueTypeOK' /\ Ends' /\ (lapped => lapped')
  <2>1. QueueTypeOK' /\ Ends'
    BY <1>2 DEF FindRoom, QueueTypeOK, Ends
  <2> QED
    BY <1>2, <2>1 DEF FindRoom
<1>3. CASE Store
  <2>1. producing \in Message /\ MessageSize[producing] \in 1 .. MaxMessageSize
    BY <1>1, <1>3 DEF Store, QueueTypeOK
  <2>2. bufferHead' \in 0 .. last
    BY <1>1, <1>3, <2>1 DEF Store, Wrap
  <2>3. buffer' \in [Address -> Byte \cup {NoMessage}]
    <3> SUFFICES ASSUME NEW a \in Address,
                        a \in bufferHead .. bufferHead + MessageSize[producing] - 1
                 PROVE  [message |-> producing, number |-> a - bufferHead + 1] \in Byte
      BY <1>3 DEF Store, QueueTypeOK
    <3>1. a - bufferHead + 1 \in 1 .. MaxMessageSize
      BY <1>1, <2>1 DEF Address
    <3> QED
      BY <2>1, <3>1 DEF Byte
  <2>4. elementHead' \in Index
    BY <1>3, RingIndex, QueueAssumption DEF Store, QueueTypeOK, Index
  <2>5. elements' \in [Index -> Address]
    BY <1>1, <1>3 DEF Store, QueueTypeOK, Address
  <2>6. bufferHead' \in Address /\ bufferHead' <= last
    BY <1>1, <2>2 DEF Address
  <2>7. lapped' \in BOOLEAN /\ (lapped => lapped')
    BY <1>3 DEF Store
  <2>8. /\ bufferTail' = bufferTail /\ elementTail' = elementTail /\ producing' = NoMessage
        /\ consumerPc' = consumerPc /\ copied' = copied
    BY <1>3 DEF Store
  <2>9. QueueTypeOK'
    BY <2>3, <2>4, <2>5, <2>6, <2>7, <2>8 DEF QueueTypeOK
  <2>10. Ends'
    BY <2>6, <2>8 DEF Ends
  <2> QED
    BY <2>7, <2>9, <2>10
<1>4. CASE Copy
  <2>1. copied' \in Message \cup {NoMessage, "garbage"}
    <3> DEFINE b == buffer[elements[elementTail]]
    <3>1. elements[elementTail] \in Address
      BY DEF QueueTypeOK
    <3>2. b = NoMessage \/ b \in Byte
      BY <3>1 DEF QueueTypeOK
    <3>3. b # NoMessage => b.message \in Message
      BY <3>2 DEF Byte
    <3>4. copied' = "garbage" \/ (b # NoMessage /\ copied' = b.message)
      BY <1>4 DEF Copy, MessageAt
    <3> QED
      BY <3>3, <3>4
  <2>2. QueueTypeOK' /\ Ends'
    BY <1>4, <2>1 DEF Copy, QueueTypeOK, Ends
  <2> QED
    BY <1>4, <2>2 DEF Copy
<1>5. CASE FreeBytes
  <2>1. bufferTail <= last /\ MessageSize[copied] \in 1 .. MaxMessageSize
    BY <1>1, <1>5 DEF FreeBytes, Ends
  <2>2. bufferTail' \in 0 .. BufferBytes
    BY <1>1, <1>5, <2>1 DEF FreeBytes
  <2>3. QueueTypeOK' /\ Ends'
    BY <1>5, <2>2 DEF FreeBytes, QueueTypeOK, Ends
  <2> QED
    BY <1>5, <2>3 DEF FreeBytes
<1>6. CASE WrapTail
  <2>1. bufferTail' \in 0 .. last
    BY <1>1, <1>6 DEF WrapTail, Wrap
  <2>2. bufferTail' \in 0 .. BufferBytes /\ bufferTail' <= last
    BY <1>1, <2>1
  <2>3. QueueTypeOK' /\ Ends'
    BY <1>6, <2>2 DEF WrapTail, QueueTypeOK, Ends
  <2> QED
    BY <1>6, <2>3 DEF WrapTail
<1>7. CASE FreeElement
  <2>1. elementTail' \in Index
    BY <1>7, RingIndex, QueueAssumption DEF FreeElement, QueueTypeOK, Index
  <2>2. QueueTypeOK' /\ Ends'
    BY <1>7, <2>1 DEF FreeElement, QueueTypeOK, Ends
  <2> QED
    BY <1>7, <2>2 DEF FreeElement
<1>8. CASE UNCHANGED queueVars
  <2>1. QueueTypeOK' /\ Ends'
    BY <1>8 DEF queueVars, QueueTypeOK, Ends
  <2> QED
    BY <1>8, <2>1 DEF queueVars
<1> QED
  BY <1>2, <1>3, <1>4, <1>5, <1>6, <1>7, <1>8 DEF QueueNext

\* A step of the queue in which the head does not lap the tail keeps its bytes, its offsets and its
\* counts in order.
LEMMA QueueStepInOrder ==
  ASSUME InOrder, [QueueNext]_queueVars, ~lapped'
  PROVE  InOrder'
<1>1. CASE UNCHANGED queueVars
  <2>1. /\ UNCHANGED <<buffer, elements, bufferHead, bufferTail, elementHead, elementTail>>
        /\ UNCHANGED <<producing, consumerPc, copied, lapped>>
    BY <1>1 DEF queueVars
  <2>2. QueueTypeOK' /\ bufferHead' <= BufferBytes - MaxMessageSize
    BY <2>1 DEF InOrder, QueueTypeOK
  <2>3. Count' = Count /\ Live' = Live /\ \A k : Start(k)' = Start(k)
    BY <2>1, SameMessages DEF Live, Start
  <2>4. LiveMessages' /\ Disjoint' /\ BetweenTailAndHead' /\ TailPlace' /\ RoomFound'
    BY <2>1, <2>3, SameMessages
    DEF InOrder, LiveMessages, Disjoint, BetweenTailAndHead, TailPlace, RoomFound, Wrap
  <2> QED
    BY <2>2, <2>4 DEF InOrder
<1> QED
  BY <1>1, FindRoomInv, StoreInv, CopyInv, FreeBytesInv, WrapTailInv, FreeElementInv DEF QueueNext

\* The parts of the invariant are what InOrder says.
LEMMA InvIsInOrder ==
  /\ QueueInv <=> QueueTypeOK /\ Ends /\ (~lapped => InOrder)
  /\ QueueInv' <=> QueueTypeOK' /\ Ends' /\ (~lapped' => InOrder')
BY DEF QueueInv, QueueInOrder, InOrder, Ends

\* So every step of the queue keeps its invariant.
LEMMA QueueStepInv ==
  ASSUME QueueInv, [QueueNext]_queueVars
  PROVE  QueueInv'
<1>1. QueueTypeOK' /\ Ends' /\ (lapped => lapped')
  BY QueueTypes, InvIsInOrder
<1>2. ~lapped' => InOrder'
  BY <1>1, InvIsInOrder, QueueStepInOrder
<1> QED
  BY <1>1, <1>2, InvIsInOrder

-----------------------------------------------------------------------------
\* The rest of a sequence.
LEMMA Rest ==
  ASSUME NEW n \in Nat, n > 0, NEW s, s = [k \in 1 .. n |-> s[k]]
  PROVE  /\ SubSeq(s, 2, Len(s)) = [k \in 1 .. n - 1 |-> s[k + 1]]
         /\ Tail(s) = [k \in 1 .. n - 1 |-> s[k + 1]]
         /\ s # << >> /\ Head(s) = s[1]
<1>1. Len(s) = n
  OBVIOUS
<1>2. SubSeq(s, 2, Len(s)) = [k \in 1 .. n - 1 |-> s[k + 1]]
  BY <1>1
<1>3. Tail(s) = [k \in 1 .. n - 1 |-> s[k + 1]]
  BY <1>1
<1> QED
  BY <1>1, <1>2, <1>3

\* A sequence with one more element.
LEMMA Longer ==
  ASSUME NEW n \in Nat, NEW s, s = [k \in 1 .. n |-> s[k]], NEW x
  PROVE  Append(s, x) = [k \in 1 .. n + 1 |-> IF k = n + 1 THEN x ELSE s[k]]
  OBVIOUS

\* What the queue holds, and how it changes in a step.
LEMMA ContentsAre ==
  /\ Contents = [k \in 1 .. Count |-> Msg(k)]
  /\ Contents' = [k \in 1 .. Count' |-> Msg(k)']
BY DEF Contents, Queued, Count, Msg, Offset, ElementOf

\* The contents stay the same while buffer and elements do.
LEMMA SameContents ==
  ASSUME UNCHANGED <<buffer, elements, elementHead, elementTail>>
  PROVE  Contents' = Contents
<1>1. Count' = Count /\ \A k : Msg(k)' = Msg(k)
  BY SameMessages
<1> QED
  BY <1>1, ContentsAre

\* Copying takes the first message.
LEMMA CopyTakes ==
  ASSUME InOrder, Copy
  PROVE  Fifo!Take
<1>1. /\ consumerPc = "idle" /\ consumerPc' = "copied"
      /\ UNCHANGED <<buffer, elements, elementHead, elementTail>>
  BY DEF Copy
<1>2. /\ Waiting = Contents
      /\ Waiting' = SubSeq(Contents, 2, Len(Contents))
  BY <1>1, SameContents DEF Waiting
<1>3. 1 \in Live /\ copied' = Msg(1)
  BY CopyInv
<1>4. Count \in Nat /\ Count > 0
  BY <1>3, LiveNumbers
<1>5. Contents = [k \in 1 .. Count |-> Contents[k]] /\ Contents[1] = Msg(1)
  BY <1>4, ContentsAre
<1>6. /\ SubSeq(Contents, 2, Len(Contents)) = Tail(Contents)
      /\ Contents # << >> /\ Head(Contents) = Msg(1)
  BY <1>4, <1>5, Rest
<1> QED
  BY <1>2, <1>3, <1>6 DEF Fifo!Take

\* Storing accepts the message that the producer has found room for.
LEMMA StoreAccepts ==
  ASSUME InOrder, Store
  PROVE  Fifo!Accept(producing)
<1> DEFINE m == producing  n == Count
<1>1. UNCHANGED <<consumerPc, copied>>
  BY DEF Store
<1>2. /\ Count' = n + 1 /\ \A k \in Live : Msg(k)' = Msg(k)
      /\ n \in Nat
  BY StoreAdds, LiveNumbers
<1>3. ASSUME NEW last, last = n + 1 PROVE Msg(last)' = m
  <2>1. ASSUME NEW q, q = m, NEW c, c = n PROVE Msg(c + 1)' = q
    BY <2>1, StoreAdds
  <2> QED
    BY <1>3, <2>1
<1>4. /\ Contents = [k \in 1 .. n |-> Msg(k)]
      /\ Contents' = [k \in 1 .. n + 1 |-> Msg(k)']
  BY <1>2, ContentsAre
<1>5. CASE consumerPc = "idle"
  <2>1. \A k \in 1 .. n : Msg(k)' = Msg(k)
    BY <1>2, <1>5 DEF Live
  <2>2. Contents' = [k \in 1 .. n + 1 |-> IF k = n + 1 THEN m ELSE Contents[k]]
    BY <1>2, <1>3, <1>4, <2>1
  <2>3. Contents = [k \in 1 .. n |-> Contents[k]]
    BY <1>4
  <2>4. Contents' = Append(Contents, m)
    BY <1>2, <2>2, <2>3, Longer
  <2> QED
    BY <1>1, <1>5, <2>4 DEF Waiting, Fifo!Accept
<1>6. CASE consumerPc # "idle"
  <2>1. n > 0 /\ \A k \in 2 .. n : Msg(k)' = Msg(k)
    BY <1>2, <1>6 DEF InOrder, TailPlace, Live
  <2> DEFINE rest == [k \in 1 .. n - 1 |-> Contents[k + 1]]
  <2>2. SubSeq(Contents, 2, Len(Contents)) = rest
    BY <1>2, <1>4, <2>1, Rest
  <2>3. SubSeq(Contents', 2, Len(Contents')) = [k \in 1 .. n |-> Contents'[k + 1]]
    <3>1. Contents' = [k \in 1 .. n + 1 |-> Contents'[k]] /\ n + 1 > 0 /\ n + 1 \in Nat
      BY <1>2, <1>4
    <3>2. (n + 1) - 1 = n
      BY <1>2
    <3> QED
      BY <3>1, <3>2, Rest
  <2>4. [k \in 1 .. n |-> Contents'[k + 1]] = [k \in 1 .. n |-> IF k = n THEN m ELSE rest[k]]
    <3> SUFFICES ASSUME NEW k \in 1 .. n
                 PROVE  Contents'[k + 1] = IF k = n THEN m ELSE rest[k]
      OBVIOUS
    <3>1. Contents'[k + 1] = Msg(k + 1)'
      BY <1>2, <1>4
    <3>2. CASE k = n
      BY <1>3, <3>1, <3>2
    <3>3. CASE k # n
      <4>1. k + 1 \in 2 .. n /\ k \in 1 .. n - 1 /\ k + 1 \in 1 .. n
        BY <1>2, <3>3
      <4> QED
        BY <1>4, <2>1, <3>1, <3>3, <4>1
    <3> QED
      BY <3>2, <3>3
  <2>5. Append(rest, m) = [k \in 1 .. n |-> IF k = n THEN m ELSE rest[k]]
    <3>1. n - 1 \in Nat /\ (n - 1) + 1 = n
      BY <1>2, <2>1
    <3>2. rest = [k \in 1 .. n - 1 |-> rest[k]]
      OBVIOUS
    <3> HIDE DEF rest
    <3> QED
      BY <3>1, <3>2, Longer
  <2>6. Waiting = rest /\ Waiting' = Append(rest, m)
    BY <1>1, <1>6, <2>2, <2>3, <2>4, <2>5 DEF Waiting
  <2> HIDE DEF rest
  <2> QED
    BY <1>1, <2>6 DEF Fifo!Accept
<1> QED
  BY <1>5, <1>6

\* Freeing the element of a message that has been copied changes nothing that is waiting.
LEMMA FreeElementKeeps ==
  ASSUME InOrder, FreeElement
  PROVE  UNCHANGED <<Waiting, copied>>
<1>1. consumerPc = "wrapped" /\ consumerPc' = "idle" /\ copied' = copied
  BY DEF FreeElement
<1>2. Count > 0 /\ Count' = Count - 1 /\ \A k \in 1 .. Count' : Msg(k)' = Msg(k + 1)
  BY FreeElementMoves
<1>3. Count \in Nat
  BY LiveNumbers
<1>4. /\ Contents = [k \in 1 .. Count |-> Contents[k]]
      /\ \A k \in 1 .. Count : Contents[k] = Msg(k)
      /\ Contents' = [k \in 1 .. Count - 1 |-> Msg(k)']
  BY <1>2, ContentsAre
<1>5. Waiting = [k \in 1 .. Count - 1 |-> Contents[k + 1]]
  BY <1>1, <1>2, <1>3, <1>4, Rest DEF Waiting
<1>6. \A k \in 1 .. Count - 1 : Contents[k + 1] = Msg(k)'
  BY <1>2, <1>3, <1>4
<1>7. Waiting' = Contents'
  BY <1>1 DEF Waiting
<1> QED
  BY <1>1, <1>4, <1>5, <1>6, <1>7

\* A step of the queue accepts a message, takes the first one or does not show.
LEMMA QueueStepImplements ==
  ASSUME InOrder, [QueueNext]_queueVars
  PROVE  UNCHANGED <<Waiting, copied>> \/ Fifo!FifoNext
<1>1. ASSUME UNCHANGED <<buffer, elements, elementHead, elementTail, copied>>,
             (consumerPc' = "idle") <=> (consumerPc = "idle")
      PROVE  UNCHANGED <<Waiting, copied>>
  BY <1>1, SameContents DEF Waiting
<1>2. CASE UNCHANGED queueVars
  BY <1>1, <1>2 DEF queueVars
<1>3. ASSUME NEW m \in Message, FindRoom(m) PROVE UNCHANGED <<Waiting, copied>>
  BY <1>1, <1>3 DEF FindRoom
<1>4. CASE Store
  <2>1. producing \in Message
    BY <1>4, StoreAdds
  <2> QED
    BY <1>4, <2>1, StoreAccepts DEF Fifo!FifoNext
<1>5. CASE Copy
  BY <1>5, CopyTakes DEF Fifo!FifoNext
<1>6. CASE FreeBytes
  BY <1>1, <1>6 DEF FreeBytes
<1>7. CASE WrapTail
  BY <1>1, <1>7 DEF WrapTail
<1>8. CASE FreeElement
  BY <1>8, FreeElementKeeps
<1> QED
  BY <1>2, <1>3, <1>4, <1>5, <1>6, <1>7, <1>8 DEF QueueNext

\* Head and tail stay within the buffer in every run, and until the head laps the tail the queue's
\* offsets, counts and bytes are in order: no byte of a message that waits is overwritten.  No
\* bound on the backlog is assumed: whether the head may lap is what the test for room decides.
THEOREM QueueInvariance == QueueSpec => []QueueInv
<1>1. QueueInv /\ [QueueNext]_queueVars => QueueInv'
  BY QueueStepInv
<1> QED
  BY <1>1, QueueInvInit, PTL DEF QueueSpec

\* Until then every message that found room is handed over once, unchanged and in order: the ring
\* of bytes and the ring of elements together are a queue, with producer and consumer interleaved
\* between any two of their assignments.
THEOREM QueueIsFifo == QueueSpec => ImplementsFifo
<1>1. QueueInit => Fifo!FifoInit
  <2> SUFFICES ASSUME QueueInit PROVE Waiting = << >> /\ copied = NoMessage
    BY DEF Fifo!FifoInit
  <2>1. QueueTypeOK
    BY QueueInvInit DEF QueueInv
  <2>2. Count = 0
    BY <2>1, RingTypes DEF QueueInit
  <2> QED
    BY <2>2, ContentsAre DEF QueueInit, Waiting
<1>2. QueueInv /\ [QueueNext]_queueVars =>
        [~lapped => UNCHANGED queueVars \/ Fifo!FifoNext]_<<Waiting, copied>>
  BY QueueStepImplements, InvIsInOrder
<1> QED
  BY <1>1, <1>2, QueueInvariance, PTL DEF QueueSpec, ImplementsFifo

-----------------------------------------------------------------------------
(***************************************************************************)
(* Facts about a slot                                                      *)
(***************************************************************************)

\* A set of incoming slots is finite, and a slot that joins or leaves it changes its count by one.
LEMMA SlotCounting ==
  ASSUME NEW S \in SUBSET IncomingSlot
  PROVE  /\ Cardinality(S) \in Nat
         /\ \A i \in IncomingSlot \ S : Cardinality(S \cup {i}) = Cardinality(S) + 1
         /\ \A i \in S : Cardinality(S \ {i}) = Cardinality(S) - 1
<1>1. IsFiniteSet(S)
  BY SlotAssumption, FS_Subset
<1> QED
  BY <1>1, FS_CardinalityType, FS_AddElement, FS_RemoveElement

\* Closing keeps what the slot says of its operations, and ends the connection exactly when the
\* child handle is destroyed.
LEMMA ClosedSlot ==
  ASSUME NEW i \in Slot, NEW p \in Peer, NEW pending \in SUBSET Operation, SlotOK(i, p, pending)
  PROVE  /\ Closed(p) \in Peer
         /\ SlotOK(i, Closed(p), pending)
         /\ Closed(p).isConnectedAccepted <=>
              p.isConnectedAccepted /\ ~(p.protocol = "open" /\ Idle(p))
<1>1. CASE p.protocol # "open"
  <2>1. Closed(p) = p
    BY <1>1 DEF Closed
  <2> QED
    BY <1>1, <2>1 DEF Peer
<1>2. CASE p.protocol = "open" /\ Idle(p)
  <2>1. Closed(p) = Reset(p)
    BY <1>2 DEF Closed
  <2>2. /\ Reset(p) \in Peer
        /\ Reset(p).protocol = "null" /\ ~Reset(p).isConnectingAccepting
        /\ Reset(p).isConnectedAccepted = FALSE /\ ~Reset(p).isReceiving /\ ~Reset(p).isTransmitting
        /\ Reset(p).token = p.token
    BY DEF Reset, Peer
  <2> QED
    BY <1>2, <2>1, <2>2 DEF SlotOK, Idle
<1>3. CASE p.protocol = "open" /\ ~Idle(p)
  <2>1. Closed(p) = [p EXCEPT !.isClosing = TRUE]
    BY <1>3 DEF Closed
  <2>2. /\ [p EXCEPT !.isClosing = TRUE] \in Peer
        /\ [p EXCEPT !.isClosing = TRUE].protocol = p.protocol
        /\ [p EXCEPT !.isClosing = TRUE].isConnectingAccepting = p.isConnectingAccepting
        /\ [p EXCEPT !.isClosing = TRUE].isConnectedAccepted = p.isConnectedAccepted
        /\ [p EXCEPT !.isClosing = TRUE].isReceiving = p.isReceiving
        /\ [p EXCEPT !.isClosing = TRUE].isTransmitting = p.isTransmitting
        /\ [p EXCEPT !.isClosing = TRUE].token = p.token
    BY DEF Peer
  <2> QED
    BY <1>3, <2>1, <2>2 DEF SlotOK
<1> QED
  BY <1>1, <1>2, <1>3

\* A change of one slot keeps the invariant when the slot is right afterwards and the connection
\* that it gained or lost has been counted.
LEMMA SlotChange ==
  ASSUME PeerInv, NEW i \in Slot,
         \E p \in Peer : peers' = [peers EXCEPT ![i] = p],
         \E pending \in SUBSET Operation : outstanding' = [outstanding EXCEPT ![i] = pending],
         SlotOK(i, peers'[i], outstanding'[i]),
         numberOfAcceptedIncommingConnection' =
           numberOfAcceptedIncommingConnection
             + (IF i \in IncomingSlot /\ peers'[i].isConnectedAccepted THEN 1 ELSE 0)
             - (IF i \in IncomingSlot /\ peers[i].isConnectedAccepted THEN 1 ELSE 0)
  PROVE  PeerInv'
<1>1. /\ peers \in [Slot -> Peer] /\ outstanding \in [Slot -> SUBSET Operation]
      /\ peers' \in [Slot -> Peer] /\ outstanding' \in [Slot -> SUBSET Operation]
      /\ \A j \in Slot : j # i => peers'[j] = peers[j] /\ outstanding'[j] = outstanding[j]
  BY DEF PeerInv, PeerTypeOK
<1>2. \A j \in Slot : SlotOK(j, peers'[j], outstanding'[j])
  BY <1>1 DEF PeerInv
<1>3. Connected' = IF i \in IncomingSlot /\ peers'[i].isConnectedAccepted
                   THEN Connected \cup {i} ELSE Connected \ {i}
  <2>1. \A j \in IncomingSlot : j \in Slot
    BY DEF Slot
  <2> QED
    BY <1>1, <2>1 DEF Connected
<1>4. /\ Connected \in SUBSET IncomingSlot
      /\ i \in Connected <=> i \in IncomingSlot /\ peers[i].isConnectedAccepted
      /\ i \in Connected' <=> i \in IncomingSlot /\ peers'[i].isConnectedAccepted
  BY DEF Connected
<1>5. /\ numberOfAcceptedIncommingConnection = Cardinality(Connected)
      /\ Cardinality(Connected) \in Nat
  BY <1>4, SlotCounting DEF PeerInv
<1>6. numberOfAcceptedIncommingConnection' = Cardinality(Connected')
  <2>1. CASE i \in Connected <=> i \in Connected'
    <3>1. Connected' = Connected
      BY <1>3, <1>4, <2>1
    <3>2. numberOfAcceptedIncommingConnection' = numberOfAcceptedIncommingConnection
      BY <1>4, <1>5, <2>1
    <3> QED
      BY <1>5, <3>1, <3>2
  <2>2. CASE i \in Connected /\ i \notin Connected'
    <3>1. Connected' = Connected \ {i}
      BY <1>3, <1>4, <2>2
    <3>2. numberOfAcceptedIncommingConnection' = numberOfAcceptedIncommingConnection - 1
      BY <1>4, <1>5, <2>2
    <3> QED
      BY <1>4, <1>5, <2>2, <3>1, <3>2, SlotCounting
  <2>3. CASE i \notin Connected /\ i \in Connected'
    <3>1. Connected' = Connected \cup {i} /\ i \in IncomingSlot
      BY <1>3, <1>4, <2>3
    <3>2. numberOfAcceptedIncommingConnection' = numberOfAcceptedIncommingConnection + 1
      BY <1>4, <1>5, <2>3
    <3> QED
      BY <1>4, <1>5, <2>3, <3>1, <3>2, SlotCounting
  <2> QED
    BY <2>1, <2>2, <2>3
<1>7. numberOfAcceptedIncommingConnection' \in Int
  <2>1. Connected' \in SUBSET IncomingSlot
    BY DEF Connected
  <2> QED
    BY <1>6, <2>1, SlotCounting
<1> QED
  BY <1>1, <1>2, <1>6, <1>7 DEF PeerInv, PeerTypeOK

\* closePeer(), called for a slot that has become p.
LEMMA CloseInv ==
  ASSUME PeerInv, NEW i \in Slot, NEW p \in Peer, SlotOK(i, p, outstanding[i]),
         (p.isConnectedAccepted <=> peers[i].isConnectedAccepted),
         Close(i, p), UNCHANGED outstanding
  PROVE  PeerInv'
<1>1. /\ peers \in [Slot -> Peer] /\ outstanding \in [Slot -> SUBSET Operation]
      /\ numberOfAcceptedIncommingConnection \in Int
  BY DEF PeerInv, PeerTypeOK
<1>2. /\ Closed(p) \in Peer /\ SlotOK(i, Closed(p), outstanding[i])
      /\ Closed(p).isConnectedAccepted <=> p.isConnectedAccepted /\ ~(p.protocol = "open" /\ Idle(p))
  BY <1>1, ClosedSlot
<1>3. peers' = [peers EXCEPT ![i] = Closed(p)] /\ peers'[i] = Closed(p)
  BY <1>1 DEF Close
<1>4. outstanding' = [outstanding EXCEPT ![i] = outstanding[i]] /\ outstanding'[i] = outstanding[i]
  BY <1>1
<1>5. numberOfAcceptedIncommingConnection' =
        numberOfAcceptedIncommingConnection
          + (IF i \in IncomingSlot /\ peers'[i].isConnectedAccepted THEN 1 ELSE 0)
          - (IF i \in IncomingSlot /\ peers[i].isConnectedAccepted THEN 1 ELSE 0)
  <2>1. peers'[i].isConnectedAccepted <=> peers[i].isConnectedAccepted /\ ~(p.protocol = "open" /\ Idle(p))
    BY <1>2, <1>3
  <2>2. CASE peers[i].isConnectedAccepted /\ p.protocol = "open" /\ Idle(p)
    BY <1>1, <2>1, <2>2 DEF Close
  <2>3. CASE ~(peers[i].isConnectedAccepted /\ p.protocol = "open" /\ Idle(p))
    BY <1>1, <2>1, <2>3 DEF Close
  <2> QED
    BY <2>2, <2>3
<1>6. SlotOK(i, peers'[i], outstanding'[i])
  BY <1>2, <1>3, <1>4
<1> QED
  BY <1>1, <1>2, <1>3, <1>4, <1>5, <1>6, SlotChange

\* Any other change of a slot that neither makes nor ends a connection.
LEMMA SetInv ==
  ASSUME PeerInv, NEW i \in Slot, NEW p \in Peer, NEW pending \in SUBSET Operation,
         SlotOK(i, p, pending),
         (p.isConnectedAccepted <=> peers[i].isConnectedAccepted) \/ i \in OutgoingSlot,
         Set(i, p), outstanding' = [outstanding EXCEPT ![i] = pending]
  PROVE  PeerInv'
<1>1. /\ peers \in [Slot -> Peer] /\ outstanding \in [Slot -> SUBSET Operation]
      /\ numberOfAcceptedIncommingConnection \in Int
  BY DEF PeerInv, PeerTypeOK
<1>2. peers' = [peers EXCEPT ![i] = p] /\ peers'[i] = p /\ outstanding'[i] = pending
  BY <1>1 DEF Set
<1>3. numberOfAcceptedIncommingConnection' =
        numberOfAcceptedIncommingConnection
          + (IF i \in IncomingSlot /\ peers'[i].isConnectedAccepted THEN 1 ELSE 0)
          - (IF i \in IncomingSlot /\ peers[i].isConnectedAccepted THEN 1 ELSE 0)
  <2>1. i \in OutgoingSlot => i \notin IncomingSlot
    BY SlotAssumption
  <2> QED
    BY <1>1, <1>2, <2>1 DEF Set
<1> QED
  BY <1>2, <1>3, SlotChange

-----------------------------------------------------------------------------
(***************************************************************************)
(* The invariant is inductive                                              *)
(***************************************************************************)

\* The slots are empty at first.
LEMMA PeerInvInit == PeerInit => PeerInv
<1> SUFFICES ASSUME PeerInit PROVE PeerInv
  OBVIOUS
<1>1. FreshPeer \in Peer /\ (\A i \in Slot : SlotOK(i, FreshPeer, {}))
  BY DEF FreshPeer, Peer, Operation, TokenStatus, SlotOK
<1>2. PeerTypeOK
  BY <1>1 DEF PeerInit, PeerTypeOK
<1>3. \A i \in Slot : SlotOK(i, peers[i], outstanding[i])
  BY <1>1 DEF PeerInit
<1>4. Connected = {}
  BY DEF PeerInit, Connected, FreshPeer, Slot
<1> QED
  BY <1>2, <1>3, <1>4, FS_EmptySet DEF PeerInit, PeerInv

\* Completions of connections.
LEMMA ConnectInv ==
  ASSUME PeerInv, NEW i \in Slot, OutgoingConnected(i) \/ IncomingAccepted(i)
  PROVE  PeerInv'
<1> DEFINE p == [Taken(peers[i], "connect") EXCEPT !.isConnectingAccepting = FALSE]
<1>1. /\ peers[i] \in Peer /\ SlotOK(i, peers[i], outstanding[i]) /\ outstanding[i] \in SUBSET Operation
      /\ peers \in [Slot -> Peer] /\ outstanding \in [Slot -> SUBSET Operation]
      /\ numberOfAcceptedIncommingConnection \in Int
  BY DEF PeerInv, PeerTypeOK
<1>2. /\ peers[i].token["connect"] # "none" /\ peers[i].protocol # "null"
      /\ peers[i].isConnectingAccepting /\ UNCHANGED outstanding
  BY <1>1 DEF OutgoingConnected, IncomingAccepted, SlotOK
<1>3. /\ ~peers[i].isConnectedAccepted /\ ~peers[i].isReceiving /\ ~peers[i].isTransmitting
      /\ outstanding[i] = {}
  BY <1>1, <1>2 DEF SlotOK, Operation
<1>4. /\ p \in Peer /\ p.isConnectingAccepting = FALSE /\ p.token["connect"] = "none"
      /\ p.protocol = peers[i].protocol /\ p.isConnectedAccepted = peers[i].isConnectedAccepted
      /\ p.isReceiving = peers[i].isReceiving /\ p.isTransmitting = peers[i].isTransmitting
  BY <1>1 DEF Taken, Peer, Operation, TokenStatus
<1>5. SlotOK(i, p, outstanding[i])
  BY <1>1, <1>2, <1>3, <1>4 DEF SlotOK
<1>6. outstanding' = [outstanding EXCEPT ![i] = outstanding[i]]
  BY <1>1, <1>2
<1>7. CASE Close(i, p)
  BY <1>2, <1>4, <1>5, <1>7, CloseInv
<1>8. CASE i \in OutgoingSlot /\ Set(i, [p EXCEPT !.isConnectedAccepted = TRUE, !.dataToTransmit = TRUE])
  <2> DEFINE q == [p EXCEPT !.isConnectedAccepted = TRUE, !.dataToTransmit = TRUE]
  <2>1. peers[i].protocol = "open"
    BY <1>1, <1>2, <1>8, SlotAssumption DEF SlotOK, Peer
  <2>2. q \in Peer /\ SlotOK(i, q, outstanding[i])
    BY <1>3, <1>4, <2>1 DEF SlotOK, Peer
  <2> QED
    BY <1>1, <1>6, <1>8, <2>2, SetInv
<1>9. CASE IncomingAccepted(i) /\ Set(i, [p EXCEPT !.protocol = "null"])
  <2> DEFINE q == [p EXCEPT !.protocol = "null"]
  <2>1. q \in Peer /\ SlotOK(i, q, outstanding[i]) /\ (q.isConnectedAccepted <=> peers[i].isConnectedAccepted)
    BY <1>3, <1>4 DEF SlotOK, Peer
  <2> QED
    BY <1>1, <1>6, <1>9, <2>1, SetInv
<1>10. CASE /\ IncomingAccepted(i)
            /\ peers' = [peers EXCEPT ![i] = [p EXCEPT !.protocol = "open",
                           !.isConnectedAccepted = TRUE, !.dataToTransmit = TRUE]]
            /\ numberOfAcceptedIncommingConnection' = numberOfAcceptedIncommingConnection + 1
  <2> DEFINE q == [p EXCEPT !.protocol = "open", !.isConnectedAccepted = TRUE, !.dataToTransmit = TRUE]
  <2>1. q \in Peer /\ SlotOK(i, q, outstanding[i]) /\ q.isConnectedAccepted
    BY <1>3, <1>4 DEF SlotOK, Peer
  <2>2. peers' = [peers EXCEPT ![i] = q] /\ peers'[i] = q /\ outstanding'[i] = outstanding[i] /\ i \in IncomingSlot
    BY <1>1, <1>2, <1>10 DEF IncomingAccepted
  <2>3. numberOfAcceptedIncommingConnection' =
          numberOfAcceptedIncommingConnection
            + (IF i \in IncomingSlot /\ peers'[i].isConnectedAccepted THEN 1 ELSE 0)
            - (IF i \in IncomingSlot /\ peers[i].isConnectedAccepted THEN 1 ELSE 0)
    BY <1>1, <1>3, <1>10, <2>1, <2>2
  <2>4. SlotOK(i, peers'[i], outstanding'[i])
    BY <2>1, <2>2
  <2> QED
    BY <1>1, <1>6, <2>1, <2>2, <2>3, <2>4, SlotChange
<1> QED
  BY <1>7, <1>8, <1>9, <1>10 DEF OutgoingConnected, IncomingAccepted

\* Received data.
LEMMA ReceiveInv ==
  ASSUME PeerInv, NEW i \in Slot, ProcessReceivedData(i) \/ ReceiveData(i)
  PROVE  PeerInv'
<1>1. /\ peers[i] \in Peer /\ SlotOK(i, peers[i], outstanding[i]) /\ outstanding[i] \in SUBSET Operation
      /\ outstanding \in [Slot -> SUBSET Operation] /\ outstanding = [outstanding EXCEPT ![i] = outstanding[i]]
  BY DEF PeerInv, PeerTypeOK
<1>2. CASE ProcessReceivedData(i)
  <2> DEFINE p == [Taken(peers[i], "receive") EXCEPT !.isReceiving = FALSE]
  <2>1. /\ p \in Peer /\ p.isReceiving = FALSE /\ p.token["connect"] = peers[i].token["connect"]
        /\ p.token["transmit"] = peers[i].token["transmit"]
        /\ p.isConnectingAccepting = peers[i].isConnectingAccepting
        /\ p.protocol = peers[i].protocol /\ p.isConnectedAccepted = peers[i].isConnectedAccepted
        /\ p.isTransmitting = peers[i].isTransmitting
    BY <1>1 DEF Taken, Peer, Operation, TokenStatus
  <2>2. "receive" \notin outstanding[i] /\ UNCHANGED outstanding
    BY <1>1, <1>2 DEF SlotOK, ProcessReceivedData
  <2>3. SlotOK(i, p, outstanding[i])
    BY <1>1, <2>1, <2>2 DEF SlotOK
  <2>4. Close(i, p) \/ Set(i, p)
    BY <1>2 DEF ProcessReceivedData
  <2> QED
    BY <1>1, <2>1, <2>2, <2>3, <2>4, CloseInv, SetInv
<1>3. CASE ReceiveData(i)
  <2>1. /\ peers[i].protocol = "open" /\ ~peers[i].isReceiving /\ peers[i].isConnectedAccepted
        /\ peers[i].token["receive"] = "none" /\ "receive" \notin outstanding[i]
        /\ ~peers[i].isConnectingAccepting
    BY <1>1, <1>3 DEF SlotOK, ReceiveData
  <2>2. CASE /\ Set(i, [peers[i] EXCEPT !.isReceiving = TRUE])
             /\ outstanding' = [outstanding EXCEPT ![i] = @ \cup {"receive"}]
    <3> DEFINE p == [peers[i] EXCEPT !.isReceiving = TRUE]
               pending == outstanding[i] \cup {"receive"}
    <3>1. /\ p \in Peer /\ p.isReceiving = TRUE /\ p.token = peers[i].token
          /\ p.isConnectingAccepting = peers[i].isConnectingAccepting
          /\ p.protocol = peers[i].protocol /\ p.isConnectedAccepted = peers[i].isConnectedAccepted
          /\ p.isTransmitting = peers[i].isTransmitting
      BY <1>1 DEF Peer
    <3>2. pending \in SUBSET Operation
      BY <1>1 DEF Operation
    <3>3. SlotOK(i, p, pending)
      BY <1>1, <2>1, <3>1 DEF SlotOK
    <3>4. outstanding' = [outstanding EXCEPT ![i] = pending]
      BY <2>2
    <3> QED
      BY <2>2, <3>1, <3>2, <3>3, <3>4, SetInv
  <2>3. CASE /\ \E status \in {"none", "error"} :
                  Close(i, [peers[i] EXCEPT !.token["receive"] = IF status = "none" THEN @ ELSE status])
             /\ UNCHANGED outstanding
    <3>1. PICK status \in {"none", "error"} :
            Close(i, [peers[i] EXCEPT !.token["receive"] = IF status = "none" THEN @ ELSE status])
      BY <2>3
    <3> DEFINE p == [peers[i] EXCEPT !.token["receive"] = IF status = "none" THEN @ ELSE status]
    <3>2. /\ p \in Peer /\ p.isReceiving = peers[i].isReceiving
          /\ p.token["connect"] = peers[i].token["connect"] /\ p.token["transmit"] = peers[i].token["transmit"]
          /\ p.isConnectingAccepting = peers[i].isConnectingAccepting
          /\ p.protocol = peers[i].protocol /\ p.isConnectedAccepted = peers[i].isConnectedAccepted
          /\ p.isTransmitting = peers[i].isTransmitting
      BY <1>1 DEF Peer, Operation, TokenStatus
    <3>3. SlotOK(i, p, outstanding[i])
      BY <1>1, <2>1, <3>2 DEF SlotOK
    <3> QED
      BY <2>3, <3>1, <3>2, <3>3, CloseInv
  <2> QED
    BY <1>3, <2>2, <2>3 DEF ReceiveData
<1> QED
  BY <1>2, <1>3

\* Data to transmit.
LEMMA TransmitInv ==
  ASSUME PeerInv, NEW i \in Slot, ProcessTransmittedData(i) \/ TransmitData(i) \/ Push(i)
  PROVE  PeerInv'
<1>1. /\ peers[i] \in Peer /\ SlotOK(i, peers[i], outstanding[i]) /\ outstanding[i] \in SUBSET Operation
      /\ outstanding \in [Slot -> SUBSET Operation] /\ outstanding = [outstanding EXCEPT ![i] = outstanding[i]]
  BY DEF PeerInv, PeerTypeOK
<1>2. CASE Close(i, peers[i]) /\ UNCHANGED outstanding
  BY <1>1, <1>2, CloseInv
<1>3. CASE ProcessTransmittedData(i)
  <2> DEFINE p == [Taken(peers[i], "transmit") EXCEPT !.isTransmitting = FALSE]
  <2>1. /\ p \in Peer /\ p.isTransmitting = FALSE /\ p.token["connect"] = peers[i].token["connect"]
        /\ p.token["receive"] = peers[i].token["receive"]
        /\ p.isConnectingAccepting = peers[i].isConnectingAccepting
        /\ p.protocol = peers[i].protocol /\ p.isConnectedAccepted = peers[i].isConnectedAccepted
        /\ p.isReceiving = peers[i].isReceiving
    BY <1>1 DEF Taken, Peer, Operation, TokenStatus
  <2>2. "transmit" \notin outstanding[i] /\ UNCHANGED outstanding
    BY <1>1, <1>3 DEF SlotOK, ProcessTransmittedData
  <2>3. SlotOK(i, p, outstanding[i])
    BY <1>1, <2>1, <2>2 DEF SlotOK
  <2>4. Close(i, p) \/ Set(i, p)
    BY <1>3 DEF ProcessTransmittedData
  <2> QED
    BY <1>1, <2>1, <2>2, <2>3, <2>4, CloseInv, SetInv
<1>4. CASE TransmitData(i)
  <2>1. /\ peers[i].protocol = "open" /\ ~peers[i].isTransmitting /\ peers[i].isConnectedAccepted
        /\ peers[i].token["transmit"] = "none" /\ "transmit" \notin outstanding[i]
        /\ ~peers[i].isConnectingAccepting
    BY <1>1, <1>4 DEF SlotOK, TransmitData
  <2>2. CASE /\ Set(i, [peers[i] EXCEPT !.isTransmitting = TRUE, !.dataToTransmit = FALSE])
             /\ outstanding' = [outstanding EXCEPT ![i] = @ \cup {"transmit"}]
    <3> DEFINE p == [peers[i] EXCEPT !.isTransmitting = TRUE, !.dataToTransmit = FALSE]
               pending == outstanding[i] \cup {"transmit"}
    <3>1. /\ p \in Peer /\ p.isTransmitting = TRUE /\ p.token = peers[i].token
          /\ p.isConnectingAccepting = peers[i].isConnectingAccepting
          /\ p.protocol = peers[i].protocol /\ p.isConnectedAccepted = peers[i].isConnectedAccepted
          /\ p.isReceiving = peers[i].isReceiving
      BY <1>1 DEF Peer
    <3>2. pending \in SUBSET Operation
      BY <1>1 DEF Operation
    <3>3. SlotOK(i, p, pending)
      BY <1>1, <2>1, <3>1 DEF SlotOK
    <3>4. outstanding' = [outstanding EXCEPT ![i] = pending]
      BY <2>2
    <3> QED
      BY <2>2, <3>1, <3>2, <3>3, <3>4, SetInv
  <2>3. CASE /\ Close(i, [peers[i] EXCEPT !.token["transmit"] = "error", !.dataToTransmit = FALSE])
             /\ UNCHANGED outstanding
    <3> DEFINE p == [peers[i] EXCEPT !.token["transmit"] = "error", !.dataToTransmit = FALSE]
    <3>1. /\ p \in Peer /\ p.isReceiving = peers[i].isReceiving
          /\ p.token["connect"] = peers[i].token["connect"] /\ p.token["receive"] = peers[i].token["receive"]
          /\ p.isConnectingAccepting = peers[i].isConnectingAccepting
          /\ p.protocol = peers[i].protocol /\ p.isConnectedAccepted = peers[i].isConnectedAccepted
          /\ p.isTransmitting = peers[i].isTransmitting
      BY <1>1 DEF Peer, Operation, TokenStatus
    <3>2. SlotOK(i, p, outstanding[i])
      BY <1>1, <2>1, <3>1 DEF SlotOK
    <3> QED
      BY <2>3, <3>1, <3>2, CloseInv
  <2> QED
    BY <1>2, <1>4, <2>2, <2>3 DEF TransmitData
<1>5. CASE Push(i) /\ Set(i, [peers[i] EXCEPT !.dataToTransmit = TRUE])
  <2> DEFINE p == [peers[i] EXCEPT !.dataToTransmit = TRUE]
  <2>1. /\ p \in Peer /\ p.isTransmitting = peers[i].isTransmitting /\ p.token = peers[i].token
        /\ p.isConnectingAccepting = peers[i].isConnectingAccepting
        /\ p.protocol = peers[i].protocol /\ p.isConnectedAccepted = peers[i].isConnectedAccepted
        /\ p.isReceiving = peers[i].isReceiving
    BY <1>1 DEF Peer
  <2>2. SlotOK(i, p, outstanding[i])
    BY <1>1, <2>1 DEF SlotOK
  <2>3. outstanding' = [outstanding EXCEPT ![i] = outstanding[i]]
    BY <1>1, <1>5 DEF Push
  <2> QED
    BY <1>1, <1>5, <2>1, <2>2, <2>3, SetInv
<1> QED
  BY <1>2, <1>3, <1>4, <1>5 DEF Push

\* A slot that is given to its next connection.
LEMMA ReconnectInv ==
  ASSUME PeerInv, NEW i \in Slot, Reconnect(i)
  PROVE  PeerInv'
<1> DEFINE p == [Reset(peers[i]) EXCEPT !.isConnectingAccepting = TRUE,
                   !.protocol = IF i \in OutgoingSlot THEN "open" ELSE "accepting"]
           pending == outstanding[i] \cup {"connect"}
<1>1. /\ peers[i] \in Peer /\ SlotOK(i, peers[i], outstanding[i]) /\ pending \in SUBSET Operation
  BY DEF PeerInv, PeerTypeOK, Operation
<1>2. /\ p \in Peer /\ p.isConnectingAccepting = TRUE /\ p.token = peers[i].token
      /\ p.isConnectedAccepted = FALSE /\ p.isReceiving = FALSE /\ p.isTransmitting = FALSE
      /\ p.protocol = IF i \in OutgoingSlot THEN "open" ELSE "accepting"
  BY <1>1 DEF Reset, Peer
<1>3. /\ ~peers[i].isConnectedAccepted /\ outstanding[i] \cap {"receive", "transmit"} = {}
      /\ peers[i].token["connect"] = "none"
  BY <1>1 DEF SlotOK, Reconnect
<1>4. SlotOK(i, p, pending)
  BY <1>2, <1>3 DEF SlotOK, Slot
<1>5. Set(i, p) /\ outstanding' = [outstanding EXCEPT ![i] = pending]
  BY DEF Reconnect
<1>6. p.isConnectedAccepted <=> peers[i].isConnectedAccepted
  BY <1>2, <1>3
<1> QED
  BY <1>1, <1>2, <1>4, <1>5, <1>6, SetInv

\* The TCP layer completes an operation.
LEMMA CompleteInv ==
  ASSUME PeerInv, NEW i \in Slot, NEW operation \in Operation, Complete(i, operation)
  PROVE  PeerInv'
<1>1. /\ peers[i] \in Peer /\ SlotOK(i, peers[i], outstanding[i]) /\ outstanding[i] \in SUBSET Operation
  BY DEF PeerInv, PeerTypeOK
<1>2. PICK status \in {"success", "error"} : Set(i, [peers[i] EXCEPT !.token[operation] = status])
  BY DEF Complete
<1> DEFINE p == [peers[i] EXCEPT !.token[operation] = status]
           pending == outstanding[i] \ {operation}
<1>3. /\ p \in Peer /\ p.isTransmitting = peers[i].isTransmitting
      /\ \A other \in Operation : other # operation => p.token[other] = peers[i].token[other]
      /\ p.isConnectingAccepting = peers[i].isConnectingAccepting
      /\ p.protocol = peers[i].protocol /\ p.isConnectedAccepted = peers[i].isConnectedAccepted
      /\ p.isReceiving = peers[i].isReceiving
  BY <1>1 DEF Peer, TokenStatus
<1>4. pending \in SUBSET Operation /\ operation \in outstanding[i]
  BY <1>1 DEF Complete
<1>5. SlotOK(i, p, pending)
  BY <1>1, <1>3, <1>4 DEF SlotOK, Operation
<1>6. outstanding' = [outstanding EXCEPT ![i] = pending]
  BY DEF Complete
<1> QED
  BY <1>2, <1>3, <1>4, <1>5, <1>6, SetInv

-----------------------------------------------------------------------------
(***************************************************************************)
(* The theorems                                                            *)
(***************************************************************************)

\* Every step of a peer keeps the invariant.
LEMMA PeerInvStep == PeerInv /\ [PeerNext]_peerVars => PeerInv'
<1> SUFFICES ASSUME PeerInv, [PeerNext]_peerVars PROVE PeerInv'
  OBVIOUS
<1>1. ASSUME NEW i \in Slot, PeerStep(i) PROVE PeerInv'
  <2>1. CASE ClosePeer(i)
    BY <2>1, CloseInv DEF ClosePeer, PeerInv, PeerTypeOK
  <2> QED
    BY <1>1, <2>1, ConnectInv, ReceiveInv, TransmitInv, ReconnectInv DEF PeerStep
<1>2. CASE UNCHANGED peerVars
  BY <1>2 DEF peerVars, PeerInv, PeerTypeOK, Connected
<1> QED
  BY <1>1, <1>2, CompleteInv DEF PeerNext

\* In every reachable state every slot says which of its operations are under way, and the incoming
\* slots with a connection are counted.
THEOREM PeerInvariance == PeerSpec => []PeerInv
BY PeerInvInit, PeerInvStep, PTL DEF PeerSpec

\* The counter of accepted connections is right after any sequence of closes and completions, and
\* no operation of an earlier connection is left when a slot becomes free or is used again.
THEOREM SlotsStayAccounted == PeerSpec => []SlotsAccounted
<1>1. PeerInv => SlotsAccounted
  <2> SUFFICES ASSUME PeerInv PROVE SlotsAccounted
    OBVIOUS
  <2>1. ASSUME NEW i \in Slot
        PROVE  /\ peers[i].protocol = "null" => outstanding[i] = {}
               /\ peers[i].isConnectingAccepting => outstanding[i] \subseteq {"connect"}
    <3>1. SlotOK(i, peers[i], outstanding[i]) /\ outstanding[i] \in SUBSET Operation
      BY DEF PeerInv, PeerTypeOK
    <3> QED
      BY <3>1 DEF SlotOK, Operation
  <2> QED
    BY <2>1 DEF PeerInv, Connected, SlotsAccounted
<1> QED
  BY <1>1, PeerInvariance, PTL

-----------------------------------------------------------------------------
(***************************************************************************)
(* The five together                                                       *)
(***************************************************************************)

\* What is checked as the invariant of all threads is inductive in each of the five: a step of one
\* leaves the others as they are.
THEOREM ThreadsInvariance == Spec => []ThreadsInv
<1> DEFINE vars == <<epochVars, snapshotVars, queueVars, lockVars, peerVars, part>>
<1>1. Init => ThreadsInv
  BY EpochInvInit, SnapshotInvInit, QueueInvInit, LockInvInit, PeerInvInit DEF Init, ThreadsInv
<1>2. ASSUME ThreadsInv, [Next]_vars PROVE ThreadsInv'
  <2>1. /\ [EpochNext]_epochVars /\ [SnapshotNext]_snapshotVars /\ [QueueNext]_queueVars
        /\ [LockNext]_lockVars /\ [PeerNext]_peerVars
    BY <1>2 DEF Next, Only
  <2>2. EpochInv' /\ SnapshotInv' /\ QueueInv' /\ LockInv' /\ PeerInv'
    BY <1>2, <2>1, EpochInvStep, SnapshotInvStep, QueueStepInv, LockInvStep, PeerInvStep
       DEF ThreadsInv
  <2> QED
    BY <2>2 DEF ThreadsInv
<1> QED
  BY <1>1, <1>2, PTL DEF Spec
================================================================================

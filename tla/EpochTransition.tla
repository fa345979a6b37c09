--------------------------- MODULE EpochTransition ---------------------------
(***************************************************************************)
(* The threads of a node around the end of an epoch: the tick processor,   *)
(* the request processors, the main loop and the contract processor hand   *)
(* work to each other through flags that they poll.                        *)
(*                                                                         *)
(* The tick processor stops the request processors before it changes the   *)
(* state of the epoch, runs contracts by asking the main loop to start the *)
(* contract processor, and has the main loop save the files.  Every read   *)
(* and every write of a shared flag is a step; what the tick processor     *)
(* computes between two flags is one step.                                 *)
(***************************************************************************)
EXTENDS Integers, Sequences, FiniteSets

CONSTANTS
  EpochRequestProcessor,  \* request processor threads
  MaxEpoch,               \* last epoch followed; epochs count from 0
  MaxContractThreads      \* contract processor threads and their callbacks alive at once

ASSUME EpochAssumption ==
  /\ IsFiniteSet(EpochRequestProcessor) /\ EpochRequestProcessor # {}
  /\ MaxEpoch \in Nat
  /\ MaxContractThreads \in Nat \ {0}

\* The files that the main loop saves when an epoch ends, in the order in which
\* it tests the flags, and the file saved through the asynchronous file system.
\* "system" is the end-of-epoch file of the system structure.
RequestedFile == {"system", "spectrum", "universe", "computer"}
EpochFile     == RequestedFile \cup {"revenue"}

\* A file whose content was changed in memory while it was written.
Torn == -1

\* Places of the main loop that matter here, in the order of its body.
MainStage == <<"contract", "periodic", "system", "spectrum", "universe",
               "computer", "flush">>

\* Places of the tick processor.  "run" waits for the contract processor.
TickPc == {"loop", "run", "awaitParked", "donations", "reopen", "awaitLeft",
           "awaitOperator", "awaitParkedAgain", "awaitRevenue", "awaitSystem",
           "beginEpoch", "askUniverse", "askComputer", "awaitFiles", "ended"}

\* Where the tick processor must not be disturbed by a request processor.
Exclusive == {"donations", "reopen", "awaitRevenue", "awaitSystem", "beginEpoch",
              "askUniverse", "askComputer", "awaitFiles"}

VARIABLES
  isVirtualMachine,
  epochTransitionState,
  epochTransitionWaiting,  \* epochTransitionWaitingRequestProcessors
  cleanMemoryFlag,         \* epochTransitionCleanMemoryFlag
  requestPc,               \* place of every request processor
  tickPc,                  \* place of the tick processor
  afterRun,                \* where it goes on when the contract processor is done
  epoch,                   \* system.epoch
  contractProcessorState,
  executing,               \* contract processor threads inside contractProcessor()
  callbacks,               \* ended threads whose event callback is still to run
  unserved,                \* a run was asked for and has not ended
  mustBeSaved,             \* systemMustBeSaved, spectrumMustBeSaved, ...
  revenueQueued,           \* the item of saveRevenueComponents() waits for a flush
  mainPc,                  \* index in MainStage, 0 when the process has ended
  writing,                 \* the file being written: its name, epoch, and if torn
  saveDue,                 \* SYSTEM_DATA_SAVING_PERIOD has elapsed
  file,                    \* the epoch whose end each file describes
  shutDownNode

requestVars  == <<requestPc, epochTransitionWaiting>>
contractVars == <<contractProcessorState, executing, callbacks, unserved>>
mainVars     == <<mainPc, saveDue, shutDownNode>>
epochVars == <<isVirtualMachine, epochTransitionState, cleanMemoryFlag, requestVars,
               tickPc, afterRun, epoch, contractVars, mustBeSaved, revenueQueued,
               mainVars, writing, file>>

NotWriting == [name |-> "none", epoch |-> 0, torn |-> FALSE]

EpochTypeOK ==
  /\ isVirtualMachine \in BOOLEAN
  /\ epochTransitionState \in 0 .. 2
  /\ epochTransitionWaiting \in 0 .. Cardinality(EpochRequestProcessor)
  /\ cleanMemoryFlag \in {0, 1}
  /\ requestPc \in [EpochRequestProcessor ->
       {"loop", "entering", "parked", "leaving", "handling", "ended"}]
  /\ tickPc \in TickPc /\ afterRun \in TickPc
  /\ epoch \in 0 .. MaxEpoch
  /\ contractProcessorState \in 0 .. 2
  /\ executing \in 0 .. MaxContractThreads
  /\ callbacks \in 0 .. MaxContractThreads
  /\ unserved \in BOOLEAN
  /\ mustBeSaved \subseteq RequestedFile
  /\ revenueQueued \in BOOLEAN
  /\ mainPc \in 0 .. Len(MainStage)
  /\ writing \in [name : EpochFile \cup {"none", "periodic"}, epoch : 0 .. MaxEpoch,
                  torn : BOOLEAN]
  /\ saveDue \in BOOLEAN
  /\ file \in [EpochFile -> Torn .. MaxEpoch]
  /\ shutDownNode \in BOOLEAN

\* The node has started in an epoch and its threads enter their loops.
EpochInit ==
  /\ isVirtualMachine \in BOOLEAN
  /\ epochTransitionState = 0
  /\ epochTransitionWaiting = 0
  /\ cleanMemoryFlag = 1
  /\ requestPc = [r \in EpochRequestProcessor |-> "loop"]
  /\ tickPc = "loop" /\ afterRun = "loop"
  /\ epoch = 0
  /\ contractProcessorState = 0
  /\ executing = 0 /\ callbacks = 0 /\ unserved = FALSE
  /\ mustBeSaved = {} /\ revenueQueued = FALSE
  /\ mainPc = 1 /\ writing = NotWriting /\ saveDue = FALSE
  /\ file = [f \in EpochFile |-> 0]
  /\ shutDownNode = FALSE

\* main() has not returned: its return ends every thread.
Running == mainPc # 0

\* What a change of the node's state does to a file that is being written.
Disturb == writing' = IF writing = NotWriting THEN writing ELSE [writing EXCEPT !.torn = TRUE]

-----------------------------------------------------------------------------
(* Request processors.                                                     *)

\* The loop's condition fails.
EndRequestProcessor(r) ==
  /\ Running /\ requestPc[r] = "loop" /\ shutDownNode
  /\ requestPc' = [requestPc EXCEPT ![r] = "ended"]
  /\ UNCHANGED epochTransitionWaiting

\* The top of the loop reads the transition state: outside of a transition a
\* request is taken from the queue.
ReadTransitionState(r) ==
  /\ Running /\ requestPc[r] = "loop" /\ ~shutDownNode
  /\ requestPc' = [requestPc EXCEPT ![r] =
       IF epochTransitionState # 0 THEN "entering" ELSE "handling"]
  /\ UNCHANGED epochTransitionWaiting

\* From here on the thread only drops the requests of the queue.
Park(r) ==
  /\ Running /\ requestPc[r] = "entering"
  /\ requestPc' = [requestPc EXCEPT ![r] = "parked"]
  /\ epochTransitionWaiting' = epochTransitionWaiting + 1

SeeTransitionEnd(r) ==
  /\ Running /\ requestPc[r] = "parked" /\ epochTransitionState = 0
  /\ requestPc' = [requestPc EXCEPT ![r] = "leaving"]
  /\ UNCHANGED epochTransitionWaiting

\* Mutant: a thread that goes on stays counted.
LeaveCounted(r) ==
  /\ Running /\ requestPc[r] = "leaving"
  /\ requestPc' = [requestPc EXCEPT ![r] = "handling"]
  /\ UNCHANGED epochTransitionWaiting

\* The transition state is not read again before a request is handled.
Leave(r) ==
  /\ Running /\ requestPc[r] = "leaving"
  /\ requestPc' = [requestPc EXCEPT ![r] = "handling"]
  /\ epochTransitionWaiting' = epochTransitionWaiting - 1

\* A request handled may be SPECIAL_COMMAND_CONTINUE_SWITCH_EPOCH, see Continue.
HandleRequest(r) ==
  /\ Running /\ requestPc[r] = "handling"
  /\ requestPc' = [requestPc EXCEPT ![r] = "loop"]
  /\ UNCHANGED epochTransitionWaiting

RequestProcessorStep(r) ==
  /\ \/ EndRequestProcessor(r)
     \/ ReadTransitionState(r)
     \/ Park(r)
     \/ SeeTransitionEnd(r)
     \/ Leave(r)
     \/ HandleRequest(r)
  /\ UNCHANGED <<isVirtualMachine, epochTransitionState, cleanMemoryFlag, tickPc,
                 afterRun, epoch, contractVars, mustBeSaved, revenueQueued,
                 mainVars, writing, file>>

-----------------------------------------------------------------------------
(* The contract processor.                                                 *)

\* contractProcessor() returns.  On bare metal it reports its end itself, on a
\* virtual machine the event callback does.
EndRun ==
  /\ Running /\ executing > 0
  /\ executing' = executing - 1
  /\ callbacks' = callbacks + 1
  /\ unserved' = FALSE
  /\ contractProcessorState' = IF isVirtualMachine THEN contractProcessorState ELSE 0

\* Mutant: the callback resets the state on every machine.
UnconditionalCallback ==
  /\ Running /\ callbacks > 0
  /\ callbacks' = callbacks - 1
  /\ contractProcessorState' = 0
  /\ UNCHANGED <<executing, unserved>>

\* contractProcessorShutdownCallback() may run long after its thread ended.
ShutdownCallback ==
  /\ Running /\ callbacks > 0
  /\ callbacks' = callbacks - 1
  /\ contractProcessorState' = IF isVirtualMachine THEN 0 ELSE contractProcessorState
  /\ UNCHANGED <<executing, unserved>>

ContractProcessorStep ==
  /\ EndRun \/ ShutdownCallback
  /\ UNCHANGED <<isVirtualMachine, epochTransitionState, cleanMemoryFlag, requestVars,
                 tickPc, afterRun, epoch, mustBeSaved, revenueQueued, mainVars,
                 writing, file>>

-----------------------------------------------------------------------------
(* The main loop.                                                          *)

NextStage == mainPc' = (mainPc % Len(MainStage)) + 1

\* contractProcessorState goes from 1 to 2 and a thread is started.
StartContractProcessor ==
  /\ MainStage[mainPc] = "contract" /\ contractProcessorState = 1
  /\ executing + callbacks < MaxContractThreads
  /\ contractProcessorState' = 2
  /\ executing' = executing + 1
  /\ NextStage
  /\ UNCHANGED <<callbacks, unserved, mustBeSaved, revenueQueued, saveDue,
                 shutDownNode, writing, file>>

\* A stage whose condition does not hold is passed.
PassStage ==
  /\ writing = NotWriting
  /\ \/ MainStage[mainPc] = "contract" /\ contractProcessorState # 1
     \/ MainStage[mainPc] = "periodic" /\ ~saveDue
     \/ MainStage[mainPc] \in RequestedFile \ mustBeSaved
  /\ NextStage
  /\ UNCHANGED <<contractVars, mustBeSaved, revenueQueued, saveDue, shutDownNode,
                 writing, file>>

\* saveSystem() of an auxiliary node without snapshots, once per period.  It
\* writes the end-of-epoch file when the transition state is 1 and a file that
\* is not followed here otherwise.
StartPeriodicSave ==
  /\ MainStage[mainPc] = "periodic" /\ saveDue /\ writing = NotWriting
  /\ saveDue' = FALSE
  /\ writing' = [name |-> IF epochTransitionState = 1 THEN "system" ELSE "periodic",
                 epoch |-> epoch, torn |-> FALSE]
  /\ UNCHANGED <<contractVars, mustBeSaved, revenueQueued, mainPc, shutDownNode, file>>

\* Mutant: the request does not restart the period.
StartRequestedSaveKeepingPeriod ==
  /\ MainStage[mainPc] \in mustBeSaved /\ writing = NotWriting
  /\ writing' = [name |-> MainStage[mainPc], epoch |-> epoch, torn |-> FALSE]
  /\ UNCHANGED <<contractVars, mustBeSaved, revenueQueued, mainPc, saveDue,
                 shutDownNode, file>>

\* Saving the system on request restarts the period of the regular save.
StartRequestedSave ==
  /\ MainStage[mainPc] \in mustBeSaved /\ writing = NotWriting
  /\ saveDue' = (saveDue /\ MainStage[mainPc] # "system")
  /\ writing' = [name |-> MainStage[mainPc], epoch |-> epoch, torn |-> FALSE]
  /\ UNCHANGED <<contractVars, mustBeSaved, revenueQueued, mainPc, shutDownNode, file>>

\* The file is complete and, if the save was asked for, its flag is cleared.
EndSave ==
  /\ writing # NotWriting
  /\ file' = IF writing.name \in EpochFile
             THEN [file EXCEPT ![writing.name] = IF writing.torn THEN Torn ELSE writing.epoch]
             ELSE file
  /\ mustBeSaved' = mustBeSaved \ {MainStage[mainPc]}
  /\ writing' = NotWriting
  /\ NextStage
  /\ UNCHANGED <<contractVars, revenueQueued, saveDue, shutDownNode>>

\* flushAsyncFileIOBuffer() at the end of the body.
Flush ==
  /\ MainStage[mainPc] = "flush"
  /\ file' = IF revenueQueued THEN [file EXCEPT !["revenue"] = epoch] ELSE file
  /\ revenueQueued' = FALSE
  /\ NextStage
  /\ UNCHANGED <<contractVars, mustBeSaved, saveDue, shutDownNode, writing>>

MainLoopStep ==
  /\ Running
  /\ \/ StartContractProcessor
     \/ PassStage
     \/ StartPeriodicSave
     \/ StartRequestedSave
     \/ EndSave
     \/ Flush
  /\ UNCHANGED <<isVirtualMachine, epochTransitionState, cleanMemoryFlag, requestVars,
                 tickPc, afterRun, epoch>>

\* The loop's condition fails: the process ends whatever the threads are doing.
ExitMainLoop ==
  /\ mainPc = 1 /\ shutDownNode
  /\ mainPc' = 0
  /\ UNCHANGED <<isVirtualMachine, epochTransitionState, cleanMemoryFlag, requestVars,
                 tickPc, afterRun, epoch, contractVars, mustBeSaved, revenueQueued,
                 saveDue, shutDownNode, writing, file>>

\* The regular save becomes due.  The period of 300 s is taken to be longer than
\* the save on request takes, from its start to the tick processor's next step.
PeriodElapses ==
  /\ Running /\ ~saveDue
  /\ tickPc = "awaitSystem" => "system" \in mustBeSaved /\ writing.name # "system"
  /\ saveDue' = TRUE
  /\ UNCHANGED <<isVirtualMachine, epochTransitionState, cleanMemoryFlag, requestVars,
                 tickPc, afterRun, epoch, contractVars, mustBeSaved, revenueQueued,
                 mainPc, shutDownNode, writing, file>>

\* F10 or the special command of the operator.
Continue ==
  /\ Running
  /\ cleanMemoryFlag' = 1
  /\ UNCHANGED <<isVirtualMachine, epochTransitionState, requestVars, tickPc, afterRun,
                 epoch, contractVars, mustBeSaved, revenueQueued, mainVars, writing,
                 file>>

\* The ESC key or the special command.
ShutDown ==
  /\ Running /\ shutDownNode' = TRUE
  /\ UNCHANGED <<isVirtualMachine, epochTransitionState, cleanMemoryFlag, requestVars,
                 tickPc, afterRun, epoch, contractVars, mustBeSaved, revenueQueued,
                 mainPc, saveDue, writing, file>>

-----------------------------------------------------------------------------
(* The tick processor.                                                     *)

\* The phase is set, state 1 asks the main loop for a contract processor.
AskForRun(next) ==
  /\ contractProcessorState' = 1
  /\ unserved' = TRUE
  /\ tickPc' = "run" /\ afterRun' = next
  /\ UNCHANGED <<executing, callbacks>>

Go(next) == tickPc' = next /\ UNCHANGED <<afterRun, contractVars>>

EndTickProcessor ==
  /\ tickPc = "loop" /\ shutDownNode
  /\ Go("ended")
  /\ UNCHANGED <<epochTransitionState, cleanMemoryFlag, epoch, mustBeSaved,
                 revenueQueued, writing>>

\* A phase of a tick or a transaction that invokes a contract.
RunInTick ==
  /\ tickPc = "loop" /\ ~shutDownNode
  /\ AskForRun("loop")
  /\ Disturb
  /\ UNCHANGED <<epochTransitionState, cleanMemoryFlag, epoch, mustBeSaved,
                 revenueQueued>>

RunEnded ==
  /\ tickPc = "run" /\ contractProcessorState = 0
  /\ Go(afterRun)
  /\ UNCHANGED <<epochTransitionState, cleanMemoryFlag, epoch, mustBeSaved,
                 revenueQueued, writing>>

\* The votes of the tick decide that the epoch ends with it.  An epoch is taken
\* to be longer than a request processor needs to leave its waiting loop.
DecideEpochEnd ==
  /\ tickPc = "loop" /\ ~shutDownNode /\ epoch < MaxEpoch
  /\ \A r \in EpochRequestProcessor : requestPc[r] \notin {"parked", "leaving"}
  /\ epochTransitionState' = 1
  /\ Go("awaitParked")
  /\ Disturb
  /\ UNCHANGED <<cleanMemoryFlag, epoch, mustBeSaved, revenueQueued>>

AllParked == epochTransitionWaiting >= Cardinality(EpochRequestProcessor)

\* endEpoch() begins with the END_EPOCH procedures of the contracts.
RunEndEpoch ==
  /\ tickPc = "awaitParked" /\ AllParked
  /\ AskForRun("donations")
  /\ Disturb
  /\ UNCHANGED <<epochTransitionState, cleanMemoryFlag, epoch, mustBeSaved,
                 revenueQueued>>

\* The revenue is distributed; a donation to a contract notifies the contract.
\* One such run stands for all of them.
NotifyDonation ==
  /\ tickPc = "donations"
  /\ AskForRun("reopen")
  /\ Disturb
  /\ UNCHANGED <<epochTransitionState, cleanMemoryFlag, epoch, mustBeSaved,
                 revenueQueued>>

\* PAUSE_BEFORE_CLEAR_MEMORY: request processors work again until the operator
\* lets the node go on.
Reopen ==
  /\ tickPc \in {"donations", "reopen"}
  /\ epochTransitionState' = 0
  /\ Go("awaitLeft")
  /\ Disturb
  /\ UNCHANGED <<cleanMemoryFlag, epoch, mustBeSaved, revenueQueued>>

\* Mutant: the tick processor does not wait until the threads have left.
AwaitOperatorAtOnce ==
  /\ tickPc = "awaitLeft"
  /\ cleanMemoryFlag' = 0
  /\ Go("awaitOperator")
  /\ UNCHANGED <<epochTransitionState, epoch, mustBeSaved, revenueQueued, writing>>

AwaitOperator ==
  /\ tickPc = "awaitLeft" /\ epochTransitionWaiting = 0
  /\ cleanMemoryFlag' = 0
  /\ Go("awaitOperator")
  /\ UNCHANGED <<epochTransitionState, epoch, mustBeSaved, revenueQueued, writing>>

CloseAgain ==
  /\ tickPc = "awaitOperator" /\ cleanMemoryFlag = 1
  /\ epochTransitionState' = 1
  /\ Go("awaitParkedAgain")
  /\ UNCHANGED <<cleanMemoryFlag, epoch, mustBeSaved, revenueQueued, writing>>

\* The rest of endEpoch(), and the blocking save of the revenue components.
FinishEndEpoch ==
  /\ tickPc = "awaitParkedAgain" /\ AllParked
  /\ epoch' = epoch + 1
  /\ revenueQueued' = TRUE
  /\ Go("awaitRevenue")
  /\ Disturb
  /\ UNCHANGED <<epochTransitionState, cleanMemoryFlag, mustBeSaved>>

\* The future computors are reordered and the system is to be saved.
AskToSaveSystem ==
  /\ tickPc = "awaitRevenue" /\ ~revenueQueued
  /\ mustBeSaved' = mustBeSaved \cup {"system"}
  /\ Go("awaitSystem")
  /\ Disturb
  /\ UNCHANGED <<epochTransitionState, cleanMemoryFlag, epoch, revenueQueued>>

SystemSaved ==
  /\ tickPc = "awaitSystem" /\ "system" \notin mustBeSaved
  /\ epochTransitionState' = 2
  /\ Go("beginEpoch")
  /\ UNCHANGED <<cleanMemoryFlag, epoch, mustBeSaved, revenueQueued, writing>>

\* beginEpoch(), then the flags of the three files are set one by one.
BeginEpoch ==
  /\ tickPc = "beginEpoch"
  /\ mustBeSaved' = mustBeSaved \cup {"spectrum"}
  /\ Go("askUniverse")
  /\ Disturb
  /\ UNCHANGED <<epochTransitionState, cleanMemoryFlag, epoch, revenueQueued>>

AskToSaveUniverse ==
  /\ tickPc = "askUniverse"
  /\ mustBeSaved' = mustBeSaved \cup {"universe"}
  /\ Go("askComputer")
  /\ UNCHANGED <<epochTransitionState, cleanMemoryFlag, epoch, revenueQueued, writing>>

AskToSaveComputer ==
  /\ tickPc = "askComputer"
  /\ mustBeSaved' = mustBeSaved \cup {"computer"}
  /\ Go("awaitFiles")
  /\ UNCHANGED <<epochTransitionState, cleanMemoryFlag, epoch, revenueQueued, writing>>

EndTransition ==
  /\ tickPc = "awaitFiles"
  /\ mustBeSaved \cap {"spectrum", "universe", "computer"} = {}
  /\ epochTransitionState' = 0
  /\ Go("loop")
  /\ UNCHANGED <<cleanMemoryFlag, epoch, mustBeSaved, revenueQueued, writing>>

TickProcessorStep ==
  /\ Running
  /\ \/ EndTickProcessor
     \/ RunInTick
     \/ RunEnded
     \/ DecideEpochEnd
     \/ RunEndEpoch
     \/ NotifyDonation
     \/ Reopen
     \/ AwaitOperator
     \/ CloseAgain
     \/ FinishEndEpoch
     \/ AskToSaveSystem
     \/ SystemSaved
     \/ BeginEpoch
     \/ AskToSaveUniverse
     \/ AskToSaveComputer
     \/ EndTransition
  /\ UNCHANGED <<isVirtualMachine, requestVars, mainVars, file>>

EpochNext ==
  \/ \E r \in EpochRequestProcessor : RequestProcessorStep(r)
  \/ ContractProcessorStep
  \/ MainLoopStep
  \/ ExitMainLoop
  \/ PeriodElapses
  \/ Continue
  \/ ShutDown
  \/ TickProcessorStep

\* The operating system runs every thread, an ended contract thread's callback
\* is run, and the operator of a paused node presses F10 again and again.
EpochFairness ==
  /\ \A r \in EpochRequestProcessor : WF_epochVars(RequestProcessorStep(r))
  /\ WF_epochVars(EndRun /\ ContractProcessorStep)
  /\ WF_epochVars(ShutdownCallback /\ ContractProcessorStep)
  /\ WF_epochVars(MainLoopStep)
  /\ WF_epochVars(TickProcessorStep)
  /\ WF_epochVars(Continue)

EpochSpec == EpochInit /\ [][EpochNext]_epochVars /\ EpochFairness

-----------------------------------------------------------------------------
(* Properties.                                                             *)

\* While the tick processor ends the epoch or begins the next one, no request
\* processor handles a request: the state of the node that requests read is
\* never seen half changed (the waits at the start of the transition and after
\* the operator's pause, and the re-opening in between).
RequestsParked ==
  tickPc \in Exclusive \/ (tickPc = "run" /\ afterRun # "loop")
    => \A r \in EpochRequestProcessor : requestPc[r] \in {"parked", "ended"}

\* When an epoch transition is over, every file of the new epoch is on disk and
\* none was changed in memory while the main loop wrote it (the flags that hand
\* the saves to the main loop, and the regular save that shares a file name).
FilesComplete ==
  tickPc = "loop" /\ epochTransitionState = 0
    => \A f \in EpochFile : file[f] = epoch

\* The tick processor goes on only after the contract processor has executed
\* what it was asked for: no event callback of an earlier run ends the wait.
ContractCallsComplete ==
  tickPc # "run" => executing = 0 /\ ~unserved

\* A node that has decided to end the epoch enters the next one, unless it is
\* shut down: the waits of the tick processor, the request processors and the
\* main loop never hold each other up.
EpochEnds == tickPc = "awaitParked" ~> (tickPc = "loop" \/ shutDownNode)

-----------------------------------------------------------------------------
(* The inductive invariant of the proofs.                                   *)

Processor == EpochRequestProcessor

\* The phases of the tick processor: ordinary ticks, endEpoch() with the
\* operator's pause inside it, beginEpoch() with the saving of its files.
InTick    == tickPc \in {"loop", "ended"} \/ (tickPc = "run" /\ afterRun = "loop")
Paused    == tickPc \in {"awaitLeft", "awaitOperator"}
Beginning == tickPc \in {"beginEpoch", "askUniverse", "askComputer", "awaitFiles"}
Ending    == ~InTick /\ ~Beginning

\* The contract processor is awaited in a tick or for END_EPOCH and the donations.
PlaceOK ==
  /\ afterRun \in {"loop", "donations", "reopen"}
  /\ epochTransitionState = IF InTick \/ Paused THEN 0 ELSE IF Beginning THEN 2 ELSE 1
  /\ tickPc \in {"awaitParked", "donations", "reopen", "awaitLeft", "awaitOperator", "awaitParkedAgain"}
       \/ (tickPc = "run" /\ afterRun # "loop")
       => epoch < MaxEpoch

\* The threads that epochTransitionWaitingRequestProcessors counts.
Counted == {r \in Processor : requestPc[r] \in {"parked", "leaving"}}

\* No thread goes into the waiting loop while requests are served, and none leaves it while they
\* are not; so when all are counted all are parked.
ProcessorsOK ==
  /\ epochTransitionWaiting = Cardinality(Counted)
  /\ epochTransitionState = 0 => \A r \in Processor : requestPc[r] # "entering"
  /\ epochTransitionState # 0 => \A r \in Processor : requestPc[r] # "leaving"
  /\ tickPc = "awaitOperator" => \A r \in Processor : requestPc[r] \notin {"parked", "leaving"}
  /\ tickPc \in Exclusive \/ (tickPc = "run" /\ afterRun # "loop")
       => \A r \in Processor : requestPc[r] = "parked"

\* What a value of contractProcessorState says of the threads and of the run that was asked for.
\* On a virtual machine the callback ends the run, and no other callback is left by then.
ContractOK ==
  /\ executing + callbacks <= MaxContractThreads
  /\ tickPc # "run" => contractProcessorState = 0
  /\ contractProcessorState = 0 => executing = 0 /\ ~unserved
  /\ contractProcessorState = 1 => executing = 0 /\ unserved
  /\ contractProcessorState = 2 =>
       (executing = 1 /\ unserved) \/ (isVirtualMachine /\ executing = 0 /\ ~unserved)
  /\ isVirtualMachine =>
       callbacks = IF contractProcessorState = 2 /\ executing = 0 THEN 1 ELSE 0

\* A flag is set only while the tick processor awaits the file.
FlagsOK ==
  /\ "system" \in mustBeSaved => tickPc = "awaitSystem"
  /\ "spectrum" \in mustBeSaved => tickPc \in {"askUniverse", "askComputer", "awaitFiles"}
  /\ "universe" \in mustBeSaved => tickPc \in {"askComputer", "awaitFiles"}
  /\ "computer" \in mustBeSaved => tickPc = "awaitFiles"
  /\ revenueQueued => tickPc = "awaitRevenue"

\* What is being written is the regular save or what was asked for; the latter is of this epoch
\* and undisturbed.  The regular save writes the system file only before the requested save.
WritingOK ==
  writing # NotWriting =>
    /\ mainPc \in 1 .. Len(MainStage)
    /\ \/ MainStage[mainPc] = "periodic" /\ writing.name \in {"system", "periodic"}
       \/ /\ MainStage[mainPc] = writing.name
          /\ writing.name \in RequestedFile /\ writing.name \in mustBeSaved
          /\ writing.epoch = epoch /\ ~writing.torn
    /\ writing.name = "system" =>
         Ending /\ (tickPc = "awaitSystem" => "system" \in mustBeSaved)

PeriodOK ==
  tickPc = "awaitSystem" /\ ("system" \notin mustBeSaved
                               \/ (writing.name = "system" /\ MainStage[mainPc] = "system"))
    => ~saveDue

\* The files that are complete in every phase.
FilesOK ==
  /\ ~revenueQueued => file["revenue"] = epoch
  /\ InTick \/ Beginning \/ (tickPc = "awaitSystem" /\ "system" \notin mustBeSaved)
       => file["system"] = epoch
  /\ tickPc \notin {"awaitRevenue", "awaitSystem", "beginEpoch"} /\ "spectrum" \notin mustBeSaved
       => file["spectrum"] = epoch
  /\ tickPc \notin {"awaitRevenue", "awaitSystem", "beginEpoch", "askUniverse"} /\ "universe" \notin mustBeSaved
       => file["universe"] = epoch
  /\ tickPc \notin {"awaitRevenue", "awaitSystem", "beginEpoch", "askUniverse", "askComputer"}
       /\ "computer" \notin mustBeSaved
       => file["computer"] = epoch

EpochInv ==
  /\ EpochTypeOK /\ PlaceOK /\ ProcessorsOK /\ ContractOK
  /\ FlagsOK /\ WritingOK /\ PeriodOK /\ FilesOK
=============================================================================

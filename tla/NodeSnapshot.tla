----------------------------- MODULE NodeSnapshot -----------------------------
(***************************************************************************)
(* Snapshots of a running node and the restart from them.  On a request    *)
(* the tick processor stops before it processes the next tick and the main *)
(* loop writes the state of the node, file by file, to a directory; the    *)
(* metadata of the tick storage, written last, make the snapshot valid.    *)
(* The node may crash at any step, and starts again from the snapshot or,  *)
(* when that cannot be loaded, from the files of the epoch's beginning.    *)
(*                                                                         *)
(* The content of a part of the state is the number of the tick that the   *)
(* part is ready to process, counted from the first tick of the epoch.     *)
(***************************************************************************)
EXTENDS Integers, Sequences

CONSTANTS
  SnapshotTicks,     \* last tick processed
  TxStatusAddon      \* ADDON_TX_STATUS_REQUEST

ASSUME SnapshotAssumption ==
  /\ SnapshotTicks \in Nat
  /\ TxStatusAddon \in BOOLEAN

\* The parts of the node's state, in the order in which they are saved and in
\* the order in which they are loaded.  "spectrum" stands for the four files of
\* spectrum, universe, contract states and execution fees, and "system" for those
\* of the system and the mining: each group is written and read without another
\* file between, changes in one step and is treated alike.
AddonPart == IF TxStatusAddon THEN <<"txStatus">> ELSE << >>
SaveOrder == <<"spectrum", "system", "digests", "flags", "ticks", "metadata">> \o AddonPart
LoadOrder == <<"metadata", "ticks", "spectrum", "system", "digests", "flags">> \o AddonPart

Part       == {SaveOrder[i] : i \in 1 .. Len(SaveOrder)}
\* What processTick() changes; the rest changes when the tick is left.
LedgerPart == {"spectrum", "digests", "flags"}
\* What a start "from scratch" reads from the files of the epoch's beginning.
ScratchPart == {"spectrum", "digests"}

Absent  == -1
Invalid == -2    \* metadata that checkMetaData() refuses

VARIABLES
  memory,       \* the state of the running node
  snapshot,     \* the files in the snapshot directory
  snapshotPc,   \* place of the tick processor
  requestPersistingNodeState,
  persistingNodeStateTickProcWaiting,
  saving,       \* 0, or the index in SaveOrder of the next file to write,
                \* or Removing while the old snapshot is removed
  up,           \* the process runs
  missed,       \* history: the tick processor has gone on in spite of a request that was made
                \* when the last one had just ended
  mixed,        \* history: the files of the snapshot do not belong together: it went on while
                \* they were written, or the node was astray, or the process left off while
                \* the old files were removed or after the metadata
  astray        \* history: the node has started from such files

history == <<missed, mixed, astray>>

snapshotVars == <<memory, snapshot, snapshotPc, requestPersistingNodeState,
                  persistingNodeStateTickProcWaiting, saving, up, history>>

Removing     == -1
Invalidating == -2

SnapshotTypeOK ==
  /\ memory \in [Part -> 0 .. SnapshotTicks]
  /\ snapshot \in [Part -> Invalid .. SnapshotTicks]
  /\ snapshotPc \in {"loop", "waiting", "clearing", "processing", "processed"}
  /\ requestPersistingNodeState \in {0, 1}
  /\ persistingNodeStateTickProcWaiting \in {0, 1}
  /\ saving \in Invalidating .. Len(SaveOrder)
  /\ up \in BOOLEAN
  /\ missed \in BOOLEAN /\ mixed \in BOOLEAN /\ astray \in BOOLEAN

\* The node has started from the files of the epoch's beginning.
SnapshotInit ==
  /\ memory = [p \in Part |-> 0]
  /\ snapshot = [p \in Part |-> Absent]
  /\ snapshotPc = "loop"
  /\ requestPersistingNodeState = 0
  /\ persistingNodeStateTickProcWaiting = 0
  /\ saving = 0
  /\ up = TRUE
  /\ missed = FALSE /\ mixed = FALSE /\ astray = FALSE

-----------------------------------------------------------------------------
(* The tick processor.                                                     *)

\* Every tick begins with the test for a request.
PauseForSnapshot ==
  /\ up /\ snapshotPc = "loop" /\ requestPersistingNodeState = 1
  /\ persistingNodeStateTickProcWaiting' = 1
  /\ snapshotPc' = "waiting"
  /\ missed' = FALSE
  /\ UNCHANGED <<memory, snapshot, requestPersistingNodeState, saving, up, mixed, astray>>

SeeRequestEnd ==
  /\ up /\ snapshotPc = "waiting" /\ requestPersistingNodeState = 0
  /\ snapshotPc' = "clearing"
  /\ UNCHANGED <<memory, snapshot, requestPersistingNodeState,
                 persistingNodeStateTickProcWaiting, saving, up, history>>

GoOn ==
  /\ up /\ snapshotPc = "clearing"
  /\ persistingNodeStateTickProcWaiting' = 0
  /\ snapshotPc' = "processing"
  /\ missed' = (requestPersistingNodeState = 1)
  /\ mixed' = (mixed \/ saving > 1)
  /\ UNCHANGED <<memory, snapshot, requestPersistingNodeState, saving, up, astray>>

NoRequest ==
  /\ up /\ snapshotPc = "loop" /\ requestPersistingNodeState = 0
  /\ snapshotPc' = "processing"
  /\ UNCHANGED <<memory, snapshot, requestPersistingNodeState,
                 persistingNodeStateTickProcWaiting, saving, up, history>>

\* processTick() executes the tick.
ExecuteTick ==
  /\ up /\ snapshotPc = "processing" /\ memory["system"] < SnapshotTicks
  /\ memory' = [p \in Part |-> IF p \in LedgerPart THEN memory["system"] + 1 ELSE memory[p]]
  /\ snapshotPc' = "processed"
  /\ UNCHANGED <<snapshot, requestPersistingNodeState,
                 persistingNodeStateTickProcWaiting, saving, up, history>>

\* A quorum agrees: votes are counted, system.tick grows and the loop starts over.
LeaveTick ==
  /\ up /\ snapshotPc = "processed"
  /\ memory' = [p \in Part |-> IF p \in LedgerPart THEN memory[p] ELSE memory["system"] + 1]
  /\ snapshotPc' = "loop"
  /\ UNCHANGED <<snapshot, requestPersistingNodeState,
                 persistingNodeStateTickProcWaiting, saving, up, history>>

-----------------------------------------------------------------------------
(* The main loop.                                                          *)

\* F8, the special command, or the automatic save of an auxiliary node.
RequestSnapshot ==
  /\ up /\ saving = 0 /\ requestPersistingNodeState = 0
  /\ requestPersistingNodeState' = 1
  /\ UNCHANGED <<memory, snapshot, snapshotPc, persistingNodeStateTickProcWaiting,
                 saving, up, history>>

\* Mutant: the main loop does not wait for the tick processor.
StartSavingAtOnce ==
  /\ up /\ saving = 0
  /\ requestPersistingNodeState = 1
  /\ saving' = Removing
  /\ UNCHANGED <<memory, snapshot, snapshotPc, requestPersistingNodeState,
                 persistingNodeStateTickProcWaiting, up, history>>

\* saveAllNodeStates() begins when the tick processor waits.
StartSaving ==
  /\ up /\ saving = 0
  /\ requestPersistingNodeState = 1 /\ persistingNodeStateTickProcWaiting = 1
  /\ saving' = Removing
  /\ UNCHANGED <<memory, snapshot, snapshotPc, requestPersistingNodeState,
                 persistingNodeStateTickProcWaiting, up, history>>

\* removeDir() deletes the files of the old snapshot in no particular order; it may fail or be
\* interrupted after each.
RemoveOldFile ==
  /\ up /\ saving = Removing
  /\ \E p \in Part : /\ snapshot[p] # Absent
                     /\ snapshot' = [snapshot EXCEPT ![p] = Absent]
  /\ UNCHANGED <<memory, snapshotPc, requestPersistingNodeState,
                 persistingNodeStateTickProcWaiting, saving, up, history>>

\* The directory is gone.
FinishRemoval ==
  /\ up /\ saving = Removing
  /\ \A p \in Part : snapshot[p] = Absent
  /\ saving' = Invalidating
  /\ UNCHANGED <<memory, snapshot, snapshotPc, requestPersistingNodeState,
                 persistingNodeStateTickProcWaiting, up, history>>

InvalidateNodeStates ==
  /\ up /\ saving = Invalidating
  /\ snapshot' = [snapshot EXCEPT !["metadata"] = Invalid]
  /\ saving' = 1
  /\ mixed' = astray
  /\ UNCHANGED <<memory, snapshotPc, requestPersistingNodeState,
                 persistingNodeStateTickProcWaiting, up, missed, astray>>

\* trySaveToFile() refuses to save the first tick of the epoch.
Savable(p) == p = "ticks" => memory["system"] > 0

SaveNextPart ==
  /\ up /\ saving > 0 /\ Savable(SaveOrder[saving])
  /\ snapshot' = [snapshot EXCEPT ![SaveOrder[saving]] = memory[SaveOrder[saving]]]
  /\ IF saving < Len(SaveOrder)
     THEN saving' = saving + 1 /\ UNCHANGED requestPersistingNodeState
     ELSE saving' = 0 /\ requestPersistingNodeState' = 0
  /\ mixed' = (mixed \/ missed)
  /\ UNCHANGED <<memory, snapshotPc, persistingNodeStateTickProcWaiting, up, missed, astray>>

\* The parts loadAllNodeStates() has loaded when it returns: it stops at the
\* first file that is missing, and at metadata that are invalid.
Loaded ==
  {LoadOrder[i] : i \in {j \in 1 .. Len(LoadOrder) :
                           \A k \in 1 .. j : snapshot[LoadOrder[k]] >= 0}}

LoadComplete == Loaded = Part

\* The place of the metadata in SaveOrder.
MetadataAt == 6

\* The metadata are valid and other files are not there, when the process leaves off here.
LeftOff == ~LoadComplete /\ (saving = Removing \/ saving > MetadataAt)

\* A file cannot be written, or the tick storage refuses: saveAllNodeStates()
\* returns and the main loop clears the request all the same.
SaveFails ==
  /\ up /\ saving # 0
  /\ saving' = 0
  /\ requestPersistingNodeState' = 0
  /\ mixed' = (mixed \/ LeftOff)
  /\ UNCHANGED <<memory, snapshot, snapshotPc, persistingNodeStateTickProcWaiting, up, missed,
                 astray>>

-----------------------------------------------------------------------------
(* Crash and restart.                                                      *)

Crash ==
  /\ up
  /\ up' = FALSE
  /\ mixed' = (mixed \/ LeftOff)
  /\ UNCHANGED <<memory, snapshot, snapshotPc, requestPersistingNodeState,
                 persistingNodeStateTickProcWaiting, saving, missed, astray>>

\* initialize(): when the snapshot is not complete, the files of the epoch's
\* beginning are loaded; what they do not hold keeps what was loaded before.
Restart ==
  /\ ~up
  /\ memory' = [p \in Part |->
       IF p \in Loaded /\ (LoadComplete \/ p \notin ScratchPart) THEN snapshot[p] ELSE 0]
  /\ up' = TRUE
  /\ snapshotPc' = "loop"
  /\ requestPersistingNodeState' = 0 /\ persistingNodeStateTickProcWaiting' = 0
  /\ saving' = 0
  /\ astray' = (snapshot["metadata"] >= 0 /\ mixed)
  /\ missed' = FALSE
  /\ UNCHANGED <<snapshot, mixed>>

SnapshotNext ==
  \/ PauseForSnapshot
  \/ SeeRequestEnd
  \/ GoOn
  \/ NoRequest
  \/ ExecuteTick
  \/ LeaveTick
  \/ RequestSnapshot
  \/ StartSaving
  \/ RemoveOldFile
  \/ FinishRemoval
  \/ InvalidateNodeStates
  \/ SaveNextPart
  \/ SaveFails
  \/ Crash
  \/ Restart

SnapshotSpec == SnapshotInit /\ [][SnapshotNext]_snapshotVars

-----------------------------------------------------------------------------
(* Properties.                                                             *)

\* Whenever the tick processor is about to take up a tick, also after a crash
\* and a restart, all parts of the node's state belong to that tick: no snapshot
\* is taken in the middle of a tick, an unfinished snapshot is never loaded, and
\* a start without one leaves nothing of it in memory.  There are two windows in
\* which the code does not see to that: a request made between the end of the
\* last one and the moment the tick processor clears its flag, which makes it go
\* on while the files are written; and an end of the process, or a failure, while
\* the old snapshot is removed or between the metadata and the file of the
\* transaction statuses.  A node that has started from what they leave, and only
\* such a node, is astray.  The tick storage may be ahead: its ticks are executed
\* again only when they are voted for.
RestoredConsistent ==
  up /\ snapshotPc = "loop" /\ ~astray =>
    \A p \in Part \ {"ticks", "metadata"} : memory[p] = memory["system"]

-----------------------------------------------------------------------------
(* The inductive invariant of the proofs.                                   *)

\* The parts that must belong to one tick.
Agreeing == Part \ {"ticks", "metadata"}

\* All parts agree but while a tick that was executed has not been left.
MemoryOK ==
  /\ snapshotPc = "processed" => memory["system"] < SnapshotTicks
  /\ ~astray /\ snapshotPc # "processed" => \A p \in Agreeing : memory[p] = memory["system"]
  /\ ~astray /\ snapshotPc = "processed" =>
       \A p \in Agreeing :
         memory[p] = IF p \in LedgerPart THEN memory["system"] + 1 ELSE memory["system"]

\* The tick processor has announced that it waits; the main loop saves only on a request.
HandshakeOK ==
  /\ persistingNodeStateTickProcWaiting = 1 <=> snapshotPc \in {"waiting", "clearing"}
  /\ saving # 0 => requestPersistingNodeState = 1
  /\ saving # 0 /\ ~missed => snapshotPc \in {"waiting", "clearing"}

\* The files that are there hold the state of one tick.
OneTick == \E t \in 0 .. SnapshotTicks : \A p \in Agreeing : snapshot[p] \in {t, Absent}

\* While the files are written, those to come are not there and the metadata are refused.
FilesToCome ==
  /\ saving = Invalidating => \A p \in Part : snapshot[p] = Absent
  /\ saving > 0 => \A i \in saving .. Len(SaveOrder) :
       i # MetadataAt => snapshot[SaveOrder[i]] = Absent
  /\ saving \in 1 .. MetadataAt => snapshot["metadata"] = Invalid

\* What is written without a mix is what the tick processor, which stands still, has in memory.
FilesWritten ==
  saving > 0 /\ ~mixed =>
    /\ ~astray
    /\ saving > 1 => snapshotPc \in {"waiting", "clearing"}
    /\ \A i \in 1 .. saving - 1 : snapshot[SaveOrder[i]] = memory[SaveOrder[i]]

\* Metadata that are accepted come with files of one tick, and with all of them unless the main
\* loop is at work; or the files are mixed.
FilesWhole ==
  snapshot["metadata"] >= 0 /\ ~mixed =>
    /\ OneTick
    /\ saving = 0 \/ ~up => \A p \in Part : snapshot[p] >= 0

SnapshotFilesOK == FilesToCome /\ FilesWritten /\ FilesWhole

SnapshotInv == SnapshotTypeOK /\ MemoryOK /\ HandshakeOK /\ SnapshotFilesOK
=============================================================================

------------------------------ MODULE MCNodeThreads ------------------------------
(***************************************************************************)
(* The handshakes of a node's threads, each on a small instance.  They do  *)
(* not share variables: a behaviour is one of one part, chosen at the      *)
(* start, and the others keep their initial state.                         *)
(***************************************************************************)
EXTENDS EpochTransition, NodeSnapshot, MessageQueue, ReadWriteLock, PeerConnections, TLC

CONSTANTS r1, r2, m1, m2, none

VARIABLE part

MCMessageSize == (m1 :> 1) @@ (m2 :> 2)

\* One part steps, the others stand still.
Only(name, Next, others) == part = name /\ Next /\ UNCHANGED <<others, part>>

Init ==
  /\ part \in {"epoch", "snapshot", "queue", "lock", "peers"}
  /\ EpochInit /\ SnapshotInit /\ QueueInit /\ LockInit /\ PeerInit
  /\ part # "epoch" => ~isVirtualMachine

Next ==
  \/ Only("epoch", EpochNext, <<snapshotVars, queueVars, lockVars, peerVars>>)
  \/ Only("snapshot", SnapshotNext, <<epochVars, queueVars, lockVars, peerVars>>)
  \/ Only("queue", QueueNext, <<epochVars, snapshotVars, lockVars, peerVars>>)
  \/ Only("lock", LockNext, <<epochVars, snapshotVars, queueVars, peerVars>>)
  \/ Only("peers", PeerNext, <<epochVars, snapshotVars, queueVars, lockVars>>)

\* EpochFairness and PeerFairness, for the part that runs.
EpochRuns == part = "epoch"
PeersRun  == part = "peers"

Fairness ==
  /\ \A r \in EpochRequestProcessor : WF_epochVars(EpochRuns /\ RequestProcessorStep(r))
  /\ WF_epochVars(EpochRuns /\ EndRun /\ ContractProcessorStep)
  /\ WF_epochVars(EpochRuns /\ ShutdownCallback /\ ContractProcessorStep)
  /\ WF_epochVars(EpochRuns /\ MainLoopStep)
  /\ WF_epochVars(EpochRuns /\ TickProcessorStep)
  /\ WF_epochVars(EpochRuns /\ Continue)
  /\ \A i \in Slot :
       /\ WF_peerVars(PeersRun /\ OutgoingConnected(i))
       /\ WF_peerVars(PeersRun /\ ProcessReceivedData(i))
       /\ WF_peerVars(PeersRun /\ ProcessTransmittedData(i))
       /\ \A operation \in Operation : WF_peerVars(PeersRun /\ Complete(i, operation))

Spec ==
  /\ Init
  /\ [][Next]_<<epochVars, snapshotVars, queueVars, lockVars, peerVars, part>>
  /\ Fairness

\* What every part keeps besides the promises above, and what makes them hold: who is counted and
\* who is awaited, which files are whole, which bytes belong to a message that waits (until the head
\* laps the tail), who is in the lock, and which operations a slot still owes.  The proofs show that each is inductive.
ThreadsInv ==
  /\ EpochInv
  /\ SnapshotInv
  /\ QueueInv
  /\ LockInv
  /\ PeerInv
===============================================================================

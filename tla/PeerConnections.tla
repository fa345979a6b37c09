---------------------------- MODULE PeerConnections ----------------------------
(***************************************************************************)
(* The connection slots of a node.  The main loop opens and accepts        *)
(* connections, receives, transmits and closes; the operations that it     *)
(* starts are completed by the TCP layer at any later time, and a slot may *)
(* be used for its next connection only when none of them is left.         *)
(***************************************************************************)
EXTENDS Integers, FiniteSets

CONSTANTS
  OutgoingSlot,   \* slots below NUMBER_OF_OUTGOING_CONNECTIONS
  IncomingSlot    \* the other slots

ASSUME SlotAssumption ==
  /\ IsFiniteSet(OutgoingSlot) /\ IsFiniteSet(IncomingSlot)
  /\ OutgoingSlot \cap IncomingSlot = {}

Slot == OutgoingSlot \cup IncomingSlot

\* Status of a completion token: "none" is -1.
TokenStatus == {"none", "success", "error"}
Operation   == {"connect", "receive", "transmit"}

(***************************************************************************)
(* What struct Peer keeps.  The protocol is NULL, the value 1 while an     *)
(* incoming slot waits for a connection, or that of an open child handle.  *)
(***************************************************************************)
Peer ==
  [protocol : {"null", "accepting", "open"},
   isConnectingAccepting : BOOLEAN, isConnectedAccepted : BOOLEAN,
   isReceiving : BOOLEAN, isTransmitting : BOOLEAN, isClosing : BOOLEAN,
   dataToTransmit : BOOLEAN,
   token : [Operation -> TokenStatus]]

VARIABLES
  peers,
  outstanding,                         \* operations the TCP layer has not completed
  numberOfAcceptedIncommingConnection

peerVars == <<peers, outstanding, numberOfAcceptedIncommingConnection>>

PeerTypeOK ==
  /\ peers \in [Slot -> Peer]
  /\ outstanding \in [Slot -> SUBSET Operation]
  /\ numberOfAcceptedIncommingConnection \in Int

\* reset() leaves the completion tokens as they are.
Reset(p) ==
  [p EXCEPT !.protocol = "null", !.isConnectingAccepting = FALSE,
            !.isConnectedAccepted = FALSE, !.isReceiving = FALSE,
            !.isTransmitting = FALSE, !.isClosing = FALSE, !.dataToTransmit = FALSE]

FreshPeer ==
  [protocol |-> "null", isConnectingAccepting |-> FALSE, isConnectedAccepted |-> FALSE,
   isReceiving |-> FALSE, isTransmitting |-> FALSE, isClosing |-> FALSE,
   dataToTransmit |-> FALSE, token |-> [o \in Operation |-> "none"]]

PeerInit ==
  /\ peers = [i \in Slot |-> FreshPeer]
  /\ outstanding = [i \in Slot |-> {}]
  /\ numberOfAcceptedIncommingConnection = 0

-----------------------------------------------------------------------------
\* Mutant: a transmission under way does not delay the end of the connection.
IdleButTransmitting(p) == ~p.isConnectingAccepting /\ ~p.isReceiving

\* No operation of the connection is under way.
Idle(p) == ~p.isConnectingAccepting /\ ~p.isReceiving /\ ~p.isTransmitting

\* closePeer(): the child handle is destroyed when nothing is under way.
Closed(p) ==
  IF p.protocol # "open" THEN p
  ELSE IF Idle(p) THEN Reset(p) ELSE [p EXCEPT !.isClosing = TRUE]

\* Slot i becomes p, and closePeer() has counted the connection if p is reset.
Close(i, p) ==
  /\ peers' = [peers EXCEPT ![i] = Closed(p)]
  /\ numberOfAcceptedIncommingConnection' =
       numberOfAcceptedIncommingConnection -
         (IF /\ p.protocol = "open" /\ Idle(p)
             /\ p.isConnectedAccepted /\ i \in IncomingSlot THEN 1 ELSE 0)

Set(i, p) ==
  /\ peers' = [peers EXCEPT ![i] = p]
  /\ UNCHANGED numberOfAcceptedIncommingConnection

Taken(p, operation) == [p EXCEPT !.token[operation] = "none"]

\* peerConnectionNewlyEstablished() for an outgoing slot.  A new connection
\* first sends the public peers.
OutgoingConnected(i) ==
  LET p == [Taken(peers[i], "connect") EXCEPT !.isConnectingAccepting = FALSE]
  IN /\ i \in OutgoingSlot
     /\ peers[i].protocol # "null" /\ peers[i].token["connect"] # "none"
     /\ IF peers[i].token["connect"] = "error" \/ peers[i].isClosing
        THEN Close(i, p)
        ELSE Set(i, [p EXCEPT !.isConnectedAccepted = TRUE, !.dataToTransmit = TRUE])
     /\ UNCHANGED outstanding

\* peerConnectionNewlyEstablished() for an incoming slot: opening the protocol
\* of the accepted handle may fail.
IncomingAccepted(i) ==
  LET p == [Taken(peers[i], "connect") EXCEPT !.isConnectingAccepting = FALSE]
  IN /\ i \in IncomingSlot
     /\ peers[i].protocol # "null" /\ peers[i].token["connect"] # "none"
     /\ \/ Set(i, [p EXCEPT !.protocol = "null"])
        \/ /\ peers[i].token["connect"] = "success"
           /\ peers' = [peers EXCEPT ![i] = [p EXCEPT !.protocol = "open",
                          !.isConnectedAccepted = TRUE, !.dataToTransmit = TRUE]]
           /\ numberOfAcceptedIncommingConnection' = numberOfAcceptedIncommingConnection + 1
     /\ UNCHANGED outstanding

\* processReceivedData(): a message may violate the protocol.
ProcessReceivedData(i) ==
  LET p == [Taken(peers[i], "receive") EXCEPT !.isReceiving = FALSE]
  IN /\ peers[i].protocol = "open" /\ peers[i].token["receive"] # "none"
     /\ \/ Close(i, p)
        \/ peers[i].token["receive"] = "success" /\ ~peers[i].isClosing /\ Set(i, p)
     /\ UNCHANGED outstanding

\* receiveData(): an operation that cannot be started leaves an error in its
\* token, and the peer is closed.  The token has just been looked at.
ReceiveData(i) ==
  /\ peers[i].protocol = "open" /\ ~peers[i].isReceiving
  /\ peers[i].token["receive"] = "none"
  /\ peers[i].isConnectedAccepted /\ ~peers[i].isClosing
  /\ \/ /\ Set(i, [peers[i] EXCEPT !.isReceiving = TRUE])
        /\ outstanding' = [outstanding EXCEPT ![i] = @ \cup {"receive"}]
     \/ /\ \E status \in {"none", "error"} :
             Close(i, [peers[i] EXCEPT !.token["receive"] =
                         IF status = "none" THEN @ ELSE status])
        /\ UNCHANGED outstanding

\* Mutant: a finished transmission does not look whether the peer is closing.
ProcessTransmittedIgnoringClose(i) ==
  LET p == [Taken(peers[i], "transmit") EXCEPT !.isTransmitting = FALSE]
  IN /\ peers[i].protocol = "open" /\ peers[i].token["transmit"] # "none"
     /\ IF peers[i].token["transmit"] = "error" THEN Close(i, p) ELSE Set(i, p)
     /\ UNCHANGED outstanding

\* processTransmittedData().
ProcessTransmittedData(i) ==
  LET p == [Taken(peers[i], "transmit") EXCEPT !.isTransmitting = FALSE]
  IN /\ peers[i].protocol = "open" /\ peers[i].token["transmit"] # "none"
     /\ IF peers[i].token["transmit"] = "error" \/ peers[i].isClosing
        THEN Close(i, p) ELSE Set(i, p)
     /\ UNCHANGED outstanding

TransmitData(i) ==
  /\ peers[i].protocol = "open" /\ peers[i].dataToTransmit /\ ~peers[i].isTransmitting
  /\ peers[i].token["transmit"] = "none"
  /\ peers[i].isConnectedAccepted /\ ~peers[i].isClosing
  /\ \/ /\ Set(i, [peers[i] EXCEPT !.isTransmitting = TRUE, !.dataToTransmit = FALSE])
        /\ outstanding' = [outstanding EXCEPT ![i] = @ \cup {"transmit"}]
     \/ Close(i, peers[i]) /\ UNCHANGED outstanding
     \/ /\ Close(i, [peers[i] EXCEPT !.token["transmit"] = "error", !.dataToTransmit = FALSE])
        /\ UNCHANGED outstanding

\* peerReconnectIfInactive(): an outgoing slot connects to a public peer that no
\* other slot is connected to, an incoming one accepts.
Reconnect(i) ==
  /\ peers[i].protocol = "null"
  /\ Set(i, [Reset(peers[i]) EXCEPT !.isConnectingAccepting = TRUE,
               !.protocol = IF i \in OutgoingSlot THEN "open" ELSE "accepting"])
  /\ outstanding' = [outstanding EXCEPT ![i] = @ \cup {"connect"}]

\* push(): a message that does not fit into the sending buffer closes the peer.
Push(i) ==
  /\ peers[i].protocol # "null" /\ peers[i].isConnectedAccepted /\ ~peers[i].isClosing
  /\ \/ Set(i, [peers[i] EXCEPT !.dataToTransmit = TRUE])
     \/ peers[i].dataToTransmit /\ Close(i, peers[i])
  /\ UNCHANGED outstanding

\* F4, the regular refresh of connections, and the start of a snapshot.
ClosePeer(i) == Close(i, peers[i]) /\ UNCHANGED outstanding

\* The TCP layer completes an operation.
Complete(i, operation) ==
  /\ operation \in outstanding[i]
  /\ outstanding' = [outstanding EXCEPT ![i] = @ \ {operation}]
  /\ \E status \in {"success", "error"} :
       Set(i, [peers[i] EXCEPT !.token[operation] = status])

PeerStep(i) ==
  \/ OutgoingConnected(i)
  \/ IncomingAccepted(i)
  \/ ProcessReceivedData(i)
  \/ ReceiveData(i)
  \/ ProcessTransmittedData(i)
  \/ TransmitData(i)
  \/ Reconnect(i)
  \/ Push(i)
  \/ ClosePeer(i)

PeerNext ==
  \E i \in Slot : PeerStep(i) \/ \E operation \in Operation : Complete(i, operation)

\* Every iteration of the main loop looks at all tokens of every slot, and TCP ends every
\* operation of a closing connection.
PeerFairness ==
  \A i \in Slot :
    /\ WF_peerVars(OutgoingConnected(i))
    /\ WF_peerVars(ProcessReceivedData(i))
    /\ WF_peerVars(ProcessTransmittedData(i))
    /\ \A operation \in Operation : WF_peerVars(Complete(i, operation))

PeerSpec == PeerInit /\ [][PeerNext]_peerVars /\ PeerFairness

-----------------------------------------------------------------------------
(* Properties.                                                             *)

\* The counter of accepted connections, which every close may decrease, is the
\* number of incoming slots with a connection; and a slot is given to its next
\* connection, or left empty, only when no operation of an earlier one can still
\* be completed.
SlotsAccounted ==
  /\ numberOfAcceptedIncommingConnection =
       Cardinality({i \in IncomingSlot : peers[i].isConnectedAccepted})
  /\ \A i \in Slot :
       /\ peers[i].protocol = "null" => outstanding[i] = {}
       /\ peers[i].isConnectingAccepting => outstanding[i] \subseteq {"connect"}

\* A connection that is closing ends and its slot becomes free, whatever
\* operations were under way: closePeer() only marks a busy peer, and a
\* completion has to call it again.
ClosingEnds == \A i \in Slot : peers[i].isClosing ~> ~peers[i].isClosing

-----------------------------------------------------------------------------
(* The inductive invariant of the proofs.                                   *)

\* What a slot says of the operations that the TCP layer has not completed.  A receive or transmit
\* token may be left over from an earlier connection, a connect token may not.
SlotOK(i, p, pending) ==
  /\ p.protocol = "accepting" => i \in IncomingSlot
  /\ p.protocol = "null" => ~p.isConnectingAccepting
  /\ p.protocol # "open" \/ p.isConnectingAccepting =>
       ~p.isConnectedAccepted /\ ~p.isReceiving /\ ~p.isTransmitting
  /\ "connect" \in pending => p.isConnectingAccepting /\ p.token["connect"] = "none"
  /\ p.token["connect"] # "none" => p.isConnectingAccepting
  /\ "receive" \in pending => p.isReceiving /\ p.token["receive"] = "none"
  /\ "transmit" \in pending => p.isTransmitting /\ p.token["transmit"] = "none"

\* The incoming slots with a connection.
Connected == {i \in IncomingSlot : peers[i].isConnectedAccepted}

PeerInv ==
  /\ PeerTypeOK
  /\ \A i \in Slot : SlotOK(i, peers[i], outstanding[i])
  /\ numberOfAcceptedIncommingConnection = Cardinality(Connected)
=============================================================================

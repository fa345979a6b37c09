----------------------------- MODULE MessageQueue -----------------------------
(***************************************************************************)
(* The queues between the main loop and the request processors.  Messages  *)
(* are copied one behind the other into a byte buffer, and a ring of       *)
(* elements holds their offsets.  There is room for the largest message    *)
(* behind every offset: a head or tail beyond that returns to the start of *)
(* the buffer.                                                             *)
(*                                                                         *)
(* The request queue is filled by the main loop and emptied by request     *)
(* processors under requestQueueTailLock; the response queue is filled by  *)
(* any thread under responseQueueHeadLock and emptied by the main loop.  So *)
(* in either queue one producer and one consumer run at a time, without a  *)
(* lock between them.                                                      *)
(***************************************************************************)
EXTENDS Integers, Sequences, FiniteSets

CONSTANTS
  Message,        \* what may be sent
  MessageSize,    \* bytes of a message, its header included
  NoMessage,
  BufferBytes,    \* REQUEST_QUEUE_BUFFER_SIZE, RESPONSE_QUEUE_BUFFER_SIZE
  MaxMessageSize, \* BUFFER_SIZE
  QueueLength     \* REQUEST_QUEUE_LENGTH, RESPONSE_QUEUE_LENGTH

ASSUME QueueAssumption ==
  /\ MaxMessageSize \in Nat \ {0} /\ BufferBytes \in Nat
  /\ MaxMessageSize < BufferBytes
  /\ MessageSize \in [Message -> 1 .. MaxMessageSize]
  /\ QueueLength \in Nat \ {0, 1}
  /\ NoMessage \notin Message
  /\ NoMessage \notin [message : Message, number : 1 .. MaxMessageSize]

VARIABLES
  buffer,       \* the bytes: which byte of which message
  elements,     \* the offsets
  bufferHead, bufferTail, elementHead, elementTail,
  producing,    \* the message that the producer has found room for, or NoMessage
  consumerPc,   \* "idle", "copied", "freed" or "wrapped"
  copied,       \* the message that was copied last
  lapped        \* history: the head has returned to the start of the buffer while the tail
                \* was still there

queueVars == <<buffer, elements, bufferHead, bufferTail, elementHead, elementTail,
               producing, consumerPc, copied, lapped>>

Address == 0 .. BufferBytes - 1
Index   == 0 .. QueueLength - 1
Byte    == [message : Message, number : 1 .. MaxMessageSize]

QueueTypeOK ==
  /\ buffer \in [Address -> Byte \cup {NoMessage}]
  /\ elements \in [Index -> Address]
  /\ bufferHead \in Address /\ bufferTail \in 0 .. BufferBytes
  /\ elementHead \in Index /\ elementTail \in Index
  /\ producing \in Message \cup {NoMessage}
  /\ consumerPc \in {"idle", "copied", "freed", "wrapped"}
  /\ copied \in Message \cup {NoMessage, "garbage"}
  /\ lapped \in BOOLEAN

QueueInit ==
  /\ buffer = [a \in Address |-> NoMessage]
  /\ elements = [i \in Index |-> 0]
  /\ bufferHead = 0 /\ bufferTail = 0
  /\ elementHead = 0 /\ elementTail = 0
  /\ producing = NoMessage
  /\ consumerPc = "idle"
  /\ copied = NoMessage
  /\ lapped = FALSE

\* Indices of the elements between tail and head, oldest first.
Queued ==
  [k \in 1 .. (elementHead - elementTail) % QueueLength |-> (elementTail + k - 1) % QueueLength]

\* The message at an offset, if all its bytes are there.
MessageAt(offset) ==
  IF /\ buffer[offset] # NoMessage /\ buffer[offset].number = 1
     /\ \A k \in 1 .. MessageSize[buffer[offset].message] :
          buffer[offset + k - 1] = [message |-> buffer[offset].message, number |-> k]
  THEN buffer[offset].message ELSE "garbage"

Contents == [k \in DOMAIN Queued |-> MessageAt(elements[Queued[k]])]

\* Where the next message starts.
Wrap(address) == IF address > BufferBytes - MaxMessageSize THEN 0 ELSE address

-----------------------------------------------------------------------------
\* The test before a message is put into the queue.
HasRoom(m) ==
  /\ bufferHead >= bufferTail \/ bufferHead + MessageSize[m] < bufferTail
  /\ (elementHead + 1) % QueueLength # elementTail

\* The producer tests for room; without it the message is dropped.
FindRoom(m) ==
  /\ producing = NoMessage
  /\ HasRoom(m)
  /\ producing' = m
  /\ UNCHANGED <<buffer, elements, bufferHead, bufferTail, elementHead, elementTail,
                 consumerPc, copied, lapped>>

\* It copies the message, moves the heads and, last, shows the element.
Store ==
  /\ producing # NoMessage
  /\ buffer' = [a \in Address |->
       IF a \in bufferHead .. bufferHead + MessageSize[producing] - 1
       THEN [message |-> producing, number |-> a - bufferHead + 1] ELSE buffer[a]]
  /\ elements' = [elements EXCEPT ![elementHead] = bufferHead]
  /\ bufferHead' = Wrap(bufferHead + MessageSize[producing])
  /\ elementHead' = (elementHead + 1) % QueueLength
  /\ producing' = NoMessage
  /\ lapped' = (lapped \/ (bufferHead' = 0 /\ Wrap(bufferTail) = 0))
  /\ UNCHANGED <<bufferTail, elementTail, consumerPc, copied>>

\* The consumer copies the oldest message,
Copy ==
  /\ consumerPc = "idle" /\ elementTail # elementHead
  /\ copied' = MessageAt(elements[elementTail])
  /\ consumerPc' = "copied"
  /\ UNCHANGED <<buffer, elements, bufferHead, bufferTail, elementHead, elementTail,
                 producing, lapped>>

\* frees its bytes (what it would free of garbage is not modelled: it stops there),
FreeBytes ==
  /\ consumerPc = "copied" /\ copied \in Message
  /\ bufferTail' = bufferTail + MessageSize[copied]
  /\ consumerPc' = "freed"
  /\ UNCHANGED <<buffer, elements, bufferHead, elementHead, elementTail, producing,
                 copied, lapped>>

\* Mutant: the tail returns to the start one byte earlier than the head.
WrapTailEarly ==
  /\ consumerPc = "freed"
  /\ bufferTail' = IF bufferTail >= BufferBytes - MaxMessageSize THEN 0 ELSE bufferTail
  /\ consumerPc' = "wrapped"
  /\ UNCHANGED <<buffer, elements, bufferHead, elementHead, elementTail, producing,
                 copied, lapped>>

\* returns to the start of the buffer where the producer did,
WrapTail ==
  /\ consumerPc = "freed"
  /\ bufferTail' = Wrap(bufferTail)
  /\ consumerPc' = "wrapped"
  /\ UNCHANGED <<buffer, elements, bufferHead, elementHead, elementTail, producing,
                 copied, lapped>>

\* and frees the element.
FreeElement ==
  /\ consumerPc = "wrapped"
  /\ elementTail' = (elementTail + 1) % QueueLength
  /\ consumerPc' = "idle"
  /\ UNCHANGED <<buffer, elements, bufferHead, bufferTail, elementHead, producing,
                 copied, lapped>>

QueueNext ==
  \/ \E m \in Message : FindRoom(m)
  \/ Store
  \/ Copy
  \/ FreeBytes
  \/ WrapTail
  \/ FreeElement

QueueSpec == QueueInit /\ [][QueueNext]_queueVars

-----------------------------------------------------------------------------
(* The queue implements MessageFifo.                                       *)

\* A message counts as taken once it has been copied.
Waiting ==
  IF consumerPc = "idle" THEN Contents ELSE SubSeq(Contents, 2, Len(Contents))

Fifo == INSTANCE MessageFifo WITH queue <- Waiting, taken <- copied

\* Every message that found room is handed over once, unchanged and in order:
\* the byte buffer is never overwritten before it is read, also where head and
\* tail return to its start.  The test for room does not see that a head at the
\* tail may stand for a full buffer as well as for an empty one: once the head
\* has returned to the start of the buffer while the tail was there, nothing is
\* promised.  It needs a backlog of nearly the whole buffer.
ImplementsFifo ==
  /\ Fifo!FifoInit
  /\ [][~lapped => UNCHANGED queueVars \/ Fifo!FifoNext]_<<Waiting, copied>>

-----------------------------------------------------------------------------
(* The inductive invariant of the proofs.                                   *)

\* The messages in the queue, the oldest first: their number, and for the k-th its element, its
\* offset, the message at that offset and its bytes.
Count == (elementHead - elementTail) % QueueLength
ElementOf(k) == (elementTail + k - 1) % QueueLength
Offset(k) == elements[ElementOf(k)]
Msg(k) == MessageAt(Offset(k))
Size(k) == MessageSize[Msg(k)]
Holds(address, m) ==
  \A i \in 1 .. MessageSize[m] : buffer[address + i - 1] = [message |-> m, number |-> i]

\* Those whose bytes the consumer has not freed, and where the next one starts.
Live == (IF consumerPc \in {"idle", "copied"} THEN 1 ELSE 2) .. Count
Start(k) == IF k <= Count THEN Offset(k) ELSE bufferHead

LiveMessages ==
  \A k \in Live :
    /\ Msg(k) \in Message
    /\ Offset(k) \in 0 .. BufferBytes - MaxMessageSize
    /\ Holds(Offset(k), Msg(k))
    /\ Start(k + 1) = Wrap(Offset(k) + Size(k))

Disjoint ==
  \A j, k \in Live : j < k => Offset(j) + Size(j) <= Offset(k) \/ Offset(k) + Size(k) <= Offset(j)

BetweenTailAndHead ==
  \A k \in Live :
    IF bufferHead >= bufferTail
    THEN bufferTail <= Offset(k) /\ Offset(k) + Size(k) <= bufferHead
    ELSE bufferTail <= Offset(k) \/ Offset(k) + Size(k) <= bufferHead

TailPlace ==
  /\ consumerPc \in {"idle", "copied"} => bufferTail = Start(1)
  /\ consumerPc = "freed" => Wrap(bufferTail) = Start(2)
  /\ consumerPc = "wrapped" => bufferTail = Start(2)
  /\ consumerPc # "idle" => Count > 0
  /\ consumerPc = "copied" => copied = Msg(1)

RoomFound ==
  producing # NoMessage =>
    /\ Count < QueueLength - 1
    /\ bufferHead < bufferTail => bufferHead + MessageSize[producing] < bufferTail

\* Head and tail have returned to the start of the buffer where they had to.
Ends ==
  /\ bufferHead <= BufferBytes - MaxMessageSize
  /\ consumerPc # "freed" => bufferTail <= BufferBytes - MaxMessageSize

\* While the head has not lapped the tail.
QueueInOrder ==
  /\ LiveMessages
  /\ Disjoint
  /\ BetweenTailAndHead
  /\ TailPlace
  /\ RoomFound

QueueInv == QueueTypeOK /\ Ends /\ (~lapped => QueueInOrder)
=============================================================================

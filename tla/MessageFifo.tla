------------------------------ MODULE MessageFifo ------------------------------
(***************************************************************************)
(* What a message queue promises: the messages that it accepts are taken   *)
(* unchanged, once, and in the order in which they were accepted.          *)
(***************************************************************************)
EXTENDS Sequences

CONSTANTS Message, NoMessage

VARIABLES
  queue,   \* the messages accepted and not yet taken
  taken    \* the message taken last

FifoInit == queue = << >> /\ taken = NoMessage

Accept(m) == queue' = Append(queue, m) /\ UNCHANGED taken

Take ==
  /\ queue # << >>
  /\ taken' = Head(queue)
  /\ queue' = Tail(queue)

FifoNext == Take \/ \E m \in Message : Accept(m)

FifoSpec == FifoInit /\ [][FifoNext]_<<queue, taken>>
===============================================================================

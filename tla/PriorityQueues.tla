---------------------------- MODULE PriorityQueues ----------------------------
(***************************************************************************)
(* What a QPI collection promises: one priority queue for each point of    *)
(* view (pov).  Elements of higher priority come first, those of equal     *)
(* priority in the order in which they were added.                         *)
(***************************************************************************)
EXTENDS Integers, Sequences

CONSTANTS Pov, Value, Priority,
          MaxElements   \* how many elements all the queues together may hold

VARIABLES
  queues,   \* the elements of each pov, first to last
  cursor    \* the element that the last call returned, or << >>

Entry == [value : Value, priority : Priority]

\* The position of a new element of priority q in the queue s.
PositionFor(s, q) ==
  CHOOSE n \in 1 .. Len(s) + 1 :
    /\ \A i \in 1 .. n - 1 : s[i].priority >= q
    /\ \A i \in n .. Len(s) : s[i].priority < q

Without(s, n) == SubSeq(s, 1, n - 1) \o SubSeq(s, n + 1, Len(s))

Total(q) ==
  LET sum[P \in SUBSET Pov] ==
        IF P = {} THEN 0
        ELSE LET p == CHOOSE x \in P : TRUE IN Len(q[p]) + sum[P \ {p}]
  IN sum[Pov]

QueuesInit == queues = [p \in Pov |-> << >>] /\ cursor = << >>

Put(p, v, q) ==
  LET old == queues
      s   == old[p]
      n   == PositionFor(s, q)
  IN
  /\ cursor' = <<p, n>>
  /\ Total(old) < MaxElements
  /\ queues' = [old EXCEPT ![p] =
        SubSeq(s, 1, n - 1) \o <<[value |-> v, priority |-> q]>> \o SubSeq(s, n, Len(s))]

Drop(p) ==
  LET old == queues
      s   == old[p]
  IN \E n \in 1 .. Len(s) :
       /\ cursor' = IF n < Len(s) THEN <<p, n>> ELSE << >>
       /\ queues' = [old EXCEPT ![p] = Without(s, n)]

Exchange(p, v) ==
  LET old == queues IN
  \E n \in 1 .. Len(old[p]) :
       /\ UNCHANGED cursor
       /\ queues' = [old EXCEPT ![p][n].value = v]

QueuesNext ==
  \E p \in Pov :
    \/ Drop(p)
    \/ \E v \in Value : Exchange(p, v) \/ \E q \in Priority : Put(p, v, q)

QueuesSpec == QueuesInit /\ [][QueuesNext]_<<queues, cursor>>
===============================================================================

------------------------------ MODULE PendingPool ------------------------------
(***************************************************************************)
(* What the pool of pending transactions promises: for every tick of its   *)
(* window it keeps the transactions that were offered for that tick, up to *)
(* a limit, and beyond the limit those of highest priority.                *)
(***************************************************************************)
EXTENDS Integers, FiniteSets

CONSTANTS TickLimit   \* transactions a tick may have

VARIABLES
  window,   \* the ticks for which transactions are accepted
  pending   \* what is kept for each of them: transactions with their priority

Lowest(S) == {x \in S : \A y \in S : x.priority <= y.priority}

\* A transaction is kept once, for the tick it is scheduled for.
Accepted(t, x) == x.tx \notin {y.tx : y \in pending[t]}

Keep(t, S) == pending' = [pending EXCEPT ![t] = S]

Offer ==
  /\ window' = window
  /\ \E t \in window : \E x \in pending'[t] :
       /\ Accepted(t, x)
       /\ IF Cardinality(pending[t]) < TickLimit
          THEN Keep(t, pending[t] \cup {x})
          ELSE \E y \in Lowest(pending[t]) :
                 /\ y.priority < x.priority
                 /\ Keep(t, (pending[t] \ {y}) \cup {x})

First(w) == CHOOSE t \in w : \A u \in w : t <= u

\* The window moves on: what stays in it is kept, and nothing else is there.
Move ==
  /\ window' # window
  /\ First(window') \in window
  /\ \A t \in window' : pending'[t] = IF t \in window THEN pending[t] ELSE {}

\* A window that begins before the present one, or beyond it, starts empty.
Restart ==
  /\ First(window') \notin window
  /\ \A t \in window' : pending'[t] = {}

PoolStep == Offer \/ Move \/ Restart
===============================================================================

----------------------------------- MODULE Qpi -----------------------------------
(***************************************************************************)
(* What the contracts use of the node: their own balance and transfers     *)
(* from it, the dividends of their shares, and collections as sorted       *)
(* queues (the promise of PriorityQueues).                                 *)
(***************************************************************************)
EXTENDS Integers, SequencesExt, FiniteSetsExt

CONSTANTS
  Account,   \* those who call the contracts
  Computors, \* NUMBER_OF_COMPUTORS, the shares of a contract
  MaxFunds   \* bound: the balance of a contract

ASSUME QpiAssumption == Computors \in Nat \ {0} /\ MaxFunds \in Nat

VARIABLE
  funds   \* the balance of the contract that is looked at

Bounded == funds' <= MaxFunds

Least(a, b) == IF a < b THEN a ELSE b

\* qpi.transfer and qpi.burn: nothing happens when the balance does not suffice.
CanPay(f, n) == n >= 0 /\ n <= f
Paid(f, n)   == IF CanPay(f, n) THEN f - n ELSE f

\* Several transfers, one after the other.
PaidInTurn(f, payments) == FoldLeft(Paid, f, payments)

\* qpi.distributeDividends(perShare)
Distributed(f, perShare) == Paid(f, perShare * Computors)

SumOf(S, Value(_)) == MapThenSumSet(Value, S)
SumOfSeq(s, Value(_)) == MapThenSumSet(LAMBDA n : Value(s[n]), DOMAIN s)

(***************************************************************************)
(* Collections: a queue has the elements of higher priority first          *)
(***************************************************************************)

\* add: behind those of the same priority.
Inserted(s, x) ==
  LET n == Cardinality({i \in DOMAIN s : s[i].priority >= x.priority})
  IN SubSeq(s, 1, n) \o <<x>> \o SubSeq(s, n + 1, Len(s))

\* remove
Removed(s, n) == SubSeq(s, 1, n - 1) \o SubSeq(s, n + 1, Len(s))

\* The elements from headIndex(pov, p) on, and those from tailIndex(pov, p) back.
FromHead(s, p) == {n \in DOMAIN s : s[n].priority <= p}
ToTail(s, p)   == {n \in DOMAIN s : s[n].priority >= p}
===============================================================================

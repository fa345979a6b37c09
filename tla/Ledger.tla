--------------------------------- MODULE Ledger ---------------------------------
(***************************************************************************)
(* What the spectrum promises: balances, and the sum that was taken from   *)
(* balances and is not given back yet.  Money appears nowhere and only     *)
(* dust disappears: when there are too many accounts, a credit burns the   *)
(* smallest balances first.                                                *)
(***************************************************************************)
EXTENDS Integers, FiniteSets

CONSTANTS
  Account,
  AccountLimit,   \* fewer accounts than this are left after dust is burned
  MaxAmount,
  Magnitudes      \* balances are compared by powers of two, up to this one

VARIABLES
  balance,   \* of each account
  held       \* debited and not credited

Debit ==
  LET old == balance IN
  \E k \in Account, a \in 0 .. MaxAmount :
    /\ held' = held + a
    /\ a <= old[k]
    /\ balance' = [old EXCEPT ![k] = @ - a]

Magnitude(b) == Cardinality({c \in 1 .. Magnitudes : 2^c <= b})

\* The balances of D may be burned: there are too many accounts, nothing of a smaller
\* magnitude stays and the number of accounts goes below the limit.
MayBurn(b, D) ==
  LET holders == {k \in Account : b[k] > 0} IN
  /\ D \subseteq holders
  /\ D = {} \/ /\ Cardinality(holders) >= AccountLimit
               /\ Cardinality(holders \ D) < AccountLimit
               /\ \A d \in D, k \in holders \ D : Magnitude(b[d]) <= Magnitude(b[k])

Credit ==
  LET old == balance IN
  \E a \in 0 .. MaxAmount :
    /\ held' = held - a
    /\ a <= held
    /\ \E k \in Account, D \in SUBSET Account :
         /\ balance' = [j \in Account |-> (IF j \in D THEN 0 ELSE old[j])
                                            + (IF j = k THEN a ELSE 0)]
         /\ MayBurn(old, D)

LedgerNext == Debit \/ Credit
===============================================================================

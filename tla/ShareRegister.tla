----------------------------- MODULE ShareRegister -----------------------------
(***************************************************************************)
(* What the universe promises: who has how many shares of which asset,     *)
(* under the management of which contract.  Shares come from an issuance   *)
(* only, move between holders and between managing contracts, and are      *)
(* gone only when they are burned.                                         *)
(***************************************************************************)
EXTENDS Integers

CONSTANTS
  Share,          \* the assets that may be issued
  ContractShare,  \* those that are the shares of a contract
  ShareHolder, Manager

VARIABLES
  issued,   \* assets that are issued
  shares    \* of each asset, holder and manager

Position == Share \X ShareHolder \X Manager

\* Some of what is at one position goes to another.
Move(old, new, from, to) ==
  /\ new[from] < old[from] /\ new[from] >= 0
  /\ new = [old EXCEPT ![from] = new[from], ![to] = @ + (old[from] - new[from])]

\* All shares go to one holder.
Issue(old, new) ==
  \E p \in Position :
    /\ p[1] \notin issued
    /\ issued' = issued \cup {p[1]}
    /\ new[p] > 0 /\ new = [old EXCEPT ![p] = new[p]]

\* The shares of a contract go to those whose bids won.
Allot(old, new) ==
  \E a \in ContractShare \ issued :
    /\ issued' = issued \cup {a}
    /\ \A p \in Position : IF p[1] = a THEN new[p] >= 0 ELSE new[p] = old[p]

ChangeHolder(old, new) ==
  /\ issued' = issued
  /\ \E p \in Position : \E k \in ShareHolder \ {p[2]} : Move(old, new, p, <<p[1], k, p[3]>>)

ChangeManager(old, new) ==
  /\ issued' = issued
  /\ \E p \in Position : \E m \in Manager \ {p[3]} : Move(old, new, p, <<p[1], p[2], m>>)

\* Never the shares of a contract.
Burn(old, new) ==
  /\ issued' = issued
  /\ \E p \in Position :
       /\ p[1] \notin ContractShare
       /\ new[p] \in 0 .. old[p] - 1 /\ new = [old EXCEPT ![p] = new[p]]

\* An asset all of whose shares are burned may be issued again.
Forget(old, new) ==
  /\ new = old
  /\ issued' = {a \in issued : \E h \in ShareHolder, m \in Manager : old[a, h, m] > 0}

RegisterNext ==
  LET old == shares new == shares' IN
  \/ Issue(old, new) \/ Allot(old, new) \/ Burn(old, new) \/ Forget(old, new)
  \/ ChangeHolder(old, new) \/ ChangeManager(old, new)
===============================================================================

------------------------------ MODULE PartialMap ------------------------------
(***************************************************************************)
(* What a QPI hash map promises: a finite map from keys to values that     *)
(* holds at most MaxKeys keys.                                             *)
(***************************************************************************)
EXTENDS FiniteSets, Integers

CONSTANTS MapKey, MapValue, MaxKeys

VARIABLE content   \* a function from a set of keys

MapInit == content = [k \in {} |-> 0]

Assign(k, v) ==
  LET old == content IN
  /\ k \in DOMAIN old \/ Cardinality(DOMAIN old) < MaxKeys
  /\ content' = [j \in DOMAIN old \cup {k} |-> IF j = k THEN v ELSE old[j]]

Delete(k) ==
  LET old == content IN
  /\ k \in DOMAIN old
  /\ content' = [j \in DOMAIN old \ {k} |-> old[j]]

MapNext == \E k \in MapKey : Delete(k) \/ \E v \in MapValue : Assign(k, v)

MapSpec == MapInit /\ [][MapNext]_content
===============================================================================

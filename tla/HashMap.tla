-------------------------------- MODULE HashMap --------------------------------
(***************************************************************************)
(* QPI::HashMap, the map that contracts keep in their states (HashSet is   *)
(* the same without values).  Open addressing: a key is at the first free  *)
(* slot from its home slot on.  A slot that is given up is marked, so that *)
(* searches go on behind it; the marks go when the map is cleaned up.      *)
(***************************************************************************)
EXTENDS Integers, FiniteSets

CONSTANTS
  MapKey, MapValue, NoKey,
  MapCapacity,  \* L
  KeyHome       \* the slot where the search for a key begins

ASSUME HashMapAssumption ==
  /\ MapCapacity \in Nat \ {0}
  /\ KeyHome \in [MapKey -> 0 .. MapCapacity - 1]
  /\ NoKey \notin MapKey

VARIABLES
  entries,       \* _elements
  occupation,    \* _occupationFlags: 0 empty, 1 occupied, 2 marked for removal
  mapPopulation, \* _population
  marks          \* _markRemovalCounter

hashMapVars == <<entries, occupation, mapPopulation, marks>>

MapSlot   == 0 .. MapCapacity - 1
NoEntry   == [key |-> NoKey, value |-> NoKey]
NullSlot  == -1

HashMapInit ==
  /\ entries = [i \in MapSlot |-> NoEntry]
  /\ occupation = [i \in MapSlot |-> 0]
  /\ mapPopulation = 0
  /\ marks = 0

\* The slot looked at after n others.
Hop(k, n) == (KeyHome[k] + n) % MapCapacity

FirstOf(S) == CHOOSE n \in S : \A j \in S : n <= j

\* Mutant: a marked slot ends a search too.
SpanToMark(k) ==
  LET empty == {n \in MapSlot : occupation[Hop(k, n)] # 1} IN
  IF empty = {} THEN MapCapacity ELSE FirstOf(empty)

\* How many slots are looked at before an empty one ends the search.
Span(k) ==
  LET empty == {n \in MapSlot : occupation[Hop(k, n)] = 0} IN
  IF empty = {} THEN MapCapacity ELSE FirstOf(empty)

Hits(k)   == {n \in 0 .. Span(k) - 1 :
                occupation[Hop(k, n)] = 1 /\ entries[Hop(k, n)].key = k}
Marked(k) == {n \in 0 .. Span(k) - 1 : occupation[Hop(k, n)] = 2}

GetElementIndex(k) == IF Hits(k) = {} THEN NullSlot ELSE Hop(k, FirstOf(Hits(k)))

\* Where set puts a key that is not in the map.
FreeSlot(k) ==
  IF Marked(k) # {} THEN Hop(k, FirstOf(Marked(k)))
  ELSE IF Span(k) < MapCapacity THEN Hop(k, Span(k))
  ELSE NullSlot

Assigned(k, v, i) ==
  /\ entries' = [entries EXCEPT ![i] = [key |-> k, value |-> v]]
  /\ occupation' = [occupation EXCEPT ![i] = 1]

\* set: a new key needs room; a key in the map gets the new value even in a full map.
Set(k, v) ==
  LET known == GetElementIndex(k) IN
  IF known # NullSlot
  THEN Assigned(k, v, known) /\ UNCHANGED <<mapPopulation, marks>>
  ELSE /\ mapPopulation < MapCapacity /\ FreeSlot(k) # NullSlot
       /\ Assigned(k, v, FreeSlot(k))
       /\ mapPopulation' = mapPopulation + 1
       /\ UNCHANGED marks

\* removeByIndex
RemoveByIndex(i) ==
  /\ occupation[i] = 1
  /\ mapPopulation' = mapPopulation - 1
  /\ marks' = marks + 1
  /\ occupation' = [occupation EXCEPT ![i] = 2]
  /\ entries' = [entries EXCEPT ![i] = NoEntry]

\* Where k goes when the keys of the slots in DOMAIN before are in the new table already.
CleanSlot(before, k) ==
  Hop(k, FirstOf({n \in MapSlot : \A j \in DOMAIN before : before[j] # Hop(k, n)}))

\* The i-th slot of the old table is looked at, and its key inserted behind those before.
Inserted(before, i) ==
  IF occupation[i - 1] # 1 THEN before
  ELSE [j \in DOMAIN before \cup {i - 1} |->
          IF j = i - 1 THEN CleanSlot(before, entries[i - 1].key) ELSE before[j]]

Cleaned[i \in 0 .. MapCapacity] ==
  IF i = 0 THEN [j \in {} |-> 0] ELSE Inserted(Cleaned[i - 1], i)

\* The slots in the new table of the keys in the old one.
CleanSlots == Cleaned[MapCapacity]

\* cleanup: an empty map is reset.
CleanUp ==
  LET slots == CleanSlots
      at(i) == {j \in DOMAIN slots : slots[j] = i}
  IN
  /\ marks # 0
  /\ marks' = 0
  /\ entries' = [i \in MapSlot |-> IF at(i) = {} THEN NoEntry
                                   ELSE entries[CHOOSE j \in at(i) : TRUE]]
  /\ occupation' = [i \in MapSlot |-> IF at(i) = {} THEN 0 ELSE 1]
  /\ UNCHANGED mapPopulation

\* Callers clean up when the marks exceed half of the map (cleanupIfNeeded).
HashMapNext ==
  \/ \E k \in MapKey, v \in MapValue : Set(k, v)
  \/ \E i \in MapSlot : marks < MapCapacity /\ RemoveByIndex(i)
  \/ CleanUp

HashMapSpec == HashMapInit /\ [][HashMapNext]_hashMapVars

\* nextElementIndex: the iteration over the map begins with NullSlot.
NextElementIndex(i) ==
  LET later == {j \in MapSlot : j > i /\ occupation[j] = 1} IN
  IF later = {} THEN NullSlot ELSE FirstOf(later)

HashMapTypeOK ==
  /\ entries \in [MapSlot -> [key : MapKey \cup {NoKey}, value : MapValue \cup {NoKey}]]
  /\ occupation \in [MapSlot -> 0 .. 2]
  /\ mapPopulation \in 0 .. MapCapacity
  /\ marks \in 0 .. MapCapacity

Content ==
  LET index == [k \in MapKey |-> GetElementIndex(k)] IN
  [k \in {j \in MapKey : index[j] # NullSlot} |-> entries[index[k]].value]

Map == INSTANCE PartialMap WITH MaxKeys <- MapCapacity, content <- Content

\* Whatever was removed, reused and cleaned up before, the map is a map: every set and
\* remove changes one key, a cleanup none, and a full map still takes known keys.
ImplementsMap == Map!MapInit /\ [][UNCHANGED hashMapVars \/ Map!MapNext]_Content

\* An iteration by index meets each key that a search finds, and the population counts
\* them: no key is in the table twice.
KeysOnce ==
  /\ mapPopulation = Cardinality(DOMAIN Content)
  /\ {i \in MapSlot : occupation[i] = 1} = {GetElementIndex(k) : k \in DOMAIN Content}

-----------------------------------------------------------------------------
(* The inductive invariant of the proofs.                                   *)

Occupied == {i \in MapSlot : occupation[i] = 1}

\* A search for the key in an occupied slot gets to the slot: no slot before it is empty.
KeysReached ==
  \A i \in Occupied :
    /\ entries[i].key \in MapKey
    /\ \E n \in MapSlot :
         /\ Hop(entries[i].key, n) = i
         /\ \A m \in 0 .. n - 1 : occupation[Hop(entries[i].key, m)] # 0

KeysDistinct == \A i, j \in Occupied : entries[i].key = entries[j].key => i = j

HashMapInv ==
  /\ HashMapTypeOK
  /\ KeysReached
  /\ KeysDistinct
  /\ mapPopulation = Cardinality(Occupied)
===============================================================================

----------------------------- MODULE TablesProofs -----------------------------
(***************************************************************************)
(* Proofs about three tables of a node.  The hash table of open addressing *)
(* implements a partial map, whatever was removed, set again and cleaned   *)
(* up before.  The pool of pending transactions keeps for every tick of    *)
(* its window those of highest priority.  The miners are ranked by their   *)
(* good solutions, the best of them get the seats of the next epoch and    *)
(* the computors of this node lose no deposit.                             *)
(***************************************************************************)
EXTENDS HashMap, PendingTxsPool, MinerRanking, SumTheorems, FunctionTheorems, SequenceTheorems, TLAPS

-----------------------------------------------------------------------------
(* Least numbers.                                                          *)

\* FirstOf(S) is the least number of S.
LEMMA FirstOfLeast ==
  ASSUME NEW S, S \subseteq Nat, S # {}
  PROVE  /\ FirstOf(S) \in S
         /\ \A n \in S : FirstOf(S) <= n
<1>1. \E n \in S : \A j \in S : n <= j
  BY LeastNumber
<1> QED
  BY <1>1 DEF FirstOf

-----------------------------------------------------------------------------
(* Searches.                                                               *)

\* The slots that a search looks at are slots of the table, and it looks at each once.
LEMMA Hops ==
  ASSUME NEW k \in MapKey
  PROVE  /\ \A n \in MapSlot : Hop(k, n) \in MapSlot
         /\ \A i \in MapSlot : \E n \in MapSlot : Hop(k, n) = i
         /\ \A m, n \in MapSlot : Hop(k, m) = Hop(k, n) => m = n
<1> DEFINE home == KeyHome[k]
<1>1. /\ MapCapacity \in Nat \ {0}
      /\ home \in 0 .. MapCapacity - 1
  BY HashMapAssumption
<1>2. \A n \in MapSlot : Hop(k, n) = IF home + n < MapCapacity THEN home + n
                                     ELSE home + n - MapCapacity
  <2> SUFFICES ASSUME NEW n \in MapSlot
      PROVE  Hop(k, n) = IF home + n < MapCapacity THEN home + n ELSE home + n - MapCapacity
    OBVIOUS
  <2> HIDE DEF home
  <2>1. home \in Int /\ n \in Int /\ 0 <= home + n /\ home + n < 2 * MapCapacity
    BY <1>1 DEF MapSlot
  <2>2. \A x \in Int : 0 <= x /\ x < MapCapacity => x % MapCapacity = x
    BY <1>1
  <2>3. \A x \in Int : MapCapacity <= x /\ x < 2 * MapCapacity => x % MapCapacity = x - MapCapacity
    BY <1>1
  <2>4. Hop(k, n) = (home + n) % MapCapacity
    BY DEF Hop, home
  <2> QED
    BY <1>1, <2>1, <2>2, <2>3, <2>4
<1> HIDE DEF home
<1>3. ASSUME NEW n \in MapSlot PROVE Hop(k, n) \in MapSlot
  BY <1>1, <1>2 DEF MapSlot
<1>4. ASSUME NEW i \in MapSlot PROVE \E n \in MapSlot : Hop(k, n) = i
  <2>1. CASE i >= home
    <3>1. i - home \in MapSlot /\ home + (i - home) < MapCapacity /\ home + (i - home) = i
      BY <1>1, <2>1 DEF MapSlot
    <3> QED
      BY <1>2, <3>1
  <2>2. CASE i < home
    <3>1. /\ i - home + MapCapacity \in MapSlot
          /\ ~(home + (i - home + MapCapacity) < MapCapacity)
          /\ home + (i - home + MapCapacity) - MapCapacity = i
      BY <1>1, <2>2 DEF MapSlot
    <3> QED
      BY <1>2, <3>1
  <2> QED
    BY <1>1, <2>1, <2>2 DEF MapSlot
<1>5. ASSUME NEW m \in MapSlot, NEW n \in MapSlot, Hop(k, m) = Hop(k, n) PROVE m = n
  BY <1>1, <1>2, <1>5 DEF MapSlot
<1> QED
  BY <1>3, <1>4, <1>5

\* Span(k) is the number of slots before the first empty one.
LEMMA SpanIs ==
  ASSUME NEW k \in MapKey
  PROVE  /\ Span(k) \in 0 .. MapCapacity
         /\ \A n \in 0 .. Span(k) - 1 : n \in MapSlot /\ occupation[Hop(k, n)] # 0
         /\ Span(k) < MapCapacity => Span(k) \in MapSlot /\ occupation[Hop(k, Span(k))] = 0
<1> DEFINE empty == {n \in MapSlot : occupation[Hop(k, n)] = 0}
<1>1. MapCapacity \in Nat \ {0}
  BY HashMapAssumption
<1>2. Span(k) = IF empty = {} THEN MapCapacity ELSE FirstOf(empty)
  BY DEF Span
<1>3. CASE empty = {}
  <2>1. Span(k) = MapCapacity
    BY <1>2, <1>3
  <2>2. \A n \in 0 .. MapCapacity - 1 : n \in MapSlot /\ occupation[Hop(k, n)] # 0
    BY <1>3 DEF MapSlot
  <2> QED
    BY <1>1, <2>1, <2>2
<1>4. CASE empty # {}
  <2>1. empty \subseteq Nat
    BY DEF MapSlot
  <2>2. Span(k) \in empty /\ \A n \in empty : Span(k) <= n
    <3> HIDE DEF empty
    <3> QED
      BY <1>2, <1>4, <2>1, FirstOfLeast
  <2>3. Span(k) \in 0 .. MapCapacity - 1 /\ occupation[Hop(k, Span(k))] = 0
    BY <2>2 DEF MapSlot
  <2>4. ASSUME NEW n \in 0 .. Span(k) - 1 PROVE n \in MapSlot /\ occupation[Hop(k, n)] # 0
    <3>1. n \in MapSlot /\ ~(Span(k) <= n)
      BY <1>1, <2>3 DEF MapSlot
    <3> QED
      BY <2>2, <3>1
  <2> QED
    BY <1>1, <2>3, <2>4 DEF MapSlot
<1> QED
  BY <1>3, <1>4

\* A search finds a slot with the key, if there is one.
LEMMA SearchFinds ==
  ASSUME HashMapInv, NEW k \in MapKey
  PROVE  \/ /\ GetElementIndex(k) = NullSlot
            /\ \A i \in Occupied : entries[i].key # k
         \/ /\ GetElementIndex(k) # NullSlot
            /\ GetElementIndex(k) \in Occupied
            /\ entries[GetElementIndex(k)].key = k
<1>1. MapCapacity \in Nat \ {0}
  BY HashMapAssumption
<1>2. Hits(k) \subseteq MapSlot /\ MapSlot \subseteq Nat
  BY SpanIs DEF Hits, MapSlot
<1>3. \A n \in Hits(k) : Hop(k, n) \in Occupied /\ entries[Hop(k, n)].key = k
  BY <1>2, Hops DEF Hits, Occupied
<1>4. ASSUME Hits(k) = {}, NEW i \in Occupied, entries[i].key = k PROVE FALSE
  <2>1. PICK n \in MapSlot : Hop(k, n) = i /\ \A m \in 0 .. n - 1 : occupation[Hop(k, m)] # 0
    BY <1>4 DEF HashMapInv, KeysReached
  <2>2. occupation[Hop(k, n)] = 1 /\ entries[Hop(k, n)].key = k
    BY <1>4, <2>1 DEF Occupied
  <2>3. n < Span(k)
    <3>1. SUFFICES ASSUME Span(k) <= n PROVE FALSE
      BY <1>1, SpanIs DEF MapSlot
    <3>2. Span(k) < MapCapacity /\ (Span(k) = n \/ Span(k) \in 0 .. n - 1)
      BY <1>1, <3>1, SpanIs DEF MapSlot
    <3>3. occupation[Hop(k, Span(k))] = 0
      BY <3>2, SpanIs
    <3> QED
      BY <2>1, <2>2, <3>2, <3>3
  <2>4. n \in 0 .. Span(k) - 1
    BY <1>1, <2>3, SpanIs DEF MapSlot
  <2> QED
    BY <1>4, <2>2, <2>4 DEF Hits
<1>5. CASE Hits(k) = {}
  BY <1>4, <1>5 DEF GetElementIndex
<1>6. CASE Hits(k) # {}
  <2>1. FirstOf(Hits(k)) \in Hits(k)
    BY <1>2, <1>6, FirstOfLeast
  <2>2. GetElementIndex(k) = Hop(k, FirstOf(Hits(k)))
    BY <1>6 DEF GetElementIndex
  <2>3. GetElementIndex(k) \in MapSlot
    BY <1>2, <2>1, <2>2, Hops
  <2> QED
    BY <1>3, <2>1, <2>2, <2>3 DEF MapSlot, NullSlot
<1> QED
  BY <1>5, <1>6

\* The slot for a new key is free, and no slot before it is empty.
LEMMA FreeSlotIs ==
  ASSUME NEW k \in MapKey, FreeSlot(k) # NullSlot
  PROVE  /\ FreeSlot(k) \in MapSlot
         /\ occupation[FreeSlot(k)] # 1
         /\ \E n \in MapSlot : /\ Hop(k, n) = FreeSlot(k)
                               /\ \A m \in 0 .. n - 1 : occupation[Hop(k, m)] # 0
<1>1. CASE Marked(k) # {}
  <2>1. Marked(k) \subseteq MapSlot /\ MapSlot \subseteq Nat
    BY SpanIs DEF Marked, MapSlot
  <2>2. FirstOf(Marked(k)) \in Marked(k)
    BY <1>1, <2>1, FirstOfLeast
  <2> DEFINE n == FirstOf(Marked(k))
  <2>3. n \in MapSlot /\ n \in 0 .. Span(k) - 1 /\ occupation[Hop(k, n)] = 2
    BY <2>1, <2>2 DEF Marked
  <2>4. FreeSlot(k) = Hop(k, n)
    BY <1>1 DEF FreeSlot
  <2> HIDE DEF n
  <2>5. \A m \in 0 .. n - 1 : occupation[Hop(k, m)] # 0
    <3>1. \A m \in 0 .. n - 1 : m \in 0 .. Span(k) - 1
      BY <2>3, SpanIs, HashMapAssumption DEF MapSlot
    <3> QED
      BY <3>1, SpanIs
  <2> QED
    BY <2>3, <2>4, <2>5, Hops
<1>2. CASE Marked(k) = {}
  <2>1. Span(k) < MapCapacity /\ FreeSlot(k) = Hop(k, Span(k))
    BY <1>2 DEF FreeSlot
  <2> QED
    BY <2>1, SpanIs, Hops
<1> QED
  BY <1>1, <1>2

-----------------------------------------------------------------------------
(* The content of the table.                                               *)

\* The map has the keys of the occupied slots, with the values beside them.
ContentOK ==
  /\ DOMAIN Content = {entries[i].key : i \in Occupied}
  /\ \A i \in Occupied : Content[entries[i].key] = entries[i].value
  /\ Content = [k \in DOMAIN Content |-> Content[k]]

\* What searches find is what is in the table.
LEMMA ContentFound == HashMapInv => ContentOK
<1> SUFFICES ASSUME HashMapInv PROVE ContentOK
  OBVIOUS
<1> DEFINE index == [k \in MapKey |-> GetElementIndex(k)]
           keys  == {j \in MapKey : index[j] # NullSlot}
<1>1. Content = [k \in keys |-> entries[index[k]].value]
  BY DEF Content
<1>2. \A k \in MapKey : index[k] = GetElementIndex(k)
  OBVIOUS
<1> HIDE DEF index
<1>3. ASSUME NEW i \in Occupied
      PROVE  entries[i].key \in keys /\ index[entries[i].key] = i
  <2>1. entries[i].key \in MapKey
    BY DEF HashMapInv, KeysReached
  <2>2. /\ GetElementIndex(entries[i].key) # NullSlot
        /\ GetElementIndex(entries[i].key) \in Occupied
        /\ entries[GetElementIndex(entries[i].key)].key = entries[i].key
    BY <2>1, SearchFinds
  <2>3. GetElementIndex(entries[i].key) = i
    BY <2>2 DEF HashMapInv, KeysDistinct
  <2> QED
    BY <1>2, <2>1, <2>2, <2>3
<1>4. ASSUME NEW k \in keys PROVE \E i \in Occupied : k = entries[i].key
  BY <1>2, <1>4, SearchFinds
<1>5. DOMAIN Content = keys
  BY <1>1
<1>6. keys = {entries[i].key : i \in Occupied}
  BY <1>3, <1>4
<1>7. \A i \in Occupied : Content[entries[i].key] = entries[i].value
  BY <1>1, <1>3
<1>8. Content = [k \in DOMAIN Content |-> Content[k]]
  BY <1>1
<1> QED
  BY <1>5, <1>6, <1>7, <1>8 DEF ContentOK

\* The same after a step.
LEMMA ContentFoundNext == HashMapInv' => ContentOK'
BY ContentFound, PTL

\* The population is the number of keys.
LEMMA KeysCounted ==
  ASSUME HashMapInv
  PROVE  IsFiniteSet(DOMAIN Content) /\ Cardinality(DOMAIN Content) = mapPopulation
<1> DEFINE f == [i \in Occupied |-> entries[i].key]
<1>1. IsFiniteSet(MapSlot) /\ Occupied \subseteq MapSlot
  BY HashMapAssumption, FS_Interval DEF MapSlot, Occupied
<1>2. IsFiniteSet(Occupied)
  BY <1>1, FS_Subset
<1>3. DOMAIN Content = {entries[i].key : i \in Occupied}
  BY ContentFound DEF ContentOK
<1>4. f \in Bijection(Occupied, DOMAIN Content)
  <2>1. f \in [Occupied -> DOMAIN Content]
    BY <1>3
  <2>2. \A i, j \in Occupied : f[i] = f[j] => i = j
    BY DEF HashMapInv, KeysDistinct
  <2>3. \A k \in DOMAIN Content : \E i \in Occupied : f[i] = k
    BY <1>3
  <2> HIDE DEF f
  <2> QED
    BY <2>1, <2>2, <2>3 DEF Bijection, Injection, Surjection, IsInjective
<1>5. ExistsBijection(Occupied, DOMAIN Content)
  BY <1>4 DEF ExistsBijection
<1> QED
  BY <1>2, <1>5, FS_Bijection DEF HashMapInv

-----------------------------------------------------------------------------
(* Set and remove.                                                         *)

\* A new key at a free slot is reached by its search, and the others still are.
LEMMA KeyAdded ==
  ASSUME HashMapInv, NEW k \in MapKey, NEW v \in MapValue, NEW i \in MapSlot,
         \A j \in Occupied : entries[j].key # k,
         occupation[i] # 1,
         \E n \in MapSlot : Hop(k, n) = i /\ \A m \in 0 .. n - 1 : occupation[Hop(k, m)] # 0,
         Assigned(k, v, i)
  PROVE  /\ Occupied' = Occupied \cup {i} /\ i \notin Occupied
         /\ KeysReached' /\ KeysDistinct'
<1>1. /\ entries \in [MapSlot -> [key : MapKey \cup {NoKey}, value : MapValue \cup {NoKey}]]
      /\ occupation \in [MapSlot -> 0 .. 2]
  BY DEF HashMapInv, HashMapTypeOK
<1>2. /\ entries' = [entries EXCEPT ![i] = [key |-> k, value |-> v]]
      /\ occupation' = [occupation EXCEPT ![i] = 1]
  BY DEF Assigned
<1>3. Occupied' = Occupied \cup {i} /\ i \notin Occupied
  BY <1>1, <1>2 DEF Occupied
<1>4. /\ entries'[i].key = k
      /\ \A j \in Occupied : entries'[j].key = entries[j].key
  BY <1>1, <1>2, <1>3 DEF Occupied
<1>5. \A key \in MapKey, m \in MapSlot : occupation[Hop(key, m)] # 0 => occupation'[Hop(key, m)] # 0
  BY <1>1, <1>2, Hops
<1>6. \A n \in MapSlot : 0 .. n - 1 \subseteq MapSlot
  BY HashMapAssumption DEF MapSlot
<1>7. ASSUME NEW key \in MapKey, NEW n \in MapSlot,
             \A m \in 0 .. n - 1 : occupation[Hop(key, m)] # 0
      PROVE  \A m \in 0 .. n - 1 : occupation'[Hop(key, m)] # 0
  BY <1>5, <1>6, <1>7
<1>8. ASSUME NEW j \in Occupied'
      PROVE  /\ entries'[j].key \in MapKey
             /\ \E n \in MapSlot : /\ Hop(entries'[j].key, n) = j
                                   /\ \A m \in 0 .. n - 1 : occupation'[Hop(entries'[j].key, m)] # 0
  <2>1. CASE j = i
    <3>1. PICK n \in MapSlot : Hop(k, n) = i /\ \A m \in 0 .. n - 1 : occupation[Hop(k, m)] # 0
      OBVIOUS
    <3> QED
      BY <1>4, <1>7, <2>1, <3>1
  <2>2. CASE j \in Occupied
    <3>1. /\ entries[j].key \in MapKey
          /\ \E n \in MapSlot : /\ Hop(entries[j].key, n) = j
                                /\ \A m \in 0 .. n - 1 : occupation[Hop(entries[j].key, m)] # 0
      BY <2>2 DEF HashMapInv, KeysReached
    <3> QED
      BY <1>4, <1>7, <2>2, <3>1
  <2> QED
    BY <1>3, <2>1, <2>2
<1>9. KeysReached'
  BY <1>8 DEF KeysReached, Hop
<1>10. KeysDistinct'
  BY <1>3, <1>4 DEF KeysDistinct, HashMapInv
<1> QED
  BY <1>3, <1>9, <1>10

\* Set keeps the invariant.
LEMMA SetInv ==
  ASSUME HashMapInv, NEW k \in MapKey, NEW v \in MapValue, Set(k, v)
  PROVE  HashMapInv'
<1>1. MapCapacity \in Nat \ {0} /\ IsFiniteSet(MapSlot) /\ Cardinality(MapSlot) = MapCapacity
  BY HashMapAssumption, FS_Interval DEF MapSlot
<1>2. /\ entries \in [MapSlot -> [key : MapKey \cup {NoKey}, value : MapValue \cup {NoKey}]]
      /\ occupation \in [MapSlot -> 0 .. 2]
      /\ mapPopulation \in 0 .. MapCapacity /\ marks \in 0 .. MapCapacity
  BY DEF HashMapInv, HashMapTypeOK
<1>3. \A i \in MapSlot : Assigned(k, v, i) =>
        /\ entries' \in [MapSlot -> [key : MapKey \cup {NoKey}, value : MapValue \cup {NoKey}]]
        /\ occupation' \in [MapSlot -> 0 .. 2]
  BY <1>2 DEF Assigned
<1>4. CASE GetElementIndex(k) # NullSlot
  <2> DEFINE i == GetElementIndex(k)
  <2>1. i \in Occupied /\ entries[i].key = k
    BY <1>4, SearchFinds
  <2>2. Assigned(k, v, i) /\ mapPopulation' = mapPopulation /\ marks' = marks
    BY <1>4 DEF Set
  <2> HIDE DEF i
  <2>3. /\ entries' = [entries EXCEPT ![i] = [key |-> k, value |-> v]]
        /\ occupation' = occupation
    BY <1>2, <2>1, <2>2 DEF Assigned, Occupied
  <2>4. Occupied' = Occupied /\ \A j \in Occupied : entries'[j].key = entries[j].key
    BY <1>2, <2>1, <2>3 DEF Occupied
  <2>5. KeysReached'
    BY <2>3, <2>4 DEF HashMapInv, KeysReached, Hop
  <2>6. KeysDistinct'
    BY <2>4 DEF HashMapInv, KeysDistinct
  <2>7. HashMapTypeOK'
    BY <1>2, <1>3, <2>1, <2>2 DEF HashMapTypeOK, Occupied
  <2> QED
    BY <2>2, <2>4, <2>5, <2>6, <2>7 DEF HashMapInv
<1>5. CASE GetElementIndex(k) = NullSlot
  <2> DEFINE i == FreeSlot(k)
  <2>1. /\ mapPopulation < MapCapacity /\ i # NullSlot
        /\ Assigned(k, v, i) /\ mapPopulation' = mapPopulation + 1 /\ marks' = marks
    BY <1>5 DEF Set
  <2>2. \A j \in Occupied : entries[j].key # k
    BY <1>5, SearchFinds
  <2>3. /\ i \in MapSlot /\ occupation[i] # 1
        /\ \E n \in MapSlot : Hop(k, n) = i /\ \A m \in 0 .. n - 1 : occupation[Hop(k, m)] # 0
    BY <2>1, FreeSlotIs
  <2> HIDE DEF i
  <2>4. /\ Occupied' = Occupied \cup {i} /\ i \notin Occupied
        /\ KeysReached' /\ KeysDistinct'
    BY <2>1, <2>2, <2>3, KeyAdded
  <2>5. IsFiniteSet(Occupied)
    BY <1>1, FS_Subset DEF Occupied
  <2>6. mapPopulation' = Cardinality(Occupied')
    BY <2>1, <2>4, <2>5, FS_AddElement DEF HashMapInv
  <2>7. HashMapTypeOK'
    BY <1>1, <1>2, <1>3, <2>1, <2>3 DEF HashMapTypeOK
  <2> QED
    BY <2>4, <2>6, <2>7 DEF HashMapInv
<1> QED
  BY <1>4, <1>5

\* Set changes the map at one key, which is in the map or finds room in it.
LEMMA SetAssigns ==
  ASSUME HashMapInv, HashMapInv', NEW k \in MapKey, NEW v \in MapValue, Set(k, v)
  PROVE  Map!Assign(k, v)
<1>1. /\ entries \in [MapSlot -> [key : MapKey \cup {NoKey}, value : MapValue \cup {NoKey}]]
      /\ occupation \in [MapSlot -> 0 .. 2]
  BY DEF HashMapInv, HashMapTypeOK
<1>2. ContentOK /\ ContentOK'
  BY ContentFound, ContentFoundNext
<1>3. PICK i \in MapSlot :
        /\ Assigned(k, v, i)
        /\ \/ i \in Occupied /\ entries[i].key = k
           \/ /\ occupation[i] # 1 /\ mapPopulation < MapCapacity
              /\ \A j \in Occupied : entries[j].key # k
  <2>1. CASE GetElementIndex(k) # NullSlot
    BY <2>1, SearchFinds DEF Set, Occupied
  <2>2. CASE GetElementIndex(k) = NullSlot
    BY <2>2, SearchFinds, FreeSlotIs DEF Set
  <2> QED
    BY <2>1, <2>2
<1>4. /\ entries' = [entries EXCEPT ![i] = [key |-> k, value |-> v]]
      /\ occupation' = [occupation EXCEPT ![i] = 1]
  BY <1>3 DEF Assigned
<1>5. /\ Occupied' = Occupied \cup {i}
      /\ entries'[i].key = k /\ entries'[i].value = v
      /\ \A j \in Occupied \ {i} : entries'[j] = entries[j] /\ entries[j].key # k
  <2>1. Occupied' = Occupied \cup {i}
    BY <1>1, <1>4 DEF Occupied
  <2>2. \A j \in Occupied \ {i} : entries'[j] = entries[j]
    BY <1>1, <1>4 DEF Occupied
  <2>3. entries'[i].key = k /\ entries'[i].value = v
    BY <1>1, <1>4
  <2>4. \A j \in Occupied \ {i} : entries[j].key # k
    BY <1>3 DEF HashMapInv, KeysDistinct
  <2> QED
    BY <2>1, <2>2, <2>3, <2>4
<1>6. DOMAIN Content' = DOMAIN Content \cup {k}
  <2>1. \A j \in Occupied : entries'[j].key = entries[j].key
    BY <1>3, <1>5 DEF Occupied
  <2>2. DOMAIN Content' = {entries'[j].key : j \in Occupied'}
    BY <1>2 DEF ContentOK
  <2>3. DOMAIN Content = {entries[j].key : j \in Occupied}
    BY <1>2 DEF ContentOK
  <2> QED
    BY <1>5, <2>1, <2>2, <2>3
<1>7. Content'[k] = v
  BY <1>2, <1>5 DEF ContentOK
<1>8. ASSUME NEW j \in DOMAIN Content, j # k PROVE Content'[j] = Content[j]
  <2>1. PICK s \in Occupied : entries[s].key = j
    BY <1>2, <1>8 DEF ContentOK
  <2>2. s \in Occupied' /\ entries'[s] = entries[s]
    <3>1. s # i
      BY <1>3, <1>8, <2>1 DEF Occupied
    <3> QED
      BY <1>5, <2>1, <3>1
  <2>3. Content[j] = entries[s].value
    BY <1>2, <2>1 DEF ContentOK
  <2>4. Content'[entries'[s].key] = entries'[s].value
    BY <1>2, <2>2 DEF ContentOK
  <2> QED
    BY <2>1, <2>2, <2>3, <2>4
<1>9. Content' = [j \in DOMAIN Content \cup {k} |-> IF j = k THEN v ELSE Content[j]]
  <2>1. Content' = [j \in DOMAIN Content' |-> Content'[j]]
    BY <1>2 DEF ContentOK
  <2> QED
    BY <1>6, <1>7, <1>8, <2>1
<1>10. k \in DOMAIN Content \/ Cardinality(DOMAIN Content) < MapCapacity
  <2>1. CASE i \in Occupied /\ entries[i].key = k
    BY <1>2, <2>1 DEF ContentOK
  <2>2. CASE mapPopulation < MapCapacity
    BY <2>2, KeysCounted
  <2> QED
    BY <1>3, <2>1, <2>2
<1>11. Map!Cardinality(DOMAIN Content) = Cardinality(DOMAIN Content)
  BY DEF Map!Cardinality, Cardinality
<1> QED
  BY <1>9, <1>10, <1>11 DEF Map!Assign

\* A removed key leaves a mark that searches go past, and the other keys where they are.
LEMMA RemoveInv ==
  ASSUME HashMapInv, NEW i \in MapSlot, marks < MapCapacity, RemoveByIndex(i)
  PROVE  /\ HashMapInv'
         /\ i \in Occupied /\ Occupied' = Occupied \ {i}
         /\ \A j \in Occupied \ {i} : entries'[j] = entries[j]
<1>1. MapCapacity \in Nat \ {0} /\ IsFiniteSet(MapSlot)
  BY HashMapAssumption, FS_Interval DEF MapSlot
<1>2. /\ entries \in [MapSlot -> [key : MapKey \cup {NoKey}, value : MapValue \cup {NoKey}]]
      /\ occupation \in [MapSlot -> 0 .. 2]
      /\ mapPopulation \in 0 .. MapCapacity /\ marks \in 0 .. MapCapacity
  BY DEF HashMapInv, HashMapTypeOK
<1>3. /\ occupation[i] = 1
      /\ entries' = [entries EXCEPT ![i] = NoEntry]
      /\ occupation' = [occupation EXCEPT ![i] = 2]
      /\ mapPopulation' = mapPopulation - 1 /\ marks' = marks + 1
  BY DEF RemoveByIndex
<1>4. /\ i \in Occupied /\ Occupied' = Occupied \ {i}
      /\ \A j \in Occupied \ {i} : entries'[j] = entries[j]
  BY <1>2, <1>3 DEF Occupied
<1>5. \A k \in MapKey, m \in MapSlot : occupation[Hop(k, m)] # 0 => occupation'[Hop(k, m)] # 0
  BY <1>2, <1>3, Hops
<1>6. ASSUME NEW j \in Occupied'
      PROVE  /\ entries'[j].key \in MapKey
             /\ \E n \in MapSlot : /\ Hop(entries'[j].key, n) = j
                                   /\ \A m \in 0 .. n - 1 : occupation'[Hop(entries'[j].key, m)] # 0
  <2>1. /\ entries[j].key \in MapKey
        /\ \E n \in MapSlot : /\ Hop(entries[j].key, n) = j
                              /\ \A m \in 0 .. n - 1 : occupation[Hop(entries[j].key, m)] # 0
    BY <1>4 DEF HashMapInv, KeysReached
  <2>2. \A n \in MapSlot : 0 .. n - 1 \subseteq MapSlot
    BY <1>1 DEF MapSlot
  <2> QED
    BY <1>4, <1>5, <2>1, <2>2
<1>7. KeysReached'
  BY <1>6 DEF KeysReached, Hop
<1>8. KeysDistinct'
  BY <1>4 DEF HashMapInv, KeysDistinct
<1>9. IsFiniteSet(Occupied)
  BY <1>1, FS_Subset DEF Occupied
<1>10. mapPopulation' = Cardinality(Occupied') /\ mapPopulation' \in Nat
  <2>1. Cardinality(Occupied') = Cardinality(Occupied) - 1
    BY <1>4, <1>9, FS_RemoveElement
  <2>2. Cardinality(Occupied') \in Nat
    BY <1>4, <1>9, FS_RemoveElement, FS_CardinalityType
  <2> QED
    BY <1>3, <2>1, <2>2 DEF HashMapInv
<1>11. NoEntry \in [key : MapKey \cup {NoKey}, value : MapValue \cup {NoKey}]
  BY DEF NoEntry
<1>12. HashMapTypeOK'
  <2>1. entries' \in [MapSlot -> [key : MapKey \cup {NoKey}, value : MapValue \cup {NoKey}]]
    BY <1>2, <1>3, <1>11
  <2>2. occupation' \in [MapSlot -> 0 .. 2]
    BY <1>2, <1>3
  <2>3. mapPopulation' \in 0 .. MapCapacity /\ marks' \in 0 .. MapCapacity
    BY <1>1, <1>2, <1>3, <1>10
  <2> QED
    BY <2>1, <2>2, <2>3 DEF HashMapTypeOK
<1> QED
  BY <1>4, <1>7, <1>8, <1>10, <1>12 DEF HashMapInv

\* Remove deletes one key from the map.
LEMMA RemoveDeletes ==
  ASSUME HashMapInv, HashMapInv', NEW i \in MapSlot, marks < MapCapacity, RemoveByIndex(i)
  PROVE  \E k \in MapKey : Map!Delete(k)
<1> DEFINE k == entries[i].key
<1>1. /\ i \in Occupied /\ Occupied' = Occupied \ {i}
      /\ \A j \in Occupied \ {i} : entries'[j] = entries[j]
  BY RemoveInv
<1>2. ContentOK /\ ContentOK'
  BY ContentFound, ContentFoundNext
<1>3. k \in MapKey /\ k \in DOMAIN Content
  BY <1>1, <1>2 DEF HashMapInv, KeysReached, ContentOK
<1>4. \A j \in Occupied \ {i} : entries[j].key # k
  BY <1>1 DEF HashMapInv, KeysDistinct
<1>5. DOMAIN Content' = DOMAIN Content \ {k}
  <2>1. DOMAIN Content' = {entries'[j].key : j \in Occupied'}
    BY <1>2 DEF ContentOK
  <2>2. DOMAIN Content = {entries[j].key : j \in Occupied}
    BY <1>2 DEF ContentOK
  <2> QED
    BY <1>1, <1>4, <2>1, <2>2
<1> HIDE DEF k
<1>6. ASSUME NEW j \in DOMAIN Content, j # k PROVE Content'[j] = Content[j]
  <2>1. PICK s \in Occupied : entries[s].key = j
    BY <1>2, <1>6 DEF ContentOK
  <2>2. s \in Occupied' /\ entries'[s] = entries[s]
    BY <1>1, <1>6, <2>1 DEF k
  <2>3. Content[j] = entries[s].value
    BY <1>2, <2>1 DEF ContentOK
  <2>4. Content'[entries'[s].key] = entries'[s].value
    BY <1>2, <2>2 DEF ContentOK
  <2> QED
    BY <2>1, <2>2, <2>3, <2>4
<1>7. Content' = [j \in DOMAIN Content \ {k} |-> Content[j]]
  <2>1. Content' = [j \in DOMAIN Content' |-> Content'[j]]
    BY <1>2 DEF ContentOK
  <2> QED
    BY <1>5, <1>6, <2>1
<1> QED
  BY <1>3, <1>7 DEF Map!Delete

-----------------------------------------------------------------------------
(* The cleanup.                                                            *)

NoSlots == [j \in {} |-> 0]

\* The recursive definition of Cleaned defines a function.
LEMMA CleanedIs ==
  Cleaned = [i \in 0 .. MapCapacity |-> IF i = 0 THEN NoSlots ELSE Inserted(Cleaned[i - 1], i)]
<1> DEFINE Defines(g, n) == g = [i \in 0 .. n |-> IF i = 0 THEN NoSlots ELSE Inserted(g[i - 1], i)]
           S == {n \in 0 .. MapCapacity : \E g : Defines(g, n)}
<1>1. MapCapacity \in Nat
  BY HashMapAssumption
<1>2. 0 \in S
  <2> DEFINE g == [i \in 0 .. 0 |-> NoSlots]
  <2>1. Defines(g, 0)
    OBVIOUS
  <2> HIDE DEF g, Defines
  <2> QED
    BY <1>1, <2>1
<1>3. ASSUME NEW n \in 1 .. MapCapacity, n - 1 \in S PROVE n \in S
  <2>1. PICK g : Defines(g, n - 1)
    BY <1>3
  <2> DEFINE h == [i \in 0 .. n |-> IF i = n THEN Inserted(g[n - 1], n) ELSE g[i]]
  <2>2. \A i \in 0 .. n : h[i] = IF i = 0 THEN NoSlots ELSE Inserted(h[i - 1], i)
    <3> SUFFICES ASSUME NEW i \in 0 .. n
        PROVE h[i] = IF i = 0 THEN NoSlots ELSE Inserted(h[i - 1], i)
      OBVIOUS
    <3>1. CASE i = n
      <4>1. h[n] = Inserted(g[n - 1], n) /\ h[n - 1] = g[n - 1] /\ n # 0
        BY <1>1
      <4> HIDE DEF h
      <4> QED
        BY <3>1, <4>1
    <3>2. CASE i # n
      <4>1. i \in 0 .. n - 1
        BY <1>1, <3>2
      <4>2. h[i] = g[i] /\ (i # 0 => h[i - 1] = g[i - 1])
        BY <1>1, <3>2
      <4>3. g[i] = IF i = 0 THEN NoSlots ELSE Inserted(g[i - 1], i)
        BY <2>1, <4>1
      <4> HIDE DEF h
      <4> QED
        BY <4>2, <4>3
    <3> QED
      BY <3>1, <3>2
  <2>3. Defines(h, n)
    <3>1. h = [i \in 0 .. n |-> h[i]]
      OBVIOUS
    <3> HIDE DEF h
    <3> QED
      BY <2>2, <3>1
  <2>4. n \in 0 .. MapCapacity
    BY <1>1
  <2> HIDE DEF h, Defines
  <2> QED
    BY <2>3, <2>4
<1>4. 0 .. MapCapacity \subseteq S
  <2> HIDE DEF S
  <2> QED
    BY <1>1, <1>2, <1>3, BoundedInduction
<1>5. \E g : Defines(g, MapCapacity)
  BY <1>1, <1>4
<1> QED
  BY <1>5 DEF Cleaned, NoSlots

\* The occupied slots that were looked at.
UsedBelow(i) == {j \in Occupied : j < i}

\* The new slots f of the first i old ones are different, and a search for a key reaches its slot
\* past slots in use.
Placed(f, i) ==
  /\ f \in [UsedBelow(i) -> MapSlot]
  /\ \A j, l \in UsedBelow(i) : f[j] = f[l] => j = l
  /\ \A j \in UsedBelow(i) :
       \E n \in MapSlot :
         /\ Hop(entries[j].key, n) = f[j]
         /\ \A m \in 0 .. n - 1 : \E l \in UsedBelow(i) : f[l] = Hop(entries[j].key, m)

\* Inserting one more key keeps this: there is a free slot for it.
LEMMA InsertedPlaced ==
  ASSUME HashMapInv, NEW i \in 1 .. MapCapacity, NEW f, Placed(f, i - 1)
  PROVE  Placed(Inserted(f, i), i)
<1>1. /\ MapCapacity \in Nat \ {0}
      /\ IsFiniteSet(MapSlot) /\ Cardinality(MapSlot) = MapCapacity
  BY HashMapAssumption, FS_Interval DEF MapSlot
<1>2. i - 1 \in MapSlot /\ Occupied \subseteq MapSlot
  BY <1>1 DEF MapSlot, Occupied
<1>3. CASE occupation[i - 1] # 1
  <2>1. UsedBelow(i) = UsedBelow(i - 1)
    BY <1>1, <1>2, <1>3 DEF UsedBelow, Occupied, MapSlot
  <2>2. Inserted(f, i) = f
    BY <1>3 DEF Inserted
  <2> QED
    BY <2>1, <2>2 DEF Placed
<1>4. CASE occupation[i - 1] = 1
  <2> DEFINE k    == entries[i - 1].key
             used == UsedBelow(i - 1)
             free == {n \in MapSlot : \A j \in DOMAIN f : f[j] # Hop(k, n)}
             g    == Inserted(f, i)
  <2>1. /\ i - 1 \in Occupied /\ i - 1 \notin used
        /\ UsedBelow(i) = used \cup {i - 1}
        /\ used \subseteq MapSlot
    BY <1>1, <1>2, <1>4 DEF UsedBelow, Occupied, MapSlot
  <2>2. k \in MapKey
    BY <2>1 DEF HashMapInv, KeysReached
  <2>3. f \in [used -> MapSlot] /\ DOMAIN f = used
    BY DEF Placed
  <2> HIDE DEF k, used
  <2>4. free # {}
    <3>1. SUFFICES ASSUME free = {} PROVE FALSE
      OBVIOUS
    <3>2. \A s \in MapSlot : \E j \in used : f[j] = s
      BY <2>2, <2>3, <3>1, Hops
    <3>3. f \in Surjection(used, MapSlot)
      BY <2>3, <3>2 DEF Surjection
    <3>4. IsFiniteSet(used) /\ Cardinality(used) < Cardinality(MapSlot)
      <4>1. IsFiniteSet(used) /\ Cardinality(used) <= Cardinality(MapSlot)
            /\ (Cardinality(MapSlot) = Cardinality(used) => MapSlot = used)
        BY <1>1, <2>1, FS_Subset
      <4>2. Cardinality(used) \in Nat
        BY <4>1, FS_CardinalityType
      <4> QED
        BY <1>1, <1>2, <2>1, <4>1, <4>2
    <3>5. Cardinality(MapSlot) <= Cardinality(used)
      BY <3>3, <3>4, FS_Surjection
    <3> QED
      BY <1>1, <3>4, <3>5, FS_CardinalityType
  <2>5. /\ FirstOf(free) \in MapSlot
        /\ \A j \in used : f[j] # Hop(k, FirstOf(free))
        /\ \A m \in 0 .. FirstOf(free) - 1 : \E l \in used : f[l] = Hop(k, m)
    <3>1. free \subseteq Nat
      BY DEF MapSlot
    <3>2. FirstOf(free) \in free /\ \A n \in free : FirstOf(free) <= n
      <4> HIDE DEF free
      <4> QED
        BY <2>4, <3>1, FirstOfLeast
    <3>3. FirstOf(free) \in MapSlot /\ \A j \in used : f[j] # Hop(k, FirstOf(free))
      BY <2>3, <3>2
    <3>4. ASSUME NEW m \in 0 .. FirstOf(free) - 1 PROVE \E l \in used : f[l] = Hop(k, m)
      <4> DEFINE least == FirstOf(free)
      <4>1. least \in MapSlot
        BY <3>3
      <4>2. m \in 0 .. least - 1
        OBVIOUS
      <4> HIDE DEF least
      <4>3. m \in MapSlot /\ ~(least <= m)
        BY <1>1, <4>1, <4>2 DEF MapSlot
      <4>4. m \notin free
        BY <3>2, <4>3 DEF least
      <4> QED
        BY <2>3, <4>3, <4>4
    <3> QED
      BY <3>3, <3>4
  <2>6. g = [j \in used \cup {i - 1} |-> IF j = i - 1 THEN Hop(k, FirstOf(free)) ELSE f[j]]
    BY <1>4, <2>3 DEF Inserted, CleanSlot, k
  <2> DEFINE n0 == FirstOf(free)
  <2> HIDE DEF free, g, n0
  <2>7. /\ DOMAIN g = used \cup {i - 1}
        /\ g[i - 1] = Hop(k, n0)
        /\ \A j \in used : g[j] = f[j]
    BY <2>1, <2>6 DEF n0
  <2>8. n0 \in MapSlot /\ Hop(k, n0) \in MapSlot
    BY <2>2, <2>5, Hops DEF n0
  <2>9. g \in [UsedBelow(i) -> MapSlot]
    BY <2>1, <2>3, <2>6, <2>8 DEF n0
  <2>10. ASSUME NEW j \in UsedBelow(i), NEW l \in UsedBelow(i), g[j] = g[l] PROVE j = l
    <3>1. \A a, b \in used : f[a] = f[b] => a = b
      BY DEF Placed, used
    <3>2. \A a \in used : g[a] # g[i - 1]
      BY <2>5, <2>7 DEF n0
    <3> QED
      BY <2>1, <2>7, <2>10, <3>1, <3>2
  <2>11. ASSUME NEW j \in UsedBelow(i)
         PROVE  \E n \in MapSlot :
                  /\ Hop(entries[j].key, n) = g[j]
                  /\ \A m \in 0 .. n - 1 : \E l \in UsedBelow(i) : g[l] = Hop(entries[j].key, m)
    <3>1. CASE j = i - 1
      <4>1. \A m \in 0 .. n0 - 1 : \E l \in UsedBelow(i) : g[l] = Hop(k, m)
        BY <2>1, <2>5, <2>7 DEF n0
      <4> QED
        BY <2>7, <2>8, <3>1, <4>1 DEF k
    <3>2. CASE j \in used
      <4>1. PICK n \in MapSlot :
              /\ Hop(entries[j].key, n) = f[j]
              /\ \A m \in 0 .. n - 1 : \E l \in used : f[l] = Hop(entries[j].key, m)
        BY <3>2 DEF Placed, used
      <4>2. \A m \in 0 .. n - 1 : \E l \in UsedBelow(i) : g[l] = Hop(entries[j].key, m)
        BY <2>1, <2>7, <4>1
      <4> QED
        BY <2>7, <3>2, <4>1, <4>2
    <3> QED
      BY <2>1, <3>1, <3>2
  <2> QED
    BY <2>9, <2>10, <2>11 DEF Placed, g
<1> QED
  BY <1>3, <1>4

\* So every key has a slot of its own in the new table, where its search finds it.
LEMMA AllPlaced ==
  ASSUME HashMapInv
  PROVE  /\ CleanSlots \in [Occupied -> MapSlot]
         /\ \A j, l \in Occupied : CleanSlots[j] = CleanSlots[l] => j = l
         /\ \A j \in Occupied :
              \E n \in MapSlot :
                /\ Hop(entries[j].key, n) = CleanSlots[j]
                /\ \A m \in 0 .. n - 1 : \E l \in Occupied : CleanSlots[l] = Hop(entries[j].key, m)
<1> DEFINE S == {i \in 0 .. MapCapacity : Placed(Cleaned[i], i)}
<1>1. MapCapacity \in Nat /\ Occupied \subseteq MapSlot
  BY HashMapAssumption DEF Occupied
<1>2. Cleaned[0] = NoSlots /\ \A i \in 1 .. MapCapacity : Cleaned[i] = Inserted(Cleaned[i - 1], i)
  <2> DEFINE e(i) == IF i = 0 THEN NoSlots ELSE Inserted(Cleaned[i - 1], i)
  <2>1. Cleaned = [i \in 0 .. MapCapacity |-> e(i)]
    BY CleanedIs
  <2> HIDE DEF e
  <2>2. \A i \in 0 .. MapCapacity : Cleaned[i] = e(i)
    BY <2>1
  <2>3. e(0) = NoSlots /\ \A i \in 1 .. MapCapacity : e(i) = Inserted(Cleaned[i - 1], i)
    BY DEF e
  <2> QED
    BY <1>1, <2>2, <2>3
<1>3. 0 \in S
  <2>1. \A j \in Occupied : ~ j < 0
    BY <1>1 DEF MapSlot
  <2>2. UsedBelow(0) = {}
    BY <2>1 DEF UsedBelow
  <2>3. Placed(NoSlots, 0)
    BY <2>2 DEF Placed, NoSlots
  <2> QED
    BY <1>1, <1>2, <2>3
<1>4. ASSUME NEW i \in 1 .. MapCapacity, i - 1 \in S PROVE i \in S
  BY <1>1, <1>2, <1>4, InsertedPlaced
<1>5. MapCapacity \in S
  <2> HIDE DEF S
  <2> QED
    BY <1>1, <1>3, <1>4, BoundedInduction
<1>6. UsedBelow(MapCapacity) = Occupied
  <2>1. \A j \in Occupied : j < MapCapacity
    BY <1>1 DEF MapSlot
  <2> QED
    BY <2>1 DEF UsedBelow
<1> QED
  BY <1>5, <1>6 DEF Placed, CleanSlots

\* The cleanup keeps the invariant, and the content of the map.
LEMMA CleanUpInv ==
  ASSUME HashMapInv, CleanUp
  PROVE  HashMapInv' /\ Content' = Content
<1> DEFINE P     == CleanSlots
           at(i) == {j \in DOMAIN P : P[j] = i}
<1>1. /\ MapCapacity \in Nat \ {0} /\ IsFiniteSet(MapSlot)
      /\ Occupied \subseteq MapSlot
  BY HashMapAssumption, FS_Interval DEF MapSlot, Occupied
<1>2. /\ entries \in [MapSlot -> [key : MapKey \cup {NoKey}, value : MapValue \cup {NoKey}]]
      /\ mapPopulation \in 0 .. MapCapacity
  BY DEF HashMapInv, HashMapTypeOK
<1>3. /\ marks' = 0 /\ mapPopulation' = mapPopulation
      /\ entries' = [i \in MapSlot |-> IF at(i) = {} THEN NoEntry
                                       ELSE entries[CHOOSE j \in at(i) : TRUE]]
      /\ occupation' = [i \in MapSlot |-> IF at(i) = {} THEN 0 ELSE 1]
  BY DEF CleanUp
<1>4. /\ P \in [Occupied -> MapSlot]
      /\ \A j, l \in Occupied : P[j] = P[l] => j = l
      /\ \A j \in Occupied :
           \E n \in MapSlot :
             /\ Hop(entries[j].key, n) = P[j]
             /\ \A m \in 0 .. n - 1 : \E l \in Occupied : P[l] = Hop(entries[j].key, m)
  BY AllPlaced
<1> HIDE DEF P
<1>5. \A j \in Occupied : at(P[j]) = {j}
  BY <1>4
<1>6. /\ Occupied' = {P[j] : j \in Occupied}
      /\ \A j \in Occupied : entries'[P[j]] = entries[j]
      /\ \A i \in MapSlot : occupation'[i] \in {0, 1}
      /\ \A i \in MapSlot : i \notin Occupied' => entries'[i] = NoEntry
  <2>1. \A i \in MapSlot : at(i) # {} <=> \E j \in Occupied : P[j] = i
    BY <1>4
  <2>2. \A i \in MapSlot : occupation'[i] = IF at(i) = {} THEN 0 ELSE 1
    BY <1>3
  <2>3. \A i \in MapSlot : entries'[i] = IF at(i) = {} THEN NoEntry
                                         ELSE entries[CHOOSE j \in at(i) : TRUE]
    BY <1>3
  <2>4. Occupied' = {i \in MapSlot : at(i) # {}}
    BY <2>2 DEF Occupied
  <2>5. ASSUME NEW j \in Occupied PROVE entries'[P[j]] = entries[j]
    <3>1. P[j] \in MapSlot /\ at(P[j]) = {j}
      BY <1>4, <1>5
    <3>2. (CHOOSE l \in at(P[j]) : TRUE) = j
      BY <3>1
    <3> HIDE DEF at
    <3> QED
      BY <2>3, <3>1, <3>2
  <2> HIDE DEF at
  <2> QED
    BY <1>4, <2>1, <2>2, <2>3, <2>4, <2>5
<1>7. ASSUME NEW i \in Occupied'
      PROVE  /\ entries'[i].key \in MapKey
             /\ \E n \in MapSlot : /\ Hop(entries'[i].key, n) = i
                                   /\ \A m \in 0 .. n - 1 : occupation'[Hop(entries'[i].key, m)] # 0
  <2>1. PICK j \in Occupied : P[j] = i
    BY <1>6
  <2>2. entries'[i] = entries[j] /\ entries[j].key \in MapKey
    BY <1>6, <2>1 DEF HashMapInv, KeysReached
  <2>3. PICK n \in MapSlot :
          /\ Hop(entries[j].key, n) = P[j]
          /\ \A m \in 0 .. n - 1 : \E l \in Occupied : P[l] = Hop(entries[j].key, m)
    BY <1>4
  <2>4. \A l \in Occupied : occupation'[P[l]] = 1
    <3>1. \A l \in Occupied : P[l] \in Occupied'
      BY <1>6
    <3> QED
      BY <3>1 DEF Occupied
  <2>5. \A m \in 0 .. n - 1 : occupation'[Hop(entries[j].key, m)] # 0
    BY <2>3, <2>4
  <2> QED
    BY <2>1, <2>2, <2>3, <2>5
<1>8. KeysReached'
  BY <1>7 DEF KeysReached, Hop
<1>9. KeysDistinct'
  BY <1>4, <1>6 DEF HashMapInv, KeysDistinct
<1>10. mapPopulation' = Cardinality(Occupied')
  <2>1. IsFiniteSet(Occupied)
    BY <1>1, FS_Subset
  <2>2. P \in Bijection(Occupied, Occupied')
    BY <1>4, <1>6 DEF Bijection, Injection, Surjection, IsInjective
  <2>3. ExistsBijection(Occupied, Occupied')
    BY <2>2 DEF ExistsBijection
  <2> QED
    BY <1>3, <2>1, <2>3, FS_Bijection DEF HashMapInv
<1>11. HashMapTypeOK'
  <2>1. occupation' = [i \in MapSlot |-> occupation'[i]] /\ entries' = [i \in MapSlot |-> entries'[i]]
    BY <1>3
  <2>2. \A i \in MapSlot : entries'[i] \in [key : MapKey \cup {NoKey}, value : MapValue \cup {NoKey}]
    BY <1>1, <1>2, <1>6 DEF NoEntry
  <2> QED
    BY <1>1, <1>2, <1>3, <1>6, <2>1, <2>2 DEF HashMapTypeOK
<1>12. HashMapInv'
  BY <1>8, <1>9, <1>10, <1>11 DEF HashMapInv
<1>13. ContentOK /\ ContentOK'
  BY <1>12, ContentFound, ContentFoundNext
<1>14. DOMAIN Content' = DOMAIN Content
  <2>1. DOMAIN Content' = {entries'[i].key : i \in Occupied'}
    BY <1>13 DEF ContentOK
  <2>2. DOMAIN Content = {entries[j].key : j \in Occupied}
    BY <1>13 DEF ContentOK
  <2> QED
    BY <1>6, <2>1, <2>2
<1>15. ASSUME NEW k \in DOMAIN Content PROVE Content'[k] = Content[k]
  <2>1. PICK j \in Occupied : entries[j].key = k
    BY <1>13 DEF ContentOK
  <2>2. P[j] \in Occupied' /\ entries'[P[j]] = entries[j]
    BY <1>6
  <2>3. Content'[entries'[P[j]].key] = entries'[P[j]].value
    BY <1>13, <2>2 DEF ContentOK
  <2>4. Content[entries[j].key] = entries[j].value
    BY <1>13 DEF ContentOK
  <2> QED
    BY <2>1, <2>2, <2>3, <2>4
<1>16. Content' = Content
  <2>1. Content' = [k \in DOMAIN Content' |-> Content'[k]] /\ Content = [k \in DOMAIN Content |-> Content[k]]
    BY <1>13 DEF ContentOK
  <2> QED
    BY <1>14, <1>15, <2>1
<1> QED
  BY <1>12, <1>16

-----------------------------------------------------------------------------
(* The theorems.                                                           *)

\* The empty table satisfies the invariant, and is the empty map.
LEMMA HashMapInvInit ==
  ASSUME HashMapInit
  PROVE  HashMapInv /\ Map!MapInit
<1>1. MapCapacity \in Nat \ {0}
  BY HashMapAssumption
<1>2. Occupied = {}
  BY DEF HashMapInit, Occupied
<1>3. HashMapTypeOK
  BY <1>1 DEF HashMapInit, HashMapTypeOK, NoEntry
<1>4. HashMapInv
  BY <1>2, <1>3, FS_EmptySet DEF HashMapInit, HashMapInv, KeysReached, KeysDistinct
<1>5. ContentOK
  BY <1>4, ContentFound
<1>6. Content = [k \in {} |-> 0]
  BY <1>2, <1>5 DEF ContentOK
<1> QED
  BY <1>4, <1>6 DEF Map!MapInit

\* Every step keeps the invariant.
LEMMA HashMapInvStep ==
  ASSUME HashMapInv, [HashMapNext]_hashMapVars
  PROVE  HashMapInv'
<1>1. ASSUME NEW k \in MapKey, NEW v \in MapValue, Set(k, v) PROVE HashMapInv'
  BY <1>1, SetInv
<1>2. ASSUME NEW i \in MapSlot, marks < MapCapacity, RemoveByIndex(i) PROVE HashMapInv'
  BY <1>2, RemoveInv
<1>3. CASE CleanUp
  BY <1>3, CleanUpInv
<1>4. CASE UNCHANGED hashMapVars
  BY <1>4 DEF hashMapVars, HashMapInv, HashMapTypeOK, KeysReached, KeysDistinct, Occupied, Hop
<1> QED
  BY <1>1, <1>2, <1>3, <1>4 DEF HashMapNext

\* The types, the searches that reach the keys and the population are invariant.
THEOREM HashMapInvariance == HashMapSpec => []HashMapInv
<1>1. HashMapInit => HashMapInv
  BY HashMapInvInit
<1>2. HashMapInv /\ [HashMapNext]_hashMapVars => HashMapInv'
  BY HashMapInvStep
<1> QED
  BY <1>1, <1>2, PTL DEF HashMapSpec

\* No key is in the table twice, searches find all keys that an iteration meets, and the population
\* is their number.
THEOREM KeysFoundOnce == HashMapSpec => []KeysOnce
<1>1. ASSUME HashMapInv PROVE KeysOnce
  <2>1. mapPopulation = Cardinality(DOMAIN Content)
    BY <1>1, KeysCounted
  <2>2. DOMAIN Content = {entries[i].key : i \in Occupied}
    BY <1>1, ContentFound DEF ContentOK
  <2>3. \A i \in Occupied : GetElementIndex(entries[i].key) = i
    <3> SUFFICES ASSUME NEW i \in Occupied PROVE GetElementIndex(entries[i].key) = i
      OBVIOUS
    <3>1. entries[i].key \in MapKey
      BY <1>1 DEF HashMapInv, KeysReached
    <3> QED
      BY <1>1, <3>1, SearchFinds DEF HashMapInv, KeysDistinct
  <2>4. {GetElementIndex(k) : k \in DOMAIN Content} = Occupied
    BY <2>2, <2>3
  <2> QED
    BY <2>1, <2>4 DEF KeysOnce, Occupied
<1>2. HashMapInv => KeysOnce
  BY <1>1
<1> QED
  BY <1>2, HashMapInvariance, PTL

\* The hash table implements a partial map: every set and remove changes one key, a cleanup none.
THEOREM HashMapIsMap == HashMapSpec => ImplementsMap
<1>1. HashMapInit => Map!MapInit
  BY HashMapInvInit
<1>2. ASSUME HashMapInv, HashMapInv', [HashMapNext]_hashMapVars
      PROVE  [UNCHANGED hashMapVars \/ Map!MapNext]_Content
  <2>1. ASSUME NEW k \in MapKey, NEW v \in MapValue, Set(k, v) PROVE Map!MapNext
    BY <1>2, <2>1, SetAssigns DEF Map!MapNext
  <2>2. ASSUME NEW i \in MapSlot, marks < MapCapacity, RemoveByIndex(i) PROVE Map!MapNext
    BY <1>2, <2>2, RemoveDeletes DEF Map!MapNext
  <2>3. CASE CleanUp
    BY <1>2, <2>3, CleanUpInv
  <2> QED
    BY <1>2, <2>1, <2>2, <2>3 DEF HashMapNext
<1>3. HashMapInv /\ HashMapInv' /\ [HashMapNext]_hashMapVars
        => [UNCHANGED hashMapVars \/ Map!MapNext]_Content
  BY <1>2
<1> QED
  BY <1>1, <1>3, HashMapInvariance, PTL DEF HashMapSpec, ImplementsMap

\* A new key finds a slot whenever the map is not full, marked slots included.
THEOREM RoomIsFound ==
  HashMapSpec => [](mapPopulation < MapCapacity => \A k \in MapKey : FreeSlot(k) # NullSlot)
<1>1. ASSUME HashMapInv, mapPopulation < MapCapacity, NEW k \in MapKey
      PROVE  FreeSlot(k) # NullSlot
  <2>1. /\ MapCapacity \in Nat \ {0} /\ MapSlot \subseteq Nat
        /\ IsFiniteSet(MapSlot) /\ Cardinality(MapSlot) = MapCapacity
        /\ occupation \in [MapSlot -> 0 .. 2]
    BY <1>1, HashMapAssumption, FS_Interval DEF MapSlot, HashMapInv, HashMapTypeOK
  <2>2. Occupied # MapSlot
    BY <1>1, <2>1 DEF HashMapInv
  <2>3. PICK i \in MapSlot : occupation[i] # 1
    BY <2>2 DEF Occupied
  <2>4. PICK n \in MapSlot : Hop(k, n) = i
    BY Hops
  <2>5. CASE Span(k) < MapCapacity
    <3>1. Span(k) \in MapSlot
      BY <2>5, SpanIs
    <3>2. Hop(k, Span(k)) \in MapSlot
      BY <3>1, Hops
    <3>3. Marked(k) # {} => Hop(k, FirstOf(Marked(k))) \in MapSlot
      <4>1. Marked(k) \subseteq MapSlot
        BY SpanIs DEF Marked
      <4> QED
        BY <2>1, <4>1, FirstOfLeast, Hops
    <3> QED
      BY <2>1, <2>5, <3>2, <3>3 DEF FreeSlot, NullSlot
  <2>6. CASE Span(k) = MapCapacity
    <3>1. n \in 0 .. Span(k) - 1
      BY <2>1, <2>6 DEF MapSlot
    <3>2. occupation[i] = 2
      BY <2>1, <2>3, <2>4, <3>1, SpanIs
    <3>3. n \in Marked(k)
      BY <2>4, <3>1, <3>2 DEF Marked
    <3>4. Marked(k) \subseteq MapSlot
      BY SpanIs DEF Marked
    <3>5. Hop(k, FirstOf(Marked(k))) \in MapSlot
      BY <2>1, <3>3, <3>4, FirstOfLeast, Hops
    <3> QED
      BY <2>1, <3>3, <3>5 DEF FreeSlot, NullSlot
  <2> QED
    BY <2>1, <2>5, <2>6, SpanIs
<1>2. HashMapInv => (mapPopulation < MapCapacity => \A k \in MapKey : FreeSlot(k) # NullSlot)
  BY <1>1
<1> QED
  BY <1>2, HashMapInvariance, PTL
-----------------------------------------------------------------------------
(* The ring of ticks.                                                      *)

Ticks(first) == first .. first + PoolTicks - 1
Index(first, begin, t) == ((t - first) + begin) % PoolTicks

\* The ring index of a tick in the window that begins with first, at the index begin.
LEMMA IndexIs ==
  ASSUME NEW first \in Nat, NEW begin \in RingIndex
  PROVE  /\ Ticks(first) \subseteq Nat
         /\ \A t \in Ticks(first) :
              Index(first, begin, t) = IF t - first + begin < PoolTicks
                                       THEN t - first + begin
                                       ELSE t - first + begin - PoolTicks
         /\ \A t \in Ticks(first) : Index(first, begin, t) \in RingIndex
         /\ \A s, t \in Ticks(first) : Index(first, begin, s) = Index(first, begin, t) => s = t
         /\ \A i \in RingIndex : \E t \in Ticks(first) : Index(first, begin, t) = i
<1>1. PoolTicks \in Nat \ {0}
  BY PoolAssumption
<1>2. \A x \in Int : 0 <= x /\ x < 2 * PoolTicks =>
        x % PoolTicks = IF x < PoolTicks THEN x ELSE x - PoolTicks
  <2>1. \A x \in Int : 0 <= x /\ x < PoolTicks => x % PoolTicks = x
    BY <1>1
  <2>2. \A x \in Int : PoolTicks <= x /\ x < 2 * PoolTicks => x % PoolTicks = x - PoolTicks
    BY <1>1
  <2> QED
    BY <1>1, <2>1, <2>2
<1>3. ASSUME NEW t \in Ticks(first)
      PROVE  Index(first, begin, t) = IF t - first + begin < PoolTicks
                                      THEN t - first + begin
                                      ELSE t - first + begin - PoolTicks
  <2>1. /\ t \in Int /\ first \in Int /\ begin \in Int
        /\ t - first + begin \in Int
        /\ 0 <= t - first + begin /\ t - first + begin < 2 * PoolTicks
    BY <1>1 DEF Ticks, RingIndex
  <2>2. PICK x \in Int : x = t - first + begin
    BY <2>1
  <2>3. x % PoolTicks = IF x < PoolTicks THEN x ELSE x - PoolTicks
    BY <1>2, <2>1, <2>2
  <2>4. Index(first, begin, t) = x % PoolTicks
    BY <2>2 DEF Index
  <2> QED
    BY <1>1, <2>1, <2>2, <2>3, <2>4
<1>4. ASSUME NEW i \in RingIndex PROVE \E t \in Ticks(first) : Index(first, begin, t) = i
  <2>1. CASE i >= begin
    <3>1. first + (i - begin) \in Ticks(first)
      BY <1>1, <2>1 DEF Ticks, RingIndex
    <3>2. Index(first, begin, first + (i - begin)) = i
      BY <1>1, <1>3, <3>1 DEF RingIndex
    <3> QED
      BY <3>1, <3>2
  <2>2. CASE i < begin
    <3>1. first + (i - begin) + PoolTicks \in Ticks(first)
      BY <1>1, <2>2 DEF Ticks, RingIndex
    <3>2. Index(first, begin, first + (i - begin) + PoolTicks) = i
      BY <1>1, <1>3, <2>2, <3>1 DEF RingIndex
    <3> QED
      BY <3>1, <3>2
  <2> QED
    BY <1>1, <2>1, <2>2 DEF RingIndex
<1>5. ASSUME NEW t \in Ticks(first) PROVE Index(first, begin, t) \in RingIndex
  BY <1>1, <1>3 DEF Ticks, RingIndex
<1>6. ASSUME NEW s \in Ticks(first), NEW t \in Ticks(first),
             Index(first, begin, s) = Index(first, begin, t)
      PROVE  s = t
  BY <1>1, <1>3, <1>6 DEF Ticks, RingIndex
<1>7. Ticks(first) \subseteq Nat
  BY <1>1 DEF Ticks
<1> QED
  BY <1>3, <1>4, <1>5, <1>6, <1>7

\* Of one tick.
LEMMA IndexOf ==
  ASSUME NEW first \in Nat, NEW begin \in RingIndex, NEW t \in Ticks(first)
  PROVE  /\ t \in Int
         /\ Index(first, begin, t) \in RingIndex
         /\ Index(first, begin, t) = IF t - first + begin < PoolTicks
                                     THEN t - first + begin
                                     ELSE t - first + begin - PoolTicks
<1>1. Ticks(first) \subseteq Int
  BY PoolAssumption DEF Ticks
<1> QED
  BY <1>1, IndexIs

\* Every index is that of a tick.
LEMMA IndexOnto ==
  ASSUME NEW first \in Nat, NEW begin \in RingIndex, NEW i \in RingIndex
  PROVE  \E t \in Ticks(first) : Index(first, begin, t) = i
<1>1. \A j \in RingIndex : \E t \in Ticks(first) : Index(first, begin, t) = j
  BY IndexIs, Zenon
<1> QED
  BY <1>1, Zenon

\* The window and its indices, before and after a step.
LEMMA IndicesOfWindow ==
  /\ Window = Ticks(firstStoredTick)
  /\ Window' = Ticks(firstStoredTick')
  /\ \A t : TickToIndex(t) = Index(firstStoredTick, buffersBeginIndex, t)
  /\ \A t : TickToIndex(t)' = Index(firstStoredTick', buffersBeginIndex', t)
  /\ firstStoredTick \in Nat => \A t \in Nat : TickInStorage(t) <=> t \in Window
  /\ firstStoredTick' \in Nat => \A t \in Nat : TickInStorage(t)' <=> t \in Window'
<1>1. PoolTicks \in Nat \ {0}
  BY PoolAssumption
<1>2. firstStoredTick \in Nat => \A t \in Nat : TickInStorage(t) <=> t \in Window
  BY <1>1 DEF Window, TickInStorage
<1>3. firstStoredTick' \in Nat => \A t \in Nat : TickInStorage(t)' <=> t \in Window'
  <2> SUFFICES ASSUME firstStoredTick' \in Nat, NEW t \in Nat
               PROVE  TickInStorage(t)' <=> t \in Window'
    OBVIOUS
  <2>1. TickInStorage(t)' <=> t >= firstStoredTick' /\ t < firstStoredTick' + PoolTicks
    BY DEF TickInStorage
  <2>2. Window' = firstStoredTick' .. firstStoredTick' + PoolTicks - 1
    BY DEF Window
  <2>3. PICK first \in Nat : first = firstStoredTick'
    OBVIOUS
  <2>4. (t >= first /\ t < first + PoolTicks) <=> t \in first .. first + PoolTicks - 1
    BY <1>1
  <2> QED
    BY <2>1, <2>2, <2>3, <2>4, Zenon
<1> QED
  BY <1>2, <1>3 DEF Window, Ticks, TickToIndex, Index

-----------------------------------------------------------------------------
(* The queue of a tick.                                                    *)

\* The highest priority comes first.
Descending(q) == \A m, n \in 1 .. Len(q) : m <= n => q[m].priority >= q[n].priority

\* An entry is put behind those of the same priority, and the others keep their order.
LEMMA EnqueuedIs ==
  ASSUME NEW q \in Seq(PoolEntry), Descending(q), NEW x \in PoolEntry
  PROVE  /\ Enqueued(q, x) \in Seq(PoolEntry)
         /\ Len(Enqueued(q, x)) = Len(q) + 1
         /\ Descending(Enqueued(q, x))
         /\ \E n \in 0 .. Len(q) : \A k \in 1 .. Len(q) + 1 :
              Enqueued(q, x)[k] = IF k <= n THEN q[k] ELSE IF k = n + 1 THEN x ELSE q[k - 1]
<1> DEFINE S == {j \in DOMAIN q : q[j].priority >= x.priority}
           n == Cardinality(S)
           front == SubSeq(q, 1, n)
           back == SubSeq(q, n + 1, Len(q))
           r == front \o <<x>> \o back
<1>1. Len(q) \in Nat /\ DOMAIN q = 1 .. Len(q) /\ \A j \in 1 .. Len(q) : q[j] \in PoolEntry
  BY LenProperties, ElementOfSeq
<1>2. x.priority \in Int /\ \A j \in 1 .. Len(q) : q[j].priority \in Int
  BY <1>1, PoolAssumption DEF PoolEntry
<1>3. n \in 0 .. Len(q) /\ S = 1 .. n
  <2>1. S \in SUBSET (1 .. Len(q))
    BY <1>1
  <2>2. ASSUME NEW i \in S, NEW j \in 1 .. i PROVE j \in S
    <3>1. i \in 1 .. Len(q) /\ j \in 1 .. Len(q) /\ j <= i
      BY <1>1
    <3>2. q[j].priority >= q[i].priority /\ q[i].priority >= x.priority
      BY <3>1 DEF Descending
    <3> QED
      BY <1>1, <1>2, <3>1, <3>2
  <2> HIDE DEF S
  <2> QED
    BY <1>1, <2>1, <2>2, FirstNumbers
<1>4. /\ \A j \in 1 .. n : q[j].priority >= x.priority
      /\ \A j \in n + 1 .. Len(q) : q[j].priority < x.priority
  <2>1. \A j \in 1 .. n : q[j].priority >= x.priority
    BY <1>3
  <2>2. ASSUME NEW j \in n + 1 .. Len(q) PROVE q[j].priority < x.priority
    <3>1. j \in 1 .. Len(q) /\ j \notin 1 .. n
      <4> HIDE DEF n, S
      <4> QED
        BY <1>1, <1>3
    <3>2. j \notin S
      <4> HIDE DEF n, S
      <4> QED
        BY <1>3, <3>1
    <3> QED
      BY <1>1, <1>2, <3>1, <3>2
  <2> QED
    BY <2>1, <2>2
<1>5. Enqueued(q, x) = r
  BY DEF Enqueued
<1> HIDE DEF n, S
<1>6. /\ front \in Seq(PoolEntry) /\ Len(front) = n
      /\ \A i \in 1 .. n : front[i] = q[i]
  <2>1. \A i \in 1 .. n : q[i] \in PoolEntry
    BY <1>1, <1>3
  <2>2. /\ SubSeq(q, 1, n) \in Seq(PoolEntry)
        /\ Len(SubSeq(q, 1, n)) = IF 1 <= n THEN n - 1 + 1 ELSE 0
        /\ \A i \in 1 .. n - 1 + 1 : SubSeq(q, 1, n)[i] = q[1 + i - 1]
    BY <1>3, <2>1, SubSeqProperties
  <2> QED
    BY <1>3, <2>2
<1>7. /\ back \in Seq(PoolEntry) /\ Len(back) = Len(q) - n
      /\ \A i \in 1 .. Len(q) - n : back[i] = q[n + i]
  <2>1. \A i \in n + 1 .. Len(q) : q[i] \in PoolEntry
    BY <1>1, <1>3
  <2>2. /\ SubSeq(q, n + 1, Len(q)) \in Seq(PoolEntry)
        /\ Len(SubSeq(q, n + 1, Len(q))) = IF n + 1 <= Len(q) THEN Len(q) - (n + 1) + 1 ELSE 0
        /\ \A i \in 1 .. Len(q) - (n + 1) + 1 : SubSeq(q, n + 1, Len(q))[i] = q[(n + 1) + i - 1]
    BY <1>1, <1>3, <2>1, SubSeqProperties
  <2>3. Len(q) \in Int /\ n \in Int /\ n <= Len(q)
    BY <1>1, <1>3
  <2>4. Len(back) = Len(q) - n
    BY <2>2, <2>3
  <2>5. ASSUME NEW i \in 1 .. Len(q) - n PROVE back[i] = q[n + i]
    <3>1. i \in 1 .. Len(q) - (n + 1) + 1 /\ (n + 1) + i - 1 = n + i
      BY <2>3
    <3> QED
      BY <2>2, <3>1
  <2> QED
    BY <2>2, <2>4, <2>5
<1>8. <<x>> \in Seq(PoolEntry) /\ Len(<<x>>) = 1 /\ <<x>>[1] = x
  OBVIOUS
<1> HIDE DEF front, back
<1>9. /\ front \o <<x>> \in Seq(PoolEntry) /\ Len(front \o <<x>>) = n + 1
      /\ \A i \in 1 .. n + 1 : (front \o <<x>>)[i] = IF i <= n THEN front[i] ELSE <<x>>[i - n]
  BY <1>3, <1>6, <1>8, ConcatProperties
<1>10. /\ r \in Seq(PoolEntry) /\ Len(r) = n + 1 + (Len(q) - n)
       /\ \A i \in 1 .. n + 1 + (Len(q) - n) :
            r[i] = IF i <= n + 1 THEN (front \o <<x>>)[i] ELSE back[i - (n + 1)]
  <2>1. /\ r \in Seq(PoolEntry) /\ Len(r) = Len(front \o <<x>>) + Len(back)
        /\ \A i \in 1 .. Len(front \o <<x>>) + Len(back) :
             r[i] = IF i <= Len(front \o <<x>>) THEN (front \o <<x>>)[i]
                    ELSE back[i - Len(front \o <<x>>)]
    BY <1>7, <1>9, ConcatProperties
  <2> QED
    BY <1>7, <1>9, <2>1
<1> HIDE DEF r
<1>13. n + 1 + (Len(q) - n) = Len(q) + 1
  BY <1>1, <1>3
<1>11. ASSUME NEW k \in 1 .. Len(q) + 1
       PROVE  r[k] = IF k <= n THEN q[k] ELSE IF k = n + 1 THEN x ELSE q[k - 1]
  <2>1. CASE k <= n
    BY <1>1, <1>3, <1>6, <1>9, <1>10, <2>1
  <2>2. CASE k = n + 1
    <3>1. k - n = 1 /\ ~(k <= n) /\ k \in 1 .. n + 1
      BY <1>3, <2>2
    <3>2. (front \o <<x>>)[k] = x
      BY <1>8, <1>9, <3>1
    <3> QED
      <4>1. k \in 1 .. n + 1 + (Len(q) - n) /\ k <= n + 1
        BY <1>3, <1>13, <2>2
      <4>2. r[k] = (front \o <<x>>)[k]
        BY <1>10, <4>1
      <4> QED
        BY <2>2, <3>1, <3>2, <4>2
  <2>3. CASE k > n + 1
    <3>1. k - (n + 1) \in 1 .. Len(q) - n /\ n + (k - (n + 1)) = k - 1
      BY <1>1, <1>3, <2>3
    <3>2. r[k] = back[k - (n + 1)]
      BY <1>1, <1>3, <1>10, <2>3
    <3> QED
      BY <1>1, <1>3, <1>7, <2>3, <3>1, <3>2
  <2> QED
    BY <1>1, <1>3, <2>1, <2>2, <2>3
<1>12. ASSUME NEW i \in 1 .. Len(q) + 1, NEW k \in 1 .. Len(q) + 1, i <= k
       PROVE  r[i].priority >= r[k].priority
  <2>1. /\ i <= n => r[i] = q[i] /\ i \in 1 .. n /\ i \in 1 .. Len(q)
        /\ i > n + 1 => r[i] = q[i - 1] /\ i - 1 \in n + 1 .. Len(q) /\ i - 1 \in 1 .. Len(q)
        /\ k <= n => r[k] = q[k] /\ k \in 1 .. n /\ k \in 1 .. Len(q)
        /\ k > n + 1 => r[k] = q[k - 1] /\ k - 1 \in n + 1 .. Len(q) /\ k - 1 \in 1 .. Len(q)
        /\ i = n + 1 => r[i] = x
        /\ k = n + 1 => r[k] = x
    BY <1>1, <1>3, <1>11
  <2>2. \A a, b \in 1 .. Len(q) : a <= b => q[a].priority >= q[b].priority
    BY DEF Descending
  <2>3. CASE k <= n
    <3>1. i <= n
      BY <1>1, <1>3, <1>12, <2>3
    <3> QED
      BY <1>12, <2>1, <2>2, <2>3, <3>1
  <2>4. CASE k = n + 1
    <3>1. i <= n \/ i = n + 1
      BY <1>1, <1>3, <1>12, <2>4
    <3>2. x.priority \in Int /\ (i <= n => q[i].priority >= x.priority)
      BY <1>2, <1>4, <2>1
    <3> QED
      BY <2>1, <2>4, <3>1, <3>2
  <2>5. CASE k > n + 1
    <3>1. i <= n \/ i = n + 1 \/ i > n + 1
      BY <1>1, <1>3
    <3>2. CASE i <= n
      <4>1. i <= k - 1
        BY <1>1, <1>3, <2>5, <3>2
      <4> QED
        BY <2>1, <2>2, <2>5, <3>2, <4>1
    <3>3. CASE i = n + 1
      BY <1>1, <1>2, <1>3, <1>4, <2>1, <2>5, <3>3
    <3>4. CASE i > n + 1
      <4>1. i - 1 <= k - 1
        BY <1>1, <1>12
      <4> QED
        BY <2>1, <2>2, <2>5, <3>4, <4>1
    <3> QED
      BY <3>1, <3>2, <3>3, <3>4
  <2> QED
    BY <1>1, <1>3, <2>3, <2>4, <2>5
<1> QED
  BY <1>3, <1>5, <1>10, <1>11, <1>12, <1>13 DEF Descending

-----------------------------------------------------------------------------
(* The transactions of a tick and their queue.                             *)

\* A queue that is in order and names each of the first l slots once.
QueueOK(q, l) ==
  /\ q \in Seq(PoolEntry) /\ Len(q) = l /\ Descending(q)
  /\ \A n \in 1 .. l : q[n].slot \in 1 .. l
  /\ \A s \in 1 .. l : \E n \in 1 .. l : q[n].slot = s
  /\ \A m, n \in 1 .. l : q[m].slot = q[n].slot => m = n

TxsOK(txs) ==
  /\ txs \in Seq(PoolTx) /\ Len(txs) <= MaxTxsPerTick
  /\ \A m, n \in 1 .. Len(txs) : txs[m] = txs[n] => m = n

Item(txs, e) == [tx |-> txs[e.slot], priority |-> e.priority]
Items(txs, q) == {Item(txs, q[n]) : n \in 1 .. Len(q)}

\* As many transactions are kept as are stored, and those that are stored.
LEMMA ItemsCounted ==
  ASSUME NEW txs, NEW q, TxsOK(txs), QueueOK(q, Len(txs))
  PROVE  /\ IsFiniteSet(Items(txs, q)) /\ Cardinality(Items(txs, q)) = Len(txs)
         /\ {y.tx : y \in Items(txs, q)} = {txs[n] : n \in 1 .. Len(txs)}
<1>1. Len(txs) \in Nat /\ Len(q) = Len(txs)
  BY LenProperties DEF TxsOK, QueueOK
<1> DEFINE f == [n \in 1 .. Len(q) |-> Item(txs, q[n])]
<1>2. \A m, n \in 1 .. Len(txs) : f[m] = f[n] => m = n
  <2> SUFFICES ASSUME NEW m \in 1 .. Len(txs), NEW n \in 1 .. Len(txs), f[m] = f[n]
               PROVE  m = n
    OBVIOUS
  <2>1. Item(txs, q[m]).tx = Item(txs, q[n]).tx
    BY <1>1
  <2>2. txs[q[m].slot] = txs[q[n].slot]
    BY <2>1 DEF Item
  <2>3. q[m].slot \in 1 .. Len(txs) /\ q[n].slot \in 1 .. Len(txs)
    BY DEF QueueOK
  <2>4. q[m].slot = q[n].slot
    BY <2>2, <2>3 DEF TxsOK
  <2> QED
    BY <2>4 DEF QueueOK
<1>3. /\ \A n \in 1 .. Len(txs) : f[n] \in Items(txs, q)
      /\ \A y \in Items(txs, q) : \E n \in 1 .. Len(txs) : f[n] = y
  BY <1>1 DEF Items
<1>4. IsFiniteSet(Items(txs, q)) /\ Cardinality(Items(txs, q)) = Len(txs)
  <2> HIDE DEF f
  <2> QED
    BY <1>1, <1>2, <1>3, ValuesCounted
<1>5. ASSUME NEW y \in Items(txs, q) PROVE \E n \in 1 .. Len(txs) : y.tx = txs[n]
  <2>1. PICK n \in 1 .. Len(q) : y = Item(txs, q[n])
    BY DEF Items
  <2>2. q[n].slot \in 1 .. Len(txs)
    BY <1>1 DEF QueueOK
  <2> QED
    BY <2>1, <2>2 DEF Item
<1>6. ASSUME NEW s \in 1 .. Len(txs) PROVE \E y \in Items(txs, q) : y.tx = txs[s]
  <2>1. PICK n \in 1 .. Len(txs) : q[n].slot = s
    BY DEF QueueOK
  <2>2. Item(txs, q[n]) \in Items(txs, q) /\ Item(txs, q[n]).tx = txs[s]
    BY <1>1, <2>1 DEF Items, Item
  <2> QED
    BY <2>2
<1> QED
  BY <1>4, <1>5, <1>6

\* The queue q names each of the first k slots but s once.
AllBut(q, s, k) ==
  /\ q \in Seq(PoolEntry) /\ Descending(q)
  /\ k = Len(q) + 1 /\ s \in 1 .. k
  /\ \A n \in 1 .. Len(q) : q[n].slot \in 1 .. k /\ q[n].slot # s
  /\ \A r \in 1 .. k : r # s => \E n \in 1 .. Len(q) : q[n].slot = r
  /\ \A m, n \in 1 .. Len(q) : q[m].slot = q[n].slot => m = n

\* An entry for this slot is put into the queue.
LEMMA EntryAdded ==
  ASSUME NEW q, NEW x \in PoolEntry, NEW k, AllBut(q, x.slot, k)
  PROVE  /\ QueueOK(Enqueued(q, x), k)
         /\ \A txs : Items(txs, Enqueued(q, x)) = Items(txs, q) \cup {Item(txs, x)}
<1> DEFINE l == Len(q)
<1>0. /\ q \in Seq(PoolEntry) /\ Descending(q) /\ l \in Nat /\ k = l + 1 /\ x.slot \in 1 .. k
      /\ \A n \in 1 .. l : q[n].slot \in 1 .. k /\ q[n].slot # x.slot
      /\ \A s \in 1 .. k : s # x.slot => \E n \in 1 .. l : q[n].slot = s
      /\ \A m, n \in 1 .. l : q[m].slot = q[n].slot => m = n
  BY LenProperties DEF AllBut
<1> DEFINE r == Enqueued(q, x)
<1>1. /\ r \in Seq(PoolEntry) /\ Len(r) = k /\ Descending(r)
      /\ \E n \in 0 .. l : \A i \in 1 .. k :
           r[i] = IF i <= n THEN q[i] ELSE IF i = n + 1 THEN x ELSE q[i - 1]
  <2>1. /\ r \in Seq(PoolEntry) /\ Len(r) = Len(q) + 1 /\ Descending(r)
        /\ \E n \in 0 .. Len(q) : \A i \in 1 .. Len(q) + 1 :
             r[i] = IF i <= n THEN q[i] ELSE IF i = n + 1 THEN x ELSE q[i - 1]
    BY <1>0, EnqueuedIs
  <2> HIDE DEF r
  <2> QED
    BY <1>0, <2>1
<1> HIDE DEF r, l
<1>2. PICK n \in 0 .. l : \A i \in 1 .. k :
           r[i] = IF i <= n THEN q[i] ELSE IF i = n + 1 THEN x ELSE q[i - 1]
  BY <1>1
<1> DEFINE Was(i) == IF i <= n THEN i ELSE i - 1
<1>3. \A i \in 1 .. k : i # n + 1 => Was(i) \in 1 .. l /\ r[i] = q[Was(i)]
  BY <1>0, <1>2
<1>4. \A i, j \in 1 .. k : i # n + 1 /\ j # n + 1 /\ Was(i) = Was(j) => i = j
  BY <1>0
<1>5. \A j \in 1 .. l : \E i \in 1 .. k : i # n + 1 /\ Was(i) = j
  <2> SUFFICES ASSUME NEW j \in 1 .. l PROVE \E i \in 1 .. k : i # n + 1 /\ Was(i) = j
    OBVIOUS
  <2>1. CASE j <= n
    <3>1. j \in 1 .. k /\ j # n + 1 /\ Was(j) = j
      BY <1>0, <2>1
    <3> QED
      BY <1>0, <3>1
  <2>2. CASE j > n
    <3>1. j + 1 \in 1 .. k /\ j + 1 # n + 1 /\ Was(j + 1) = j
      BY <1>0, <2>2
    <3> QED
      BY <1>0, <3>1
  <2> QED
    BY <1>0, <2>1, <2>2
<1>6. n + 1 \in 1 .. k /\ r[n + 1] = x
  BY <1>0, <1>2
<1> HIDE DEF Was
<1>7. \A i \in 1 .. k : r[i].slot \in 1 .. k
  <2> SUFFICES ASSUME NEW i \in 1 .. k PROVE r[i].slot \in 1 .. k
    OBVIOUS
  <2>1. CASE i = n + 1
    BY <1>0, <1>6, <2>1
  <2>2. CASE i # n + 1
    <3>1. Was(i) \in 1 .. l /\ r[i] = q[Was(i)]
      BY <1>3, <2>2
    <3> QED
      BY <1>0, <3>1
  <2> QED
    BY <2>1, <2>2
<1>8. ASSUME NEW s \in 1 .. k PROVE \E i \in 1 .. k : r[i].slot = s
  <2>1. CASE s = x.slot
    BY <1>0, <1>6, <2>1
  <2>2. CASE s # x.slot
    <3>1. PICK j \in 1 .. l : q[j].slot = s
      BY <1>0, <2>2
    <3>2. PICK i \in 1 .. k : i # n + 1 /\ Was(i) = j
      BY <1>5
    <3> QED
      BY <1>3, <3>1, <3>2
  <2> QED
    BY <2>1, <2>2
<1>9. ASSUME NEW i \in 1 .. k, NEW j \in 1 .. k, r[i].slot = r[j].slot PROVE i = j
  <2>1. CASE i = n + 1 /\ j # n + 1
    <3>1. Was(j) \in 1 .. l /\ r[j] = q[Was(j)]
      BY <1>3, <2>1
    <3>2. r[j].slot # x.slot
      BY <1>0, <3>1
    <3> QED
      BY <1>6, <1>9, <2>1, <3>2
  <2>2. CASE i # n + 1 /\ j = n + 1
    BY <1>0, <1>3, <1>6, <1>9, <2>2
  <2>3. CASE i # n + 1 /\ j # n + 1
    <3>1. /\ Was(i) \in 1 .. l /\ Was(j) \in 1 .. l
          /\ q[Was(i)].slot = q[Was(j)].slot
      BY <1>0, <1>3, <1>9, <2>3
    <3>2. Was(i) = Was(j)
      BY <1>0, <3>1
    <3> QED
      BY <1>4, <2>3, <3>2
  <2> QED
    BY <2>1, <2>2, <2>3
<1>10. ASSUME NEW txs PROVE Items(txs, r) = Items(txs, q) \cup {Item(txs, x)}
  <2>1. ASSUME NEW y \in Items(txs, r) PROVE y \in Items(txs, q) \cup {Item(txs, x)}
    <3>1. PICK i \in 1 .. k : y = Item(txs, r[i])
      BY <1>1 DEF Items, l
    <3>2. CASE i = n + 1
      BY <1>6, <3>1, <3>2
    <3>3. CASE i # n + 1
      BY <1>3, <3>1, <3>3 DEF Items, l
    <3> QED
      BY <3>2, <3>3
  <2>2. ASSUME NEW y \in Items(txs, q) PROVE y \in Items(txs, r)
    <3>1. PICK j \in 1 .. l : y = Item(txs, q[j])
      BY DEF Items, l
    <3>2. PICK i \in 1 .. k : i # n + 1 /\ Was(i) = j
      BY <1>5
    <3> QED
      BY <1>1, <1>3, <3>1, <3>2 DEF Items, l
  <2>3. Item(txs, x) \in Items(txs, r)
    BY <1>1, <1>6 DEF Items, l
  <2> QED
    BY <2>1, <2>2, <2>3
<1>11. QueueOK(r, k)
  BY <1>1, <1>7, <1>8, <1>9 DEF QueueOK
<1> QED
  BY <1>10, <1>11 DEF r

IsNew(tx, txs) == \A n \in 1 .. Len(txs) : txs[n] # tx
HasOf(txs2, tx, txs) == \A n \in 1 .. Len(txs2) : txs2[n] = tx \/ \E m \in 1 .. Len(txs) : txs2[n] = txs[m]

\* A transaction is added to a tick that is not full.
LEMMA StoredInFreeSlot ==
  ASSUME NEW txs, NEW q, TxsOK(txs), QueueOK(q, Len(txs)), Len(txs) < MaxTxsPerTick,
         NEW tx \in PoolTx, IsNew(tx, txs), NEW p \in TxPriority
  PROVE  LET txs2 == Append(txs, tx)
             q2 == Enqueued(q, [slot |-> Len(txs) + 1, priority |-> p])
         IN /\ TxsOK(txs2) /\ QueueOK(q2, Len(txs2))
            /\ HasOf(txs2, tx, txs)
            /\ Items(txs2, q2) = Items(txs, q) \cup {[tx |-> tx, priority |-> p]}
<1> DEFINE txs2 == Append(txs, tx)
           x == [slot |-> Len(txs) + 1, priority |-> p]
           q2 == Enqueued(q, x)
           l == Len(txs)
<1>1. l \in Nat /\ txs \in Seq(PoolTx) /\ MaxTxsPerTick \in Nat
  BY LenProperties, PoolAssumption DEF TxsOK
<1>2. /\ txs2 \in Seq(PoolTx) /\ Len(txs2) = l + 1
      /\ \A n \in 1 .. l : txs2[n] = txs[n]
      /\ txs2[l + 1] = tx
  BY <1>1, AppendProperties
<1> HIDE DEF txs2
<1>3. \A n \in 1 .. l + 1 : n \in 1 .. l \/ n = l + 1
  BY <1>1
<1>4. TxsOK(txs2)
  <2>1. ASSUME NEW m \in 1 .. l + 1, NEW n \in 1 .. l + 1, txs2[m] = txs2[n] PROVE m = n
    BY <1>2, <1>3, <2>1 DEF TxsOK, IsNew
  <2> QED
    BY <1>1, <1>2, <2>1 DEF TxsOK
<1>5. x \in PoolEntry /\ x.slot = l + 1 /\ x.slot \in 1 .. l + 1
  BY <1>1 DEF PoolEntry
<1>6. /\ q \in Seq(PoolEntry) /\ Len(q) = l /\ Descending(q)
      /\ \A n \in 1 .. l : q[n].slot \in 1 .. l
      /\ \A s \in 1 .. l : \E n \in 1 .. l : q[n].slot = s
      /\ \A m, n \in 1 .. l : q[m].slot = q[n].slot => m = n
  BY DEF QueueOK
<1> HIDE DEF x
<1>7. /\ \A n \in 1 .. l : q[n].slot \in 1 .. l + 1 /\ q[n].slot # x.slot
      /\ \A s \in 1 .. l + 1 : s # x.slot => \E n \in 1 .. l : q[n].slot = s
  <2>1. ASSUME NEW n \in 1 .. l PROVE q[n].slot \in 1 .. l + 1 /\ q[n].slot # x.slot
    <3>1. q[n].slot \in 1 .. l
      BY <1>6
    <3>2. \A i \in 1 .. l : i \in 1 .. l + 1 /\ i # l + 1
      BY <1>1
    <3> QED
      BY <1>5, <3>1, <3>2
  <2>2. ASSUME NEW s \in 1 .. l + 1, s # x.slot PROVE \E n \in 1 .. l : q[n].slot = s
    <3>1. s \in 1 .. l
      BY <1>3, <1>5, <2>2
    <3> QED
      BY <1>6, <3>1
  <2> QED
    BY <2>1, <2>2
<1>8. l + 1 \in Nat
  BY <1>1
<1>9. /\ QueueOK(q2, l + 1)
      /\ Items(txs2, q2) = Items(txs2, q) \cup {Item(txs2, x)}
  <2>1. AllBut(q, x.slot, l + 1)
    BY <1>1, <1>5, <1>6, <1>7 DEF AllBut
  <2>2. QueueOK(Enqueued(q, x), l + 1) /\ Items(txs2, Enqueued(q, x)) = Items(txs2, q) \cup {Item(txs2, x)}
    BY <1>5, <2>1, EntryAdded
  <2> QED
    BY <2>2
<1>10. Item(txs2, x) = [tx |-> tx, priority |-> p]
  <2>1. x.priority = p
    BY DEF x
  <2> QED
    BY <1>2, <1>5, <2>1 DEF Item
<1>11. Items(txs2, q) = Items(txs, q)
  <2>1. \A n \in 1 .. l : Item(txs2, q[n]) = Item(txs, q[n])
    BY <1>2, <1>6 DEF Item
  <2> QED
    BY <1>6, <2>1 DEF Items
<1>12. HasOf(txs2, tx, txs)
  BY <1>2, <1>3 DEF HasOf
<1>13. QueueOK(q2, Len(txs2)) /\ Items(txs2, q2) = Items(txs, q) \cup {[tx |-> tx, priority |-> p]}
  BY <1>2, <1>9, <1>10, <1>11
<1> QED
  BY <1>4, <1>12, <1>13 DEF txs2, x

Replaced(txs, s, tx) == [txs EXCEPT ![s] = tx]

\* A transaction replaces the last one of the queue in a full tick.
LEMMA StoredInPlaceOfLowest ==
  ASSUME NEW txs, NEW q, TxsOK(txs), QueueOK(q, Len(txs)), q # << >>,
         NEW tx \in PoolTx, IsNew(tx, txs), NEW p \in TxPriority,
         NEW low, low = q[Len(q)],
         NEW txs2, txs2 = Replaced(txs, low.slot, tx),
         NEW q2, q2 = Enqueued(SubSeq(q, 1, Len(q) - 1), [slot |-> low.slot, priority |-> p])
  PROVE  /\ TxsOK(txs2) /\ Len(txs2) = Len(txs) /\ QueueOK(q2, Len(txs2))
         /\ HasOf(txs2, tx, txs)
         /\ Item(txs, low) \in Promise!Lowest(Items(txs, q))
         /\ Items(txs2, q2) = (Items(txs, q) \ {Item(txs, low)}) \cup {[tx |-> tx, priority |-> p]}
<1> DEFINE l == Len(txs)
           rest == SubSeq(q, 1, Len(q) - 1)
           x == [slot |-> low.slot, priority |-> p]
<1>0. q2 = Enqueued(rest, x)
  OBVIOUS
<1>1. l \in Nat /\ txs \in Seq(PoolTx) /\ MaxTxsPerTick \in Nat /\ l <= MaxTxsPerTick
  BY LenProperties, PoolAssumption DEF TxsOK
<1>2. /\ q \in Seq(PoolEntry) /\ Len(q) = l /\ Descending(q)
      /\ \A n \in 1 .. l : q[n].slot \in 1 .. l
      /\ \A s \in 1 .. l : \E n \in 1 .. l : q[n].slot = s
      /\ \A m, n \in 1 .. l : q[m].slot = q[n].slot => m = n
  BY DEF QueueOK
<1>3. l \in 1 .. l /\ l - 1 \in Nat
  <2>1. Len(q) \in Nat \ {0}
    BY <1>2, EmptySeq
  <2> QED
    BY <1>2, <2>1
<1>4. /\ low \in PoolEntry /\ low.slot \in 1 .. l /\ low = q[l]
      /\ \A n \in 1 .. l : q[n] \in PoolEntry /\ q[n].priority \in Int
  <2>1. \A n \in 1 .. l : q[n] \in PoolEntry
    BY <1>2, ElementOfSeq
  <2> QED
    BY <1>2, <1>3, <2>1, PoolAssumption DEF PoolEntry
<1>5. /\ txs2 \in Seq(PoolTx) /\ Len(txs2) = l
      /\ \A n \in 1 .. l : txs2[n] = IF n = low.slot THEN tx ELSE txs[n]
  BY <1>1, <1>4, ExceptSeq DEF Replaced
<1>6. TxsOK(txs2)
  <2>1. ASSUME NEW m \in 1 .. l, NEW n \in 1 .. l, txs2[m] = txs2[n] PROVE m = n
    BY <1>5, <2>1 DEF TxsOK, IsNew, l
  <2> QED
    BY <1>1, <1>5, <2>1 DEF TxsOK
<1>7. /\ rest \in Seq(PoolEntry) /\ Len(rest) = l - 1
      /\ \A n \in 1 .. l - 1 : rest[n] = q[n]
  <2>1. \A n \in 1 .. l - 1 : q[n] \in PoolEntry
    BY <1>3, <1>4
  <2>2. /\ SubSeq(q, 1, l - 1) \in Seq(PoolEntry)
        /\ Len(SubSeq(q, 1, l - 1)) = IF 1 <= l - 1 THEN l - 1 - 1 + 1 ELSE 0
        /\ \A n \in 1 .. l - 1 - 1 + 1 : SubSeq(q, 1, l - 1)[n] = q[1 + n - 1]
    <3> HIDE DEF l
    <3> QED
      BY <1>3, <2>1, SubSeqProperties
  <2>3. rest = SubSeq(q, 1, l - 1)
    BY <1>2
  <2> HIDE DEF l, rest
  <2>4. Len(rest) = l - 1
    BY <1>3, <2>2, <2>3
  <2>5. ASSUME NEW n \in 1 .. l - 1 PROVE rest[n] = q[n]
    <3>1. n \in 1 .. l - 1 - 1 + 1 /\ 1 + n - 1 = n
      BY <1>3
    <3> QED
      BY <2>2, <2>3, <3>1
  <2> QED
    BY <2>2, <2>3, <2>4, <2>5
<1>8. x \in PoolEntry /\ x.slot = low.slot /\ x.priority = p
  BY <1>4 DEF PoolEntry
<1> HIDE DEF rest, x, l
<1>9. \A n \in 1 .. l - 1 : n \in 1 .. l /\ n # l
  BY <1>3
<1>10. \A n \in 1 .. l : n \in 1 .. l - 1 \/ n = l
  BY <1>3
<1>11. Descending(rest)
  BY <1>2, <1>7, <1>9 DEF Descending
<1>12. /\ \A n \in 1 .. l - 1 : rest[n].slot \in 1 .. l /\ rest[n].slot # x.slot
       /\ x.slot \in 1 .. l
       /\ \A m, n \in 1 .. l - 1 : rest[m].slot = rest[n].slot => m = n
  <2>1. ASSUME NEW n \in 1 .. l - 1 PROVE rest[n].slot \in 1 .. l /\ rest[n].slot # x.slot
    <3>1. rest[n] = q[n] /\ n \in 1 .. l /\ n # l
      BY <1>7, <1>9
    <3>2. q[n].slot # q[l].slot
      BY <1>2, <1>3, <3>1
    <3> QED
      BY <1>2, <1>4, <1>8, <3>1, <3>2
  <2>2. ASSUME NEW m \in 1 .. l - 1, NEW n \in 1 .. l - 1, rest[m].slot = rest[n].slot PROVE m = n
    BY <1>2, <1>7, <1>9, <2>2
  <2> QED
    BY <1>4, <1>8, <2>1, <2>2
<1>13. ASSUME NEW s \in 1 .. l, s # x.slot PROVE \E n \in 1 .. l - 1 : rest[n].slot = s
  <2>1. PICK n \in 1 .. l : q[n].slot = s
    BY <1>2
  <2>2. n \in 1 .. l - 1
    BY <1>4, <1>8, <1>10, <1>13, <2>1
  <2> QED
    BY <1>7, <2>1, <2>2
<1>14. l = (l - 1) + 1 /\ l \in Nat
  BY <1>3
<1>15. /\ QueueOK(q2, l)
       /\ Items(txs2, q2) = Items(txs2, rest) \cup {Item(txs2, x)}
  <2>1. AllBut(rest, x.slot, l)
    BY <1>7, <1>11, <1>12, <1>13, <1>14 DEF AllBut
  <2>2. QueueOK(Enqueued(rest, x), l) /\ Items(txs2, Enqueued(rest, x)) = Items(txs2, rest) \cup {Item(txs2, x)}
    BY <1>8, <2>1, EntryAdded
  <2> QED
    BY <1>0, <2>2
<1>16. Item(txs2, x) = [tx |-> tx, priority |-> p]
  BY <1>4, <1>5, <1>8 DEF Item
<1>17. Items(txs2, rest) = Items(txs, q) \ {Item(txs, low)}
  <2>1. ASSUME NEW y \in Items(txs2, rest) PROVE y \in Items(txs, q) \ {Item(txs, low)}
    <3>1. PICK n \in 1 .. l - 1 : y = Item(txs2, rest[n])
      BY <1>7 DEF Items
    <3>2. rest[n] = q[n] /\ n \in 1 .. l /\ q[n].slot # low.slot /\ q[n].slot \in 1 .. l
      BY <1>2, <1>7, <1>8, <1>9, <1>12
    <3>3. y = Item(txs, q[n])
      BY <1>5, <3>1, <3>2 DEF Item
    <3>4. txs[q[n].slot] # txs[low.slot]
      BY <1>4, <3>2 DEF TxsOK, l
    <3>5. y.tx = txs[q[n].slot] /\ Item(txs, low).tx = txs[low.slot]
      BY <3>3 DEF Item
    <3> QED
      BY <1>2, <3>2, <3>3, <3>4, <3>5 DEF Items
  <2>2. ASSUME NEW y \in Items(txs, q), y # Item(txs, low) PROVE y \in Items(txs2, rest)
    <3>1. PICK n \in 1 .. l : y = Item(txs, q[n])
      BY <1>2 DEF Items
    <3>2. n \in 1 .. l - 1
      BY <1>4, <1>10, <2>2, <3>1
    <3>3. rest[n] = q[n] /\ q[n].slot # low.slot /\ q[n].slot \in 1 .. l
      BY <1>2, <1>7, <1>8, <1>9, <1>12, <3>2
    <3>4. y = Item(txs2, rest[n])
      BY <1>5, <3>1, <3>3 DEF Item
    <3> QED
      BY <1>7, <3>2, <3>4 DEF Items
  <2> QED
    BY <2>1, <2>2
<1>18. Item(txs, low) \in Items(txs, q)
  BY <1>2, <1>3, <1>4 DEF Items
<1>19. ASSUME NEW y \in Items(txs, q) PROVE Item(txs, low).priority <= y.priority
  <2>1. PICK n \in 1 .. l : y = Item(txs, q[n])
    BY <1>2 DEF Items
  <2>2. q[n].priority >= q[l].priority
    <3>1. n <= l
      BY <1>3
    <3> QED
      BY <1>2, <1>3, <3>1 DEF Descending
  <2>3. q[l].priority <= q[n].priority
    BY <1>3, <1>4, <2>2
  <2> QED
    BY <1>4, <2>1, <2>3 DEF Item
<1>21. Item(txs, low) \in Promise!Lowest(Items(txs, q))
  BY <1>18, <1>19 DEF Promise!Lowest
<1>20. HasOf(txs2, tx, txs)
  BY <1>5 DEF HasOf, l
<1> QED
  BY <1>5, <1>6, <1>15, <1>16, <1>17, <1>20, <1>21 DEF l

-----------------------------------------------------------------------------
(* The pool.                                                               *)

\* The transactions of the index i are those of its tick.
OfTick(first, begin, i, txs) ==
  \A n \in 1 .. Len(txs) :
    TxTick[txs[n]] \in Ticks(first) /\ Index(first, begin, TxTick[txs[n]]) = i

\* PoolInv and Kept, in the terms above.
PoolHolds ==
  /\ firstStoredTick \in Nat /\ buffersBeginIndex \in RingIndex
  /\ tickTransactions = [i \in RingIndex |-> tickTransactions[i]]
  /\ txsPriorities = [i \in RingIndex |-> txsPriorities[i]]
  /\ \A i \in RingIndex :
       /\ TxsOK(tickTransactions[i])
       /\ QueueOK(txsPriorities[i], Len(tickTransactions[i]))
       /\ OfTick(firstStoredTick, buffersBeginIndex, i, tickTransactions[i])

KeptItems ==
  [t \in Ticks(firstStoredTick) |->
     Items(tickTransactions[Index(firstStoredTick, buffersBeginIndex, t)],
           txsPriorities[Index(firstStoredTick, buffersBeginIndex, t)])]

\* They say the same.
LEMMA PoolInvIs == PoolInv <=> PoolHolds
<1>1. ASSUME PoolInv PROVE PoolHolds
  <2>1. /\ firstStoredTick \in Nat /\ buffersBeginIndex \in RingIndex
        /\ tickTransactions \in [RingIndex -> Seq(PoolTx)]
        /\ txsPriorities \in [RingIndex -> Seq(PoolEntry)]
    BY <1>1 DEF PoolInv, PoolTypeOK
  <2> SUFFICES ASSUME NEW i \in RingIndex
               PROVE  /\ TxsOK(tickTransactions[i])
                      /\ QueueOK(txsPriorities[i], Len(tickTransactions[i]))
                      /\ OfTick(firstStoredTick, buffersBeginIndex, i, tickTransactions[i])
    BY <2>1 DEF PoolHolds
  <2> DEFINE txs == tickTransactions[i]
             q == txsPriorities[i]
  <2>2. txs \in Seq(PoolTx) /\ q \in Seq(PoolEntry) /\ Len(txs) <= MaxTxsPerTick
    BY <1>1, <2>1 DEF PoolInv, PoolTypeOK, Saved
  <2>3. DOMAIN txs = 1 .. Len(txs) /\ DOMAIN q = 1 .. Len(q)
    BY <2>2, LenProperties
  <2>4. IndexInPlace(i) /\ QueueInOrder(i)
    BY <1>1 DEF PoolInv
  <2>5. TxsOK(txs)
    BY <2>2, <2>3, <2>4 DEF TxsOK, IndexInPlace
  <2>6. QueueOK(q, Len(txs))
    BY <2>2, <2>3, <2>4 DEF QueueOK, QueueInOrder, Saved, Descending
  <2>7. ASSUME NEW n \in 1 .. Len(txs)
        PROVE  /\ TxTick[txs[n]] \in Ticks(firstStoredTick)
               /\ Index(firstStoredTick, buffersBeginIndex, TxTick[txs[n]]) = i
    <3>1. TxTick[txs[n]] \in Nat
      BY <2>2, ElementOfSeq, PoolAssumption
    <3>2. TickInStorage(TxTick[txs[n]]) /\ TickToIndex(TxTick[txs[n]]) = i
      BY <2>3, <2>4 DEF IndexInPlace
    <3> QED
      BY <2>1, <3>1, <3>2, IndicesOfWindow
  <2> QED
    BY <2>5, <2>6, <2>7 DEF OfTick
<1>2. ASSUME PoolHolds PROVE PoolInv
  <2>1. /\ firstStoredTick \in Nat /\ buffersBeginIndex \in RingIndex
        /\ tickTransactions = [i \in RingIndex |-> tickTransactions[i]]
        /\ txsPriorities = [i \in RingIndex |-> txsPriorities[i]]
    BY <1>2 DEF PoolHolds
  <2>2. ASSUME NEW i \in RingIndex
        PROVE  /\ tickTransactions[i] \in Seq(PoolTx) /\ txsPriorities[i] \in Seq(PoolEntry)
               /\ Saved(i) <= MaxTxsPerTick /\ IndexInPlace(i) /\ QueueInOrder(i)
    <3> DEFINE txs == tickTransactions[i]
               q == txsPriorities[i]
    <3>1. /\ TxsOK(txs) /\ QueueOK(q, Len(txs))
          /\ OfTick(firstStoredTick, buffersBeginIndex, i, txs)
      BY <1>2 DEF PoolHolds
    <3>2. txs \in Seq(PoolTx) /\ q \in Seq(PoolEntry) /\ Saved(i) <= MaxTxsPerTick
      BY <3>1 DEF TxsOK, QueueOK, Saved
    <3>3. DOMAIN txs = 1 .. Len(txs) /\ DOMAIN q = 1 .. Len(q)
      BY <3>2, LenProperties
    <3>4. ASSUME NEW n \in DOMAIN txs
          PROVE  TickInStorage(TxTick[txs[n]]) /\ TickToIndex(TxTick[txs[n]]) = i
      <4>1. TxTick[txs[n]] \in Nat
        BY <3>2, <3>3, ElementOfSeq, PoolAssumption
      <4> QED
        BY <2>1, <3>1, <3>3, <4>1, IndicesOfWindow DEF OfTick
    <3>5. IndexInPlace(i)
      BY <3>1, <3>3, <3>4 DEF IndexInPlace, TxsOK
    <3>6. QueueInOrder(i)
      BY <3>1, <3>3 DEF QueueInOrder, QueueOK, Saved, Descending
    <3> QED
      BY <3>2, <3>5, <3>6
  <2>3. /\ tickTransactions \in [RingIndex -> Seq(PoolTx)]
        /\ txsPriorities \in [RingIndex -> Seq(PoolEntry)]
    BY <2>1, <2>2
  <2> QED
    BY <2>1, <2>2, <2>3 DEF PoolInv, PoolTypeOK
<1> QED
  BY <1>1, <1>2

\* The same after a step.
LEMMA PoolInvIsNext == PoolInv' <=> PoolHolds'
BY PoolInvIs, PTL

\* The abstract state is that of the items.
LEMMA KeptIs == PoolHolds => Kept = KeptItems
<1> SUFFICES ASSUME PoolHolds PROVE Kept = KeptItems
  OBVIOUS
<1>1. firstStoredTick \in Nat /\ buffersBeginIndex \in RingIndex
  BY DEF PoolHolds
<1>2. ASSUME NEW t \in Window
      PROVE  {[tx |-> tickTransactions[TickToIndex(t)][e.slot], priority |-> e.priority] :
                e \in {txsPriorities[TickToIndex(t)][n] :
                         n \in DOMAIN txsPriorities[TickToIndex(t)]}}
             = Items(tickTransactions[TickToIndex(t)], txsPriorities[TickToIndex(t)])
  <2> DEFINE i == TickToIndex(t)
             q == txsPriorities[i]
  <2>1. i \in RingIndex
    BY <1>1, IndexIs, IndicesOfWindow
  <2>2. q \in Seq(PoolEntry)
    BY <2>1 DEF PoolHolds, QueueOK
  <2>3. DOMAIN q = 1 .. Len(q)
    BY <2>2, LenProperties
  <2> HIDE DEF i, q
  <2>4. {[tx |-> tickTransactions[i][e.slot], priority |-> e.priority] : e \in {q[n] : n \in DOMAIN q}}
          = Items(tickTransactions[i], q)
    BY <2>3 DEF Items, Item
  <2> QED
    BY <2>4 DEF i, q
<1>3. Kept = [t \in Window |-> Items(tickTransactions[TickToIndex(t)], txsPriorities[TickToIndex(t)])]
  BY <1>2 DEF Kept
<1> QED
  BY <1>3, IndicesOfWindow DEF KeptItems

\* The same after a step.
LEMMA KeptIsNext == PoolHolds' => Kept' = KeptItems'
<1> DEFINE Agree == Kept = KeptItems
<1>1. PoolHolds => Agree
  BY KeptIs
<1>2. PoolHolds' => Agree'
  BY <1>1, PTL
<1> QED
  BY <1>2

\* The empty pool.
LEMMA EmptyTick ==
  /\ TxsOK(<< >>) /\ QueueOK(<< >>, 0) /\ Len(<< >>) = 0
  /\ \A txs : Items(txs, << >>) = {}
  /\ \A first, begin, i : OfTick(first, begin, i, << >>)
<1>1. << >> \in Seq(PoolTx) /\ << >> \in Seq(PoolEntry) /\ Len(<< >>) = 0
  BY EmptySeq
<1> QED
  BY <1>1, PoolAssumption DEF TxsOK, QueueOK, Descending, Items, OfTick

\* The pool is empty when the node starts.
LEMMA PoolHoldsInit == PoolInit => PoolHolds
<1> SUFFICES ASSUME PoolInit PROVE PoolHolds
  OBVIOUS
<1>1. firstStoredTick \in Nat /\ buffersBeginIndex \in RingIndex
  BY PoolAssumption DEF PoolInit, RingIndex
<1>2. /\ tickTransactions = [i \in RingIndex |-> << >>]
      /\ txsPriorities = [i \in RingIndex |-> << >>]
  BY DEF PoolInit
<1> QED
  BY <1>1, <1>2, EmptyTick DEF PoolHolds

AllOf(txs, t) == \A n \in 1 .. Len(txs) : TxTick[txs[n]] = t

\* What is stored for one tick changes.
LEMMA TickChanges ==
  ASSUME PoolHolds, NEW t \in Window, NEW i, i = TickToIndex(t), NEW txs, NEW q,
         tickTransactions' = [tickTransactions EXCEPT ![i] = txs],
         txsPriorities' = [txsPriorities EXCEPT ![i] = q],
         firstStoredTick' = firstStoredTick, buffersBeginIndex' = buffersBeginIndex,
         TxsOK(txs), QueueOK(q, Len(txs)), AllOf(txs, t)
  PROVE  PoolHolds' /\ Window' = Window /\ Promise!Keep(t, Items(txs, q))
<1>1. firstStoredTick \in Nat /\ buffersBeginIndex \in RingIndex
  BY DEF PoolHolds
<1>2. /\ Window = Ticks(firstStoredTick) /\ Window' = Window
      /\ i = Index(firstStoredTick, buffersBeginIndex, t) /\ t \in Ticks(firstStoredTick)
      /\ i \in RingIndex
  BY <1>1, IndexIs, IndicesOfWindow
<1>3. /\ tickTransactions' = [j \in RingIndex |-> tickTransactions'[j]]
      /\ txsPriorities' = [j \in RingIndex |-> txsPriorities'[j]]
      /\ tickTransactions'[i] = txs /\ txsPriorities'[i] = q
      /\ \A j \in RingIndex \ {i} : /\ tickTransactions'[j] = tickTransactions[j]
                                    /\ txsPriorities'[j] = txsPriorities[j]
  BY <1>2 DEF PoolHolds
<1>4. OfTick(firstStoredTick, buffersBeginIndex, i, txs)
  BY <1>2 DEF OfTick, AllOf
<1>5. PoolHolds'
  <2> SUFFICES ASSUME NEW j \in RingIndex
               PROVE  /\ TxsOK(tickTransactions'[j])
                      /\ QueueOK(txsPriorities'[j], Len(tickTransactions'[j]))
                      /\ OfTick(firstStoredTick, buffersBeginIndex, j, tickTransactions'[j])
    BY <1>1, <1>3 DEF PoolHolds
  <2>1. CASE j = i
    BY <1>3, <1>4, <2>1
  <2>2. CASE j # i
    BY <1>3, <2>2 DEF PoolHolds
  <2> QED
    BY <2>1, <2>2
<1>6. Kept = KeptItems /\ Kept' = KeptItems'
  BY <1>5, KeptIs, KeptIsNext
<1>7. ASSUME NEW u \in Ticks(firstStoredTick)
      PROVE  KeptItems'[u] = [KeptItems EXCEPT ![t] = Items(txs, q)][u]
  <2>1. Index(firstStoredTick, buffersBeginIndex, u) \in RingIndex
    BY <1>1, IndexIs
  <2>2. CASE u = t
    BY <1>2, <1>3, <2>2 DEF KeptItems
  <2>3. CASE u # t
    <3>1. Index(firstStoredTick, buffersBeginIndex, u) # i
      BY <1>1, <1>2, <2>3, IndexIs
    <3> QED
      BY <1>3, <2>1, <2>3, <3>1 DEF KeptItems
  <2> QED
    BY <2>2, <2>3
<1>8. KeptItems' = [KeptItems EXCEPT ![t] = Items(txs, q)]
  BY <1>7 DEF KeptItems
<1> QED
  BY <1>2, <1>5, <1>6, <1>8 DEF Promise!Keep

\* A new transaction is an offer that the pool accepts.
LEMMA AddTxKeeps ==
  ASSUME PoolHolds, AddTx
  PROVE  PoolHolds' /\ Promise!Offer
<1>1. PICK tx \in PoolTx, p \in TxPriority :
        /\ TickInStorage(TxTick[tx])
        /\ \A n \in 1 .. Saved(TickToIndex(TxTick[tx])) :
             tickTransactions[TickToIndex(TxTick[tx])][n] # tx
        /\ \/ AddToFreeSlot(TickToIndex(TxTick[tx]), tx, p)
           \/ ReplaceLowest(TickToIndex(TxTick[tx]), tx, p)
        /\ firstStoredTick' = firstStoredTick /\ buffersBeginIndex' = buffersBeginIndex
  BY DEF AddTx
<1> DEFINE t == TxTick[tx]
           i == TickToIndex(t)
           txs == tickTransactions[i]
           q == txsPriorities[i]
           item == [tx |-> tx, priority |-> p]
<1>2. firstStoredTick \in Nat /\ buffersBeginIndex \in RingIndex
  BY DEF PoolHolds
<1>3. t \in Window
  <2>1. t \in Nat
    BY PoolAssumption
  <2> QED
    BY <1>1, <1>2, <2>1, IndicesOfWindow
<1>4. i \in RingIndex /\ i = Index(firstStoredTick, buffersBeginIndex, t)
  BY <1>2, <1>3, IndexIs, IndicesOfWindow
<1>5. /\ TxsOK(txs) /\ QueueOK(q, Len(txs))
      /\ \A n \in 1 .. Len(txs) : TxTick[txs[n]] \in Ticks(firstStoredTick)
      /\ \A n \in 1 .. Len(txs) : Index(firstStoredTick, buffersBeginIndex, TxTick[txs[n]]) = i
  BY <1>4 DEF PoolHolds, OfTick
<1>6. /\ \A n \in 1 .. Len(txs) : TxTick[txs[n]] = t
      /\ IsNew(tx, txs)
  <2>1. t \in Ticks(firstStoredTick)
    BY <1>3, IndicesOfWindow
  <2>2. ASSUME NEW n \in 1 .. Len(txs) PROVE TxTick[txs[n]] = t
    <3>1. /\ TxTick[txs[n]] \in Ticks(firstStoredTick)
          /\ Index(firstStoredTick, buffersBeginIndex, TxTick[txs[n]])
               = Index(firstStoredTick, buffersBeginIndex, t)
      BY <1>4, <1>5
    <3> QED
      BY <1>2, <2>1, <3>1, IndexIs
  <2>3. IsNew(tx, txs)
    BY <1>1 DEF Saved, IsNew
  <2> QED
    BY <2>2, <2>3
<1>7. /\ Kept[t] = Items(txs, q)
      /\ Cardinality(Kept[t]) = Len(txs)
      /\ Promise!Accepted(t, item)
  <2>1. Kept[t] = Items(txs, q)
    BY <1>3, <1>4, KeptIs, IndicesOfWindow DEF KeptItems
  <2>2. /\ Cardinality(Items(txs, q)) = Len(txs)
        /\ {y.tx : y \in Items(txs, q)} = {txs[n] : n \in 1 .. Len(txs)}
    <3> HIDE DEF txs, q
    <3> QED
      BY <1>5, ItemsCounted
  <2>3. item.tx \notin {txs[n] : n \in 1 .. Len(txs)}
    BY <1>6 DEF IsNew
  <2> QED
    BY <2>1, <2>2, <2>3 DEF Promise!Accepted
<1>8. Len(txs) \in Nat /\ MaxTxsPerTick \in Nat
  BY <1>5, LenProperties, PoolAssumption DEF TxsOK
<1>9. CASE AddToFreeSlot(i, tx, p)
  <2> DEFINE txs2 == Append(txs, tx)
             q2 == Enqueued(q, [slot |-> Len(txs) + 1, priority |-> p])
  <2>1. Len(txs) < MaxTxsPerTick
    BY <1>9 DEF AddToFreeSlot, Saved
  <2>2. /\ tickTransactions' = [tickTransactions EXCEPT ![i] = txs2]
        /\ txsPriorities' = [txsPriorities EXCEPT ![i] = q2]
    BY <1>9 DEF AddToFreeSlot, Saved
  <2>3. /\ TxsOK(txs2) /\ QueueOK(q2, Len(txs2))
        /\ HasOf(txs2, tx, txs)
        /\ Items(txs2, q2) = Items(txs, q) \cup {item}
    <3> HIDE DEF txs, q
    <3> QED
      BY <1>5, <1>6, <2>1, StoredInFreeSlot
  <2>4. AllOf(txs2, t)
    BY <1>6, <2>3 DEF AllOf, HasOf
  <2>5. PoolHolds' /\ Window' = Window /\ Promise!Keep(t, Items(txs2, q2))
    <3>1. i = TickToIndex(t) /\ firstStoredTick' = firstStoredTick
                            /\ buffersBeginIndex' = buffersBeginIndex
      BY <1>1
    <3>2. TxsOK(txs2) /\ QueueOK(q2, Len(txs2))
      BY <2>3
    <3> HIDE DEF txs2, q2, t, i
    <3> QED
      BY <1>3, <2>2, <2>4, <3>1, <3>2, TickChanges
  <2>6. Kept' = [Kept EXCEPT ![t] = Kept[t] \cup {item}]
    BY <1>7, <2>3, <2>5 DEF Promise!Keep
  <2>7. item \in Kept'[t]
    BY <1>3, <2>6 DEF Kept
  <2> HIDE DEF t, item
  <2>8. Promise!Offer
    <3>1. Cardinality(Kept[t]) < MaxTxsPerTick
      BY <1>7, <2>1
    <3>2. Promise!Keep(t, Kept[t] \cup {item})
      BY <2>6 DEF Promise!Keep
    <3>3. Window' = Window /\ t \in Window /\ item \in Kept'[t] /\ Promise!Accepted(t, item)
      BY <1>3, <1>7, <2>5, <2>7
    <3> QED
      BY <3>1, <3>2, <3>3 DEF Promise!Offer, Promise!Cardinality, Cardinality
  <2> QED
    BY <2>5, <2>8
<1>10. CASE ReplaceLowest(i, tx, p)
  <2> DEFINE low == q[Len(q)]
             txs2 == Replaced(txs, low.slot, tx)
             q2 == Enqueued(SubSeq(q, 1, Len(q) - 1), [slot |-> low.slot, priority |-> p])
             lowest == Item(txs, low)
  <2>1. Len(txs) >= MaxTxsPerTick /\ q # << >> /\ low.priority < p
    BY <1>10 DEF ReplaceLowest, Saved
  <2>2. /\ tickTransactions' = [tickTransactions EXCEPT ![i] = txs2]
        /\ txsPriorities' = [txsPriorities EXCEPT ![i] = q2]
    BY <1>10 DEF ReplaceLowest, Replaced
  <2>3. /\ TxsOK(txs2) /\ Len(txs2) = Len(txs) /\ QueueOK(q2, Len(txs2))
        /\ HasOf(txs2, tx, txs)
        /\ lowest \in Promise!Lowest(Items(txs, q))
        /\ Items(txs2, q2) = (Items(txs, q) \ {lowest}) \cup {item}
    <3>1. TxsOK(txs) /\ QueueOK(q, Len(txs)) /\ q # << >>
      BY <1>5, <2>1
    <3>2. IsNew(tx, txs)
      BY <1>6
    <3>3. /\ low = q[Len(q)] /\ txs2 = Replaced(txs, low.slot, tx)
          /\ q2 = Enqueued(SubSeq(q, 1, Len(q) - 1), [slot |-> low.slot, priority |-> p])
      OBVIOUS
    <3> HIDE DEF txs, q, low, txs2, q2
    <3> QED
      BY <3>1, <3>2, <3>3, StoredInPlaceOfLowest
  <2>4. AllOf(txs2, t)
    BY <1>6, <2>3 DEF AllOf, HasOf
  <2>5. PoolHolds' /\ Window' = Window /\ Promise!Keep(t, Items(txs2, q2))
    <3>1. i = TickToIndex(t) /\ firstStoredTick' = firstStoredTick
                            /\ buffersBeginIndex' = buffersBeginIndex
      BY <1>1
    <3>2. TxsOK(txs2) /\ QueueOK(q2, Len(txs2))
      BY <2>3
    <3> HIDE DEF txs2, q2, t, i
    <3> QED
      BY <1>3, <2>2, <2>4, <3>1, <3>2, TickChanges
  <2>6. Kept' = [Kept EXCEPT ![t] = (Kept[t] \ {lowest}) \cup {item}]
    BY <1>7, <2>3, <2>5 DEF Promise!Keep
  <2>7. item \in Kept'[t]
    BY <1>3, <2>6 DEF Kept
  <2>8. lowest \in Promise!Lowest(Kept[t]) /\ lowest.priority < item.priority
    <3>1. lowest.priority = low.priority /\ item.priority = p
      BY DEF Item
    <3> QED
      BY <1>7, <2>1, <2>3, <3>1
  <2>9. ~(Cardinality(Kept[t]) < MaxTxsPerTick)
    BY <1>7, <1>8, <2>1
  <2> HIDE DEF t, item, lowest
  <2>10. Promise!Offer
    <3>1. Promise!Keep(t, (Kept[t] \ {lowest}) \cup {item})
      BY <2>6 DEF Promise!Keep
    <3>2. Window' = Window /\ t \in Window /\ item \in Kept'[t] /\ Promise!Accepted(t, item)
      BY <1>3, <1>7, <2>5, <2>7
    <3> QED
      BY <2>8, <2>9, <3>1, <3>2 DEF Promise!Offer, Promise!Cardinality, Cardinality
  <2> QED
    BY <2>5, <2>10
<1> QED
  BY <1>1, <1>9, <1>10

\* The indices in gone are emptied, and the ticks that stay keep their index.
LEMMA WindowMoves ==
  ASSUME PoolHolds, NEW gone,
         tickTransactions' = Emptied(tickTransactions, gone),
         txsPriorities' = Emptied(txsPriorities, gone),
         firstStoredTick' \in Nat, buffersBeginIndex' \in RingIndex,
         NEW stay, stay \subseteq Window \cap Window',
         \A t \in Window : TickToIndex(t) \notin gone => t \in stay,
         \A t \in stay : TickToIndex(t)' = TickToIndex(t) /\ TickToIndex(t) \notin gone,
         \A t \in Window' \ stay : TickToIndex(t)' \in gone
  PROVE  PoolHolds' /\ \A t \in Window' : Kept'[t] = IF t \in stay THEN Kept[t] ELSE {}
<1>1. firstStoredTick \in Nat /\ buffersBeginIndex \in RingIndex
  BY DEF PoolHolds
<1>2. /\ Window = Ticks(firstStoredTick) /\ Window' = Ticks(firstStoredTick')
      /\ \A t : TickToIndex(t) = Index(firstStoredTick, buffersBeginIndex, t)
      /\ \A t : TickToIndex(t)' = Index(firstStoredTick', buffersBeginIndex', t)
  BY IndicesOfWindow
<1>3. /\ tickTransactions' = [i \in RingIndex |-> tickTransactions'[i]]
      /\ txsPriorities' = [i \in RingIndex |-> txsPriorities'[i]]
      /\ \A i \in RingIndex :
           /\ i \in gone => tickTransactions'[i] = << >> /\ txsPriorities'[i] = << >>
           /\ i \notin gone => /\ tickTransactions'[i] = tickTransactions[i]
                               /\ txsPriorities'[i] = txsPriorities[i]
  BY DEF Emptied
<1>4. ASSUME NEW i \in RingIndex
      PROVE  /\ TxsOK(tickTransactions'[i])
             /\ QueueOK(txsPriorities'[i], Len(tickTransactions'[i]))
             /\ OfTick(firstStoredTick', buffersBeginIndex', i, tickTransactions'[i])
  <2>1. CASE i \in gone
    BY <1>3, <2>1, EmptyTick
  <2>2. CASE i \notin gone
    <3>1. /\ TxsOK(tickTransactions[i])
          /\ QueueOK(txsPriorities[i], Len(tickTransactions[i]))
          /\ OfTick(firstStoredTick, buffersBeginIndex, i, tickTransactions[i])
      BY DEF PoolHolds
    <3>2. \A t \in Ticks(firstStoredTick) :
            Index(firstStoredTick, buffersBeginIndex, t) = i =>
              t \in Ticks(firstStoredTick') /\ Index(firstStoredTick', buffersBeginIndex', t) = i
      BY <1>2, <2>2
    <3>3. OfTick(firstStoredTick', buffersBeginIndex', i, tickTransactions[i])
      BY <3>1, <3>2 DEF OfTick
    <3> QED
      BY <1>3, <2>2, <3>1, <3>3
  <2> QED
    BY <2>1, <2>2
<1>5. PoolHolds'
  BY <1>3, <1>4 DEF PoolHolds
<1>6. Kept = KeptItems /\ Kept' = KeptItems'
  BY <1>5, KeptIs, KeptIsNext
<1>7. ASSUME NEW t \in Window' PROVE Kept'[t] = IF t \in stay THEN Kept[t] ELSE {}
  <2> DEFINE i == Index(firstStoredTick', buffersBeginIndex', t)
  <2>1. i \in RingIndex
    BY <1>2, IndexIs
  <2>2. Kept'[t] = Items(tickTransactions'[i], txsPriorities'[i])
    BY <1>2, <1>6 DEF KeptItems
  <2>3. CASE t \in stay
    <3>1. i = Index(firstStoredTick, buffersBeginIndex, t) /\ i \notin gone /\ t \in Window
      BY <1>2, <2>3
    <3>2. Kept[t] = Items(tickTransactions[i], txsPriorities[i])
      BY <1>2, <1>6, <3>1 DEF KeptItems
    <3> QED
      BY <1>3, <2>1, <2>2, <2>3, <3>1, <3>2
  <2>4. CASE t \notin stay
    <3>1. i \in gone
      BY <1>2, <2>4
    <3> QED
      BY <1>3, <2>1, <2>2, <2>4, <3>1, EmptyTick
  <2> QED
    BY <2>3, <2>4
<1> QED
  BY <1>5, <1>7

\* The first tick of a window.
LEMMA FirstOfWindow ==
  ASSUME NEW first \in Nat
  PROVE  Promise!First(Ticks(first)) = first
<1>1. first \in Ticks(first) /\ \A u \in Ticks(first) : u \in Int /\ first <= u
  BY PoolAssumption DEF Ticks
<1>2. \A t \in Ticks(first) : (\A u \in Ticks(first) : t <= u) => t = first
  BY <1>1
<1> QED
  BY <1>1, <1>2 DEF Promise!First

\* The window moves on by a tick.
LEMMA IncrementKeeps ==
  ASSUME PoolHolds, IncrementFirstStoredTick
  PROVE  PoolHolds' /\ Promise!PoolStep
<1> DEFINE f == firstStoredTick
           b == buffersBeginIndex
           stay == Ticks(f) \ {f}
<1>1. f \in Nat /\ b \in RingIndex /\ PoolTicks \in Nat \ {0} /\ b \in 0 .. PoolTicks - 1
  BY PoolAssumption DEF PoolHolds, RingIndex
<1>2. /\ Window = Ticks(f) /\ Window' = Ticks(firstStoredTick')
      /\ \A t : TickToIndex(t) = Index(f, b, t)
      /\ \A t : TickToIndex(t)' = Index(firstStoredTick', buffersBeginIndex', t)
  BY IndicesOfWindow
<1>3. firstStoredTick' = f + 1 /\ buffersBeginIndex' = IF b + 1 = PoolTicks THEN 0 ELSE b + 1
  <2>1. firstStoredTick' = f + 1 /\ buffersBeginIndex' = (b + 1) % PoolTicks
    BY DEF IncrementFirstStoredTick
  <2>2. b + 1 < PoolTicks => (b + 1) % PoolTicks = b + 1
    BY <1>1
  <2>3. PoolTicks % PoolTicks = 0
    BY <1>1
  <2> QED
    BY <1>1, <2>1, <2>2, <2>3
<1>4. firstStoredTick' \in Nat /\ buffersBeginIndex' \in RingIndex
  BY <1>1, <1>3 DEF RingIndex
<1>5. f \in Ticks(f) /\ Index(f, b, f) = b
  <2>1. f \in Ticks(f)
    BY <1>1 DEF Ticks
  <2> HIDE DEF f, b
  <2> QED
    BY <1>1, <2>1, IndexIs
<1>6. ASSUME NEW t \in stay
      PROVE  /\ t \in Ticks(f) /\ t \in Ticks(firstStoredTick')
             /\ Index(firstStoredTick', buffersBeginIndex', t) = Index(f, b, t)
             /\ Index(f, b, t) # b
  <2>1. t \in Ticks(f) /\ t # f /\ t \in Int
    BY <1>1 DEF Ticks
  <2>2. t \in Ticks(firstStoredTick')
    BY <1>1, <1>3, <2>1 DEF Ticks
  <2>3. Index(f, b, t) # b
    BY <1>1, <1>5, <2>1, IndexIs
  <2>4. Index(f, b, t) = IF t - f + b < PoolTicks THEN t - f + b ELSE t - f + b - PoolTicks
    BY <1>1, <2>1, IndexIs
  <2>5. Index(firstStoredTick', buffersBeginIndex', t)
          = IF t - firstStoredTick' + buffersBeginIndex' < PoolTicks
            THEN t - firstStoredTick' + buffersBeginIndex'
            ELSE t - firstStoredTick' + buffersBeginIndex' - PoolTicks
    BY <1>4, <2>2, IndexIs
  <2>6. t - f < PoolTicks /\ t - f > 0
    BY <1>1, <2>1 DEF Ticks
  <2>7. Index(firstStoredTick', buffersBeginIndex', t) = Index(f, b, t)
    <3> HIDE DEF f, b
    <3> QED
      BY <1>1, <1>3, <2>1, <2>4, <2>5, <2>6
  <2> QED
    BY <2>1, <2>2, <2>3, <2>7
<1>7. ASSUME NEW t \in Ticks(firstStoredTick'), t \notin stay
      PROVE  Index(firstStoredTick', buffersBeginIndex', t) = b
  <2>1. t = f + PoolTicks
    BY <1>1, <1>3, <1>7 DEF Ticks
  <2>2. Index(firstStoredTick', buffersBeginIndex', t)
          = IF t - firstStoredTick' + buffersBeginIndex' < PoolTicks
            THEN t - firstStoredTick' + buffersBeginIndex'
            ELSE t - firstStoredTick' + buffersBeginIndex' - PoolTicks
    BY <1>4, IndexIs
  <2> HIDE DEF f, b
  <2> QED
    BY <1>1, <1>3, <2>1, <2>2
<1>8. PoolHolds' /\ \A t \in Window' : Kept'[t] = IF t \in stay THEN Kept[t] ELSE {}
  <2>1. /\ tickTransactions' = Emptied(tickTransactions, {b})
        /\ txsPriorities' = Emptied(txsPriorities, {b})
    BY <1>2, <1>5 DEF IncrementFirstStoredTick
  <2>2. stay \subseteq Window \cap Window'
    BY <1>2, <1>6
  <2>3. \A t \in Window : TickToIndex(t) \notin {b} => t \in stay
    BY <1>2, <1>5
  <2>4. \A t \in stay : TickToIndex(t)' = TickToIndex(t) /\ TickToIndex(t) \notin {b}
    BY <1>2, <1>6
  <2>5. \A t \in Window' \ stay : TickToIndex(t)' \in {b}
    BY <1>2, <1>7
  <2> HIDE DEF stay, b
  <2> QED
    BY <1>4, <2>1, <2>2, <2>3, <2>4, <2>5, WindowMoves
<1>9. Promise!First(Window') = f + 1
  BY <1>2, <1>3, <1>4, FirstOfWindow
<1>10. CASE PoolTicks = 1
  <2>1. stay = {} /\ f + 1 \notin Window
    BY <1>1, <1>2, <1>10 DEF Ticks
  <2>2. Promise!Restart
    BY <1>8, <1>9, <2>1 DEF Promise!Restart
  <2> QED
    BY <1>8, <2>2 DEF Promise!PoolStep
<1>11. CASE PoolTicks # 1
  <2>1. f + 1 \in Window /\ f \in Window /\ f \notin Window'
    BY <1>1, <1>2, <1>3, <1>11 DEF Ticks
  <2>2. \A t \in Window' : Kept'[t] = IF t \in Window THEN Kept[t] ELSE {}
    BY <1>2, <1>8, <2>1
  <2>3. Promise!Move
    BY <1>9, <2>1, <2>2 DEF Promise!Move
  <2> QED
    BY <1>8, <2>3 DEF Promise!PoolStep
<1> QED
  BY <1>10, <1>11

\* An epoch begins in the window: the ticks before it are gone, and the others keep their index.
LEMMA IndicesFrom ==
  ASSUME NEW f \in Nat, NEW b \in RingIndex, buffersBeginIndex = b, NEW n \in Ticks(f),
         NEW m, m = Index(f, b, n)
  PROVE  /\ m \in RingIndex
         /\ \A t \in Ticks(f) : Index(f, b, t) \in Discarded(m) <=> t < n
         /\ \A t \in Ticks(f) : t >= n => t \in Ticks(n) /\ Index(n, m, t) = Index(f, b, t)
         /\ \A t \in Ticks(n) : (t \in Ticks(f) /\ t >= n) \/ Index(n, m, t) \in Discarded(m)
<1>1. /\ PoolTicks \in Nat \ {0} /\ b \in 0 .. PoolTicks - 1 /\ f \in Nat
      /\ \A t : t \in Ticks(f) <=> t \in f .. f + PoolTicks - 1
      /\ \A t : t \in Ticks(n) <=> t \in n .. n + PoolTicks - 1
  BY PoolAssumption DEF RingIndex, Ticks
<1>2. m \in RingIndex /\ n \in Nat
  BY <1>1, IndexIs
<1>3. m \in 0 .. PoolTicks - 1 /\ m = IF n - f + b < PoolTicks THEN n - f + b ELSE n - f + b - PoolTicks
  BY <1>1, <1>2, IndexIs DEF RingIndex
<1>4. /\ \A t \in Ticks(f) : Index(f, b, t) = IF t - f + b < PoolTicks THEN t - f + b
                                              ELSE t - f + b - PoolTicks
      /\ \A t \in Ticks(n) : Index(n, m, t) = IF t - n + m < PoolTicks THEN t - n + m
                                              ELSE t - n + m - PoolTicks
  BY <1>2, IndexIs
<1>5. \A i \in Int : i \in Discarded(m) <=> IF m < b THEN (0 <= i /\ i < m) \/ (b <= i /\ i < PoolTicks)
                                            ELSE b <= i /\ i < m
  BY <1>1, <1>3 DEF Discarded
<1>6. ASSUME NEW t \in Ticks(f)
      PROVE  /\ Index(f, b, t) \in Discarded(m) <=> t < n
             /\ t >= n => t \in Ticks(n) /\ Index(n, m, t) = Index(f, b, t)
  <2>1. t \in Int /\ f <= t /\ t < f + PoolTicks /\ n \in Int /\ f <= n /\ n < f + PoolTicks
    BY <1>1
  <2>2. PICK i \in Int : i = Index(f, b, t) /\ i = IF t - f + b < PoolTicks THEN t - f + b
                                                   ELSE t - f + b - PoolTicks
    BY <1>1, <1>4, <2>1
  <2>3. i \in Discarded(m) <=> t < n
    BY <1>1, <1>3, <1>5, <2>1, <2>2
  <2>4. ASSUME t >= n PROVE t \in Ticks(n) /\ Index(n, m, t) = Index(f, b, t)
    <3>1. t \in Ticks(n)
      BY <1>1, <2>1, <2>4
    <3>2. Index(n, m, t) = IF t - n + m < PoolTicks THEN t - n + m ELSE t - n + m - PoolTicks
      BY <1>4, <3>1
    <3>3. Index(n, m, t) = i
      BY <1>1, <1>3, <2>1, <2>2, <2>4, <3>2
    <3> QED
      BY <2>2, <3>1, <3>3
  <2> QED
    BY <2>2, <2>3, <2>4
<1>7. ASSUME NEW t \in Ticks(n), ~(t \in Ticks(f) /\ t >= n) PROVE Index(n, m, t) \in Discarded(m)
  <2>1. t \in Int /\ f + PoolTicks <= t /\ t < n + PoolTicks /\ n \in Int /\ f <= n /\ n < f + PoolTicks
    BY <1>1, <1>7
  <2>2. PICK i \in Int : i = Index(n, m, t) /\ i = IF t - n + m < PoolTicks THEN t - n + m
                                                   ELSE t - n + m - PoolTicks
    BY <1>3, <1>4, <1>1, <2>1
  <2>3. i \in Discarded(m)
    BY <1>1, <1>3, <1>5, <2>1, <2>2
  <2> QED
    BY <2>2, <2>3
<1> QED
  BY <1>2, <1>6, <1>7

\* An epoch begins, in the window or elsewhere.
LEMMA BeginEpochKeeps ==
  ASSUME PoolHolds, BeginPoolEpoch
  PROVE  PoolHolds' /\ (UNCHANGED poolVars \/ Promise!PoolStep)
<1> DEFINE f == firstStoredTick
           b == buffersBeginIndex
<1>1. f \in Nat /\ b \in RingIndex /\ PoolTicks \in Nat \ {0} /\ MaxPoolTick \in Nat
  BY PoolAssumption DEF PoolHolds
<1>2. PICK n \in 0 .. MaxPoolTick :
        LET newIndex == TickToIndex(n)
            gone == IF TickInStorage(n) THEN Discarded(newIndex) ELSE RingIndex
        IN
        /\ tickTransactions' = Emptied(tickTransactions, gone)
        /\ txsPriorities' = Emptied(txsPriorities, gone)
        /\ buffersBeginIndex' = IF TickInStorage(n) THEN newIndex ELSE 0
        /\ firstStoredTick' = n
  BY DEF BeginPoolEpoch
<1>3. n \in Nat
  BY <1>1
<1>4. /\ Window = Ticks(f) /\ Window' = Ticks(firstStoredTick')
      /\ \A t : TickToIndex(t) = Index(f, b, t)
      /\ \A t : TickToIndex(t)' = Index(firstStoredTick', buffersBeginIndex', t)
      /\ TickInStorage(n) <=> n \in Ticks(f)
  BY <1>1, <1>3, IndicesOfWindow
<1>5. firstStoredTick' = n /\ Promise!First(Window') = n
  BY <1>2, <1>3, <1>4, FirstOfWindow
<1>6. CASE n \in Ticks(f)
  <2> DEFINE m == Index(f, b, n)
             stay == {t \in Ticks(f) : t >= n}
  <2>1. /\ tickTransactions' = Emptied(tickTransactions, Discarded(m))
        /\ txsPriorities' = Emptied(txsPriorities, Discarded(m))
        /\ buffersBeginIndex' = m
    BY <1>2, <1>4, <1>6
  <2>2. /\ m \in RingIndex
        /\ \A t \in Ticks(f) : Index(f, b, t) \in Discarded(m) <=> t < n
        /\ \A t \in Ticks(f) : t >= n => t \in Ticks(n) /\ Index(n, m, t) = Index(f, b, t)
        /\ \A t \in Ticks(n) : (t \in Ticks(f) /\ t >= n) \/ Index(n, m, t) \in Discarded(m)
    <3> HIDE DEF f, b
    <3>1. b = buffersBeginIndex
      BY DEF b
    <3>2. PICK k : k = m
      OBVIOUS
    <3>3. /\ k \in RingIndex
          /\ \A t \in Ticks(f) : Index(f, b, t) \in Discarded(k) <=> t < n
          /\ \A t \in Ticks(f) : t >= n => t \in Ticks(n) /\ Index(n, k, t) = Index(f, b, t)
          /\ \A t \in Ticks(n) : (t \in Ticks(f) /\ t >= n) \/ Index(n, k, t) \in Discarded(k)
      BY <1>1, <1>6, <3>1, <3>2, IndicesFrom
    <3> QED
      BY <3>2, <3>3
  <2> HIDE DEF m
  <2>3. \A t \in Ticks(f) : t \in Int /\ (t < n <=> ~(t >= n))
    <3>1. \A t \in Ticks(f) : t \in Int
      BY <1>1, IndexOf
    <3> QED
      BY <1>3, <3>1
  <2>4. /\ stay \subseteq Window \cap Window'
        /\ \A t \in Window : TickToIndex(t) \notin Discarded(m) => t \in stay
        /\ \A t \in stay : TickToIndex(t)' = TickToIndex(t) /\ TickToIndex(t) \notin Discarded(m)
        /\ \A t \in Window' \ stay : TickToIndex(t)' \in Discarded(m)
    BY <1>4, <1>5, <2>1, <2>2, <2>3
  <2>5. PoolHolds' /\ \A t \in Window' : Kept'[t] = IF t \in stay THEN Kept[t] ELSE {}
    <3>1. firstStoredTick' \in Nat /\ buffersBeginIndex' \in RingIndex
      BY <1>3, <1>5, <2>1, <2>2
    <3> HIDE DEF stay
    <3> QED
      BY <2>1, <2>4, <3>1, WindowMoves
  <2>6. CASE n = f
    <3>1. m = b
      <4>1. Index(f, b, f) = IF f - f + b < PoolTicks THEN f - f + b ELSE f - f + b - PoolTicks
        BY <1>1, <1>6, <2>6, IndexIs
      <4> HIDE DEF f, b
      <4> QED
        BY <1>1, <2>6, <4>1 DEF m, RingIndex
    <3>2. Discarded(m) = {}
      BY <1>1, <3>1 DEF Discarded, RingIndex
    <3>3. tickTransactions' = tickTransactions /\ txsPriorities' = txsPriorities
      BY <2>1, <3>2 DEF Emptied, PoolHolds
    <3>4. UNCHANGED poolVars
      BY <1>5, <2>1, <2>6, <3>1, <3>3 DEF poolVars
    <3> QED
      BY <2>5, <3>4
  <2>7. CASE n # f
    <3>1. f \in Window /\ f \notin Window' /\ n \in Window
      BY <1>1, <1>4, <1>5, <1>6, <2>7 DEF Ticks
    <3>2. \A t \in Window' : t \in stay <=> t \in Window
      <4>1. \A t \in Window' : t >= n
        BY <1>3, <1>4, <1>5 DEF Ticks
      <4> QED
        BY <1>4, <4>1
    <3>3. \A t \in Window' : Kept'[t] = IF t \in Window THEN Kept[t] ELSE {}
      BY <2>5, <3>2
    <3>4. Promise!Move
      BY <1>5, <3>1, <3>3 DEF Promise!Move
    <3> QED
      BY <2>5, <3>4 DEF Promise!PoolStep
  <2> QED
    BY <2>6, <2>7
<1>7. CASE n \notin Ticks(f)
  <2>1. /\ tickTransactions' = Emptied(tickTransactions, RingIndex)
        /\ txsPriorities' = Emptied(txsPriorities, RingIndex)
        /\ buffersBeginIndex' = 0
    BY <1>2, <1>4, <1>7
  <2>2. firstStoredTick' \in Nat /\ buffersBeginIndex' \in RingIndex
    BY <1>1, <1>3, <1>5, <2>1 DEF RingIndex
  <2>3. /\ \A t \in Window : TickToIndex(t) \in RingIndex
        /\ \A t \in Window' : TickToIndex(t)' \in RingIndex
    BY <1>1, <1>4, <2>2, IndexIs
  <2>4. PoolHolds' /\ \A t \in Window' : Kept'[t] = IF t \in {} THEN Kept[t] ELSE {}
    <3>1. /\ {} \subseteq Window \cap Window'
          /\ \A t \in Window : TickToIndex(t) \notin RingIndex => t \in {}
          /\ \A t \in {} : TickToIndex(t)' = TickToIndex(t) /\ TickToIndex(t) \notin RingIndex
          /\ \A t \in Window' \ {} : TickToIndex(t)' \in RingIndex
      BY <2>3
    <3> QED
      BY <2>1, <2>2, <3>1, WindowMoves
  <2>5. n \notin Window
    BY <1>4, <1>7
  <2>6. Promise!Restart
    BY <1>5, <2>4, <2>5 DEF Promise!Restart
  <2> QED
    BY <2>4, <2>6 DEF Promise!PoolStep
<1> QED
  BY <1>6, <1>7

\* Every step keeps the invariant and does what is promised.
LEMMA PoolHoldsStep ==
  ASSUME PoolHolds, [PoolNext]_poolVars
  PROVE  PoolHolds' /\ (UNCHANGED poolVars \/ Promise!PoolStep)
<1>1. CASE AddTx
  BY <1>1, AddTxKeeps DEF Promise!PoolStep
<1>2. CASE IncrementFirstStoredTick
  BY <1>2, IncrementKeeps
<1>3. CASE BeginPoolEpoch
  BY <1>3, BeginEpochKeeps
<1>4. CASE UNCHANGED poolVars
  BY <1>4 DEF poolVars, PoolHolds
<1> QED
  BY <1>1, <1>2, <1>3, <1>4 DEF PoolNext

\* The number of later transactions is that of those kept.
LEMMA LaterCounted ==
  ASSUME PoolHolds, NEW t \in Window, NEW count, count = [u \in Window |-> Cardinality(Kept[u])]
  PROVE  TotalNumberOfPendingTxs(t) = Summed(count, {u \in Window : u > t})
<1> DEFINE f == firstStoredTick
           b == buffersBeginIndex
           U == {u \in Window : u > t}
           h == [u \in Window |-> Index(f, b, u)]
<1>1. /\ f \in Nat /\ b \in RingIndex /\ PoolTicks \in Nat \ {0} /\ b \in 0 .. PoolTicks - 1
      /\ \A i : i \in RingIndex <=> i \in 0 .. PoolTicks - 1
  BY PoolAssumption DEF PoolHolds, RingIndex
<1>2. /\ Window = Ticks(f) /\ Window = f .. f + PoolTicks - 1
      /\ \A u : TickToIndex(u) = Index(f, b, u)
      /\ \A u \in Nat : TickInStorage(u) <=> u \in Window
  BY <1>1, IndicesOfWindow DEF Window
<1>3. ASSUME NEW u \in Window
      PROVE  /\ h[u] \in RingIndex
             /\ count[u] = numSavedTxsPerTick[h[u]]
             /\ count[u] \in Nat
  <2>1. h[u] \in RingIndex /\ h[u] = Index(f, b, u)
    BY <1>1, <1>2, IndexIs
  <2> HIDE DEF h, f, b
  <2>2. /\ TxsOK(tickTransactions[h[u]])
        /\ QueueOK(txsPriorities[h[u]], Len(tickTransactions[h[u]]))
    BY <2>1 DEF PoolHolds
  <2>3. Kept[u] = Items(tickTransactions[h[u]], txsPriorities[h[u]])
    BY <1>2, <2>1, KeptIs DEF KeptItems, f, b
  <2>4. Cardinality(Kept[u]) = Len(tickTransactions[h[u]])
    BY <2>2, <2>3, ItemsCounted
  <2>5. Len(tickTransactions[h[u]]) \in Nat
    BY <2>2, LenProperties DEF TxsOK
  <2> QED
    BY <2>1, <2>4, <2>5 DEF numSavedTxsPerTick, Saved
<1>4. IsFiniteSet(U)
  <2>1. U \subseteq f .. f + PoolTicks - 1 /\ f \in Int /\ f + PoolTicks - 1 \in Int
    BY <1>1, <1>2
  <2> HIDE DEF U, f
  <2> QED
    BY <2>1, FS_Interval, FS_Subset
<1>5. Summed(count, U) = Summed(numSavedTxsPerTick, {h[u] : u \in U})
  <2>1. \A u \in U : count[u] \in Int /\ numSavedTxsPerTick[h[u]] = count[u]
    BY <1>3
  <2>2. \A u, v \in U : h[u] = h[v] => u = v
    BY <1>1, <1>2, IndexIs
  <2> HIDE DEF U, h
  <2> QED
    BY <1>4, <2>1, <2>2, SummedRenamed
<1>7. CASE t + 1 \in Window
  <2> DEFINE start == TickToIndex(t + 1)
             later == IF start < b THEN start .. b - 1 ELSE (start .. PoolTicks - 1) \cup (0 .. b - 1)
  <2>1. TotalNumberOfPendingTxs(t) = Summed(numSavedTxsPerTick, later)
    <3>1. TickInStorage(t + 1)
      BY <1>1, <1>2, <1>7
    <3>2. TotalNumberOfPendingTxs(t) = MapThenSumSet(LAMBDA i : numSavedTxsPerTick[i], later)
      BY <3>1 DEF TotalNumberOfPendingTxs
    <3> QED
      BY <3>2 DEF Summed
  <2>2. start \in Int /\ start = IF t + 1 - f + b < PoolTicks THEN t + 1 - f + b ELSE t + 1 - f + b - PoolTicks
    <3>1. PICK v : v = t + 1
      OBVIOUS
    <3>2. start = Index(f, b, v) /\ v \in Ticks(f)
      BY <1>2, <1>7, <3>1
    <3>3. \A i \in RingIndex : i \in Int
      BY <1>1
    <3> HIDE DEF start, f, b
    <3>4. start \in RingIndex /\ start = IF v - f + b < PoolTicks THEN v - f + b
                                        ELSE v - f + b - PoolTicks
      BY <1>1, <3>2, IndexOf
    <3>5. t \in Int /\ f \in Int /\ b \in Int /\ start \in Int /\ v = t + 1
      BY <1>1, <1>2, <3>1, <3>3, <3>4
    <3> QED
      BY <1>1, <3>4, <3>5
  <2>3. \A i \in Int : i \in later <=> IF start < b THEN start <= i /\ i < b
                                       ELSE (start <= i /\ i < PoolTicks) \/ (0 <= i /\ i < b)
    BY <1>1, <2>2
  <2> HIDE DEF start
  <2>4. later \subseteq RingIndex
    BY <1>1, <1>2, <1>7, <2>2
  <2> HIDE DEF later
  <2>5. ASSUME NEW u \in Window PROVE h[u] \in later <=> u > t
    <3>1. /\ u \in Int /\ f <= u /\ u < f + PoolTicks
          /\ t \in Int /\ f <= t /\ t + 1 < f + PoolTicks
      BY <1>1, <1>2, <1>7
    <3>2. PICK i \in Int : i = h[u] /\ i = IF u - f + b < PoolTicks THEN u - f + b
                                           ELSE u - f + b - PoolTicks
      <4>1. h[u] = IF u - f + b < PoolTicks THEN u - f + b ELSE u - f + b - PoolTicks
        BY <1>1, <1>2, IndexIs
      <4>2. h[u] \in Int
        BY <1>1, <1>3
      <4> QED
        BY <4>1, <4>2
    <3>3. i \in later <=> u > t
      BY <1>1, <2>2, <2>3, <3>1, <3>2
    <3> QED
      BY <3>2, <3>3
  <2>6. ASSUME NEW i \in RingIndex PROVE \E u \in Window : h[u] = i
    <3>1. PICK u \in Ticks(f) : Index(f, b, u) = i
      <4> HIDE DEF f, b
      <4> QED
        BY <1>1, IndexOnto
    <3>2. u \in Window /\ h[u] = i
      BY <1>2, <3>1
    <3> QED
      BY <3>2
  <2>7. later = {h[u] : u \in U}
    <3> HIDE DEF h
    <3> QED
      BY <2>4, <2>5, <2>6
  <2> QED
    BY <1>5, <2>1, <2>7
<1>8. CASE t + 1 \notin Window
  <2>1. U = {} /\ ~TickInStorage(t + 1)
    BY <1>1, <1>2, <1>8
  <2>2. TotalNumberOfPendingTxs(t) = 0
    BY <2>1 DEF TotalNumberOfPendingTxs
  <2> QED
    BY <2>1, <2>2, SummedEmpty
<1> QED
  BY <1>7, <1>8

\* The order of the queues, their slots and the place of every transaction are invariant.
THEOREM PoolInvariance == PoolSpec => []PoolInv
<1>1. PoolInit => PoolInv
  BY PoolHoldsInit, PoolInvIs
<1>2. PoolInv /\ [PoolNext]_poolVars => PoolInv'
  BY PoolHoldsStep, PoolInvIs, PoolInvIsNext
<1> QED
  BY <1>1, <1>2, PTL DEF PoolSpec

\* The queue of a tick names each of its slots once, every transaction is stored under its own
\* tick, and the number of later transactions is that of those stored.
THEOREM TransactionsInPlace == PoolSpec => []PoolConsistent
<1>1. ASSUME PoolInv PROVE PoolConsistent
  <2>1. PoolHolds
    BY <1>1, PoolInvIs
  <2>2. ASSUME NEW t \in Window
        PROVE  LET i == TickToIndex(t) q == txsPriorities[i] IN
               /\ Len(q) = Saved(i)
               /\ {q[n].slot : n \in DOMAIN q} = 1 .. Saved(i)
               /\ \A n \in 1 .. Saved(i) : TxTick[tickTransactions[i][n]] = t
    <3> DEFINE i == TickToIndex(t)
               q == txsPriorities[i]
               txs == tickTransactions[i]
    <3>1. /\ firstStoredTick \in Nat /\ buffersBeginIndex \in RingIndex
          /\ t \in Ticks(firstStoredTick) /\ i = Index(firstStoredTick, buffersBeginIndex, t)
      BY <2>1, IndicesOfWindow DEF PoolHolds
    <3>2. i \in RingIndex
      BY <3>1, IndexIs
    <3> HIDE DEF i
    <3>3. QueueOK(q, Len(txs)) /\ OfTick(firstStoredTick, buffersBeginIndex, i, txs)
      BY <2>1, <3>2 DEF PoolHolds
    <3>4. DOMAIN q = 1 .. Len(q) /\ Len(q) = Len(txs)
      BY <3>3, LenProperties DEF QueueOK
    <3>5. {q[n].slot : n \in DOMAIN q} = 1 .. Len(txs)
      <4>1. \A n \in 1 .. Len(txs) : q[n].slot \in 1 .. Len(txs)
        BY <3>3, <3>4 DEF QueueOK
      <4>2. \A s \in 1 .. Len(txs) : \E n \in 1 .. Len(txs) : q[n].slot = s
        BY <3>3, <3>4 DEF QueueOK
      <4> HIDE DEF q, txs
      <4> QED
        BY <3>4, <4>1, <4>2
    <3>6. \A n \in 1 .. Len(txs) : TxTick[txs[n]] = t
      BY <3>1, <3>3, IndexIs DEF OfTick
    <3> QED
      BY <3>4, <3>5, <3>6 DEF Saved, i
  <2> DEFINE count == [u \in Window |-> Cardinality(Kept[u])]
  <2>3. ASSUME NEW t \in Window
        PROVE  TotalNumberOfPendingTxs(t) = MapThenSumSet(LAMBDA u : count[u], {u \in Window : u > t})
    <3>1. count = [u \in Window |-> Cardinality(Kept[u])]
      OBVIOUS
    <3> HIDE DEF count
    <3>2. TotalNumberOfPendingTxs(t) = Summed(count, {u \in Window : u > t})
      BY <2>1, <3>1, LaterCounted
    <3> QED
      BY <3>2 DEF Summed
  <2> QED
    BY <2>2, <2>3 DEF PoolConsistent
<1>2. PoolInv => PoolConsistent
  BY <1>1
<1> QED
  BY <1>2, PoolInvariance, PTL

\* The pool implements the abstract one: it keeps the transactions of highest priority of every
\* tick in the window, and a move of the window changes none that stays.
THEOREM PoolKeepsBest == PoolSpec => ImplementsPool
<1>1. ASSUME PoolInv, [PoolNext]_poolVars
      PROVE  [UNCHANGED poolVars \/ Promise!PoolStep]_<<Window, Kept>>
  BY <1>1, PoolHoldsStep, PoolInvIs
<1>2. PoolInv /\ [PoolNext]_poolVars => [UNCHANGED poolVars \/ Promise!PoolStep]_<<Window, Kept>>
  BY <1>1
<1> QED
  BY <1>2, PoolInvariance, PTL DEF PoolSpec, ImplementsPool

-----------------------------------------------------------------------------
(***************************************************************************)
(* The order of the ranking                                                *)
(***************************************************************************)
\* Where the entry climbs to, and that nothing with a lower score stays before it.
LEMMA PlaceIs ==
  ASSUME NEW list, NEW i \in Nat, NEW floor \in 1 .. i,
         \A k \in 1 .. i : list[k].score \in Nat,
         \A j, k \in floor .. i - 1 : j < k => list[j].score >= list[k].score
  PROVE  \E place \in floor .. i :
           /\ Climbed(list, i, floor) =
                [k \in DOMAIN list |-> IF k \notin place .. i THEN list[k]
                                       ELSE IF k = place THEN list[i] ELSE list[k - 1]]
           /\ \A k \in floor .. place - 1 : list[k].score >= list[i].score
           /\ \A k \in place .. i - 1 : list[k].score < list[i].score
<1> DEFINE ahead == {j \in floor .. i - 1 : list[j].score >= list[i].score}
           place == IF ahead = {} THEN floor ELSE Max(ahead) + 1
<1>1. ahead = {} \/ (Max(ahead) \in ahead /\ \A x \in ahead : x <= Max(ahead))
  <2>1. ahead \subseteq floor .. i - 1 /\ ahead \subseteq Int
    OBVIOUS
  <2>2. IsFiniteSet(floor .. i - 1)
    BY FS_Interval
  <2>3. IsFiniteSet(ahead)
    BY <2>1, <2>2, FS_Subset
  <2> QED
    BY <2>1, <2>3, Extremes
<1>2. Climbed(list, i, floor) =
        [k \in DOMAIN list |-> IF k \notin place .. i THEN list[k]
                               ELSE IF k = place THEN list[i] ELSE list[k - 1]]
  BY DEF Climbed
<1>3. CASE ahead = {}
  <2>1. \A k \in floor .. i - 1 : list[k].score < list[i].score
    BY <1>3
  <2> QED
    BY <1>2, <1>3, <2>1
<1>4. CASE ahead # {}
  <2> DEFINE last == Max(ahead)
  <2>1. last \in floor .. i - 1 /\ list[last].score >= list[i].score
    BY <1>1, <1>4
  <2>2. place = last + 1 /\ place \in floor .. i
    BY <1>4, <2>1
  <2>3. \A k \in place .. i - 1 : list[k].score < list[i].score
    <3> SUFFICES ASSUME NEW k \in place .. i - 1 PROVE list[k].score < list[i].score
      OBVIOUS
    <3>1. k \notin ahead
      BY <1>1, <1>4, <2>1, <2>2
    <3>2. k \in floor .. i - 1 /\ k \in 1 .. i
      BY <2>1, <2>2
    <3> QED
      BY <3>1, <3>2
  <2>4. \A k \in floor .. place - 1 : list[k].score >= list[i].score
    <3> SUFFICES ASSUME NEW k \in floor .. place - 1 PROVE list[k].score >= list[i].score
      OBVIOUS
    <3> HIDE DEF last
    <3>1. k <= last /\ k \in floor .. i - 1 /\ k \in 1 .. i /\ last \in 1 .. i /\ i \in 1 .. i
      BY <2>1, <2>2
    <3>2. list[k].score >= list[last].score
      BY <2>1, <3>1
    <3> QED
      BY <2>1, <3>1, <3>2
  <2> QED
    BY <1>2, <2>2, <2>3, <2>4
<1> QED
  BY <1>3, <1>4

\* An entry that climbs past those with lower scores gives the same entries in an order that is
\* ranked and stable from the floor to where it was.
Reordering(p, n) ==
  /\ p \in [1 .. n -> 1 .. n]
  /\ \A j, k \in 1 .. n : j # k => p[j] # p[k]
  /\ \A m \in 1 .. n : \E k \in 1 .. n : p[k] = m

ClimbsBy(list, n, i, floor, p) ==
  /\ Reordering(p, n)
  /\ Climbed(list, i, floor) = [k \in 1 .. n |-> list[p[k]]]
  /\ \A k \in 1 .. n : k \notin floor .. i => p[k] = k
  /\ \A k \in floor .. i : p[k] \in floor .. i
  /\ \A j, k \in floor .. i : j < k =>
       \/ list[p[j]].score > list[p[k]].score
       \/ list[p[j]].score = list[p[k]].score /\ p[j] < p[k]

\* An entry that climbs keeps the order of those it passes and stops below the first that is not
\* worse.
LEMMA ClimbedIs ==
  ASSUME NEW n \in Nat, NEW list, DOMAIN list = 1 .. n, NEW i \in 1 .. n, NEW floor \in 1 .. i,
         \A k \in 1 .. n : list[k].score \in Nat,
         \A j, k \in floor .. i - 1 : j < k => list[j].score >= list[k].score
  PROVE  \E p : ClimbsBy(list, n, i, floor, p)
<1>1. PICK place \in floor .. i :
           /\ Climbed(list, i, floor) =
                [k \in DOMAIN list |-> IF k \notin place .. i THEN list[k]
                                       ELSE IF k = place THEN list[i] ELSE list[k - 1]]
           /\ \A k \in floor .. place - 1 : list[k].score >= list[i].score
           /\ \A k \in place .. i - 1 : list[k].score < list[i].score
  <2>1. i \in Nat /\ floor \in 1 .. i /\ \A k \in 1 .. i : list[k].score \in Nat
    OBVIOUS
  <2>2. \A j, k \in floor .. i - 1 : j < k => list[j].score >= list[k].score
    OBVIOUS
  <2> QED
    BY <2>1, <2>2, PlaceIs, Zenon
<1> DEFINE p == [k \in 1 .. n |-> IF k \notin place .. i THEN k ELSE IF k = place THEN i ELSE k - 1]
<1>2. p \in [1 .. n -> 1 .. n] /\ \A j, k \in 1 .. n : j # k => p[j] # p[k]
  OBVIOUS
<1>3. \A m \in 1 .. n : \E k \in 1 .. n : p[k] = m
  <2> SUFFICES ASSUME NEW m \in 1 .. n PROVE \E k \in 1 .. n : p[k] = m
    OBVIOUS
  <2>1. CASE m \notin place .. i
    <3>1. p[m] = m
      BY <2>1
    <3> QED
      BY <3>1
  <2>2. CASE m = i
    <3>1. p[place] = m /\ place \in 1 .. n
      BY <2>2
    <3> QED
      BY <3>1
  <2>3. CASE m \in place .. i - 1
    <3>1. m + 1 \in 1 .. n /\ p[m + 1] = m
      BY <2>3
    <3> QED
      BY <3>1
  <2> QED
    BY <2>1, <2>2, <2>3
<1>4. Climbed(list, i, floor) = [k \in 1 .. n |-> list[p[k]]]
  <2>1. \A k \in 1 .. n : list[p[k]] = IF k \notin place .. i THEN list[k]
                                       ELSE IF k = place THEN list[i] ELSE list[k - 1]
    OBVIOUS
  <2> HIDE DEF p
  <2> QED
    BY <1>1, <2>1
<1>5. \A k \in 1 .. n : k \notin floor .. i => p[k] = k
  OBVIOUS
<1>6. \A k \in floor .. i : p[k] \in floor .. i
  OBVIOUS
<1>7. \A j, k \in floor .. i : j < k =>
                \/ list[p[j]].score > list[p[k]].score
                \/ list[p[j]].score = list[p[k]].score /\ p[j] < p[k]
  <2> SUFFICES ASSUME NEW j \in floor .. i, NEW k \in floor .. i, j < k
               PROVE  \/ list[p[j]].score > list[p[k]].score
                      \/ list[p[j]].score = list[p[k]].score /\ p[j] < p[k]
    OBVIOUS
  <2>0. /\ p[j] = IF j < place THEN j ELSE IF j = place THEN i ELSE j - 1
        /\ p[k] = IF k < place THEN k ELSE IF k = place THEN i ELSE k - 1
    OBVIOUS
  <2> HIDE DEF p
  <2>1. CASE k < place
    <3>1. p[j] = j /\ p[k] = k /\ j \in floor .. i - 1 /\ k \in floor .. i - 1
      BY <2>0, <2>1
    <3>2. list[j].score >= list[k].score /\ list[j].score \in Nat /\ list[k].score \in Nat
      BY <3>1
    <3> QED
      BY <3>1, <3>2
  <2>2. CASE k = place
    <3>1. p[j] = j /\ p[k] = i /\ j \in floor .. place - 1
      BY <2>0, <2>2
    <3>2. list[j].score >= list[i].score /\ list[j].score \in Nat /\ list[i].score \in Nat
      BY <1>1, <3>1
    <3> QED
      BY <3>1, <3>2
  <2>3. CASE k > place /\ j < place
    <3>1. p[j] = j /\ p[k] = k - 1 /\ j \in floor .. i - 1 /\ k - 1 \in floor .. i - 1 /\ j < k - 1
      BY <2>0, <2>3
    <3>2. list[j].score >= list[k - 1].score /\ list[j].score \in Nat /\ list[k - 1].score \in Nat
      BY <3>1
    <3> QED
      BY <3>1, <3>2
  <2>4. CASE k > place /\ j = place
    <3>1. p[j] = i /\ p[k] = k - 1 /\ k - 1 \in place .. i - 1
      BY <2>0, <2>4
    <3>2. list[k - 1].score < list[i].score /\ list[i].score \in Nat /\ list[k - 1].score \in Nat
      BY <1>1, <3>1
    <3> QED
      BY <3>1, <3>2
  <2>5. CASE k > place /\ j > place
    <3>1. p[j] = j - 1 /\ p[k] = k - 1 /\ j - 1 \in floor .. i - 1 /\ k - 1 \in floor .. i - 1 /\ j - 1 < k - 1
      BY <2>0, <2>5
    <3>2. list[j - 1].score >= list[k - 1].score /\ list[j - 1].score \in Nat /\ list[k - 1].score \in Nat
      BY <3>1
    <3> QED
      BY <3>1, <3>2
  <2> QED
    BY <2>1, <2>2, <2>3, <2>4, <2>5
<1> HIDE DEF p
<1>8. Reordering(p, n)
  BY <1>2, <1>3 DEF Reordering
<1> QED
  BY <1>4, <1>5, <1>6, <1>7, <1>8 DEF ClimbsBy

\* The constants as numbers.
LEMMA SeatNumbers ==
  /\ Seats \in Nat /\ Rivals \in Nat /\ AlwaysKept \in 1 .. Seats
  /\ AlwaysKept + Rivals = Seats
BY MinerRankingAssumption DEF Seats, Rivals

\* Every competitor has a score.
LEMMA ContestTyped ==
  ASSUME NEW list \in Seq(RankedMiner), Ranked(list), NEW old \in [1 .. 2 * Rivals -> RankedMiner]
  PROVE  /\ Contest(list, old) \in [1 .. 2 * Rivals -> RankedMiner]
         /\ \A j, k \in 1 .. Rivals : j < k => Contest(list, old)[j].score >= Contest(list, old)[k].score
<1> DEFINE E == Contest(list, old)
<1>0. /\ Len(list) \in Nat /\ DOMAIN list = 1 .. Len(list) /\ Len(list) >= Seats
      /\ \A i \in 1 .. Len(list) : list[i] \in RankedMiner
  BY DEF Ranked
<1>1. ASSUME NEW i \in 1 .. 2 * Rivals PROVE E[i] \in RankedMiner
  <2>1. E[i] = IF i <= Rivals THEN Points(list[AlwaysKept + i].key, list[AlwaysKept + i].score, TRUE)
               ELSE IF Seats + i - Rivals <= Len(list)
               THEN Points(list[Seats + i - Rivals].key, list[Seats + i - Rivals].score, FALSE)
               ELSE Points(old[i].key, 0, FALSE)
    BY DEF Contest
  <2>2. ASSUME NEW m \in RankedMiner, NEW seated \in BOOLEAN
        PROVE  Points(m.key, m.score, seated) \in RankedMiner
    BY DEF Points, RankedMiner
  <2>3. CASE i <= Rivals
    <3>1. AlwaysKept + i \in 1 .. Len(list)
      BY <1>0, <2>3, SeatNumbers
    <3>2. list[AlwaysKept + i] \in RankedMiner
      BY <1>0, <3>1
    <3> QED
      BY <2>1, <2>2, <2>3, <3>2
  <2>4. CASE i > Rivals /\ Seats + i - Rivals <= Len(list)
    <3>1. Seats + i - Rivals \in 1 .. Len(list)
      BY <1>0, <2>4, SeatNumbers
    <3>2. list[Seats + i - Rivals] \in RankedMiner
      BY <1>0, <3>1
    <3>3. ~(i <= Rivals)
      BY <2>4, SeatNumbers
    <3>4. E[i] = Points(list[Seats + i - Rivals].key, list[Seats + i - Rivals].score, FALSE)
      BY <2>1, <2>4, <3>3
    <3> QED
      BY <2>2, <3>2, <3>4
  <2>5. CASE i > Rivals /\ ~(Seats + i - Rivals <= Len(list))
    <3>1. ~(i <= Rivals)
      BY <2>5, SeatNumbers
    <3>2. E[i] = Points(old[i].key, 0, FALSE)
      BY <2>1, <2>5, <3>1
    <3>3. old[i] \in RankedMiner
      OBVIOUS
    <3>4. old[i].key \in MinerKey
      BY <3>3 DEF RankedMiner
    <3> QED
      BY <3>2, <3>4 DEF Points, RankedMiner
  <2> QED
    BY <2>3, <2>4, <2>5, SeatNumbers
<1>2. E = [i \in 1 .. 2 * Rivals |-> E[i]]
  BY DEF Contest
<1>3. ASSUME NEW j \in 1 .. Rivals, NEW k \in 1 .. Rivals, j < k PROVE E[j].score >= E[k].score
  <2>1. AlwaysKept + j \in DOMAIN list /\ AlwaysKept + k \in DOMAIN list /\ AlwaysKept + k <= Seats
    BY <1>0, SeatNumbers
  <2>2. AlwaysKept + j < AlwaysKept + k
    BY <1>3, SeatNumbers
  <2>3. list[AlwaysKept + j].score >= list[AlwaysKept + k].score
    BY <2>1, <2>2 DEF Ranked
  <2>4. j \in 1 .. 2 * Rivals /\ k \in 1 .. 2 * Rivals /\ j <= Rivals /\ k <= Rivals
    BY SeatNumbers
  <2>5. E[j].score = list[AlwaysKept + j].score /\ E[k].score = list[AlwaysKept + k].score
    BY <2>4 DEF Contest, Points
  <2> QED
    BY <2>3, <2>5
<1> HIDE DEF E
<1>4. E \in [1 .. 2 * Rivals -> RankedMiner]
  BY <1>1, <1>2
<1> QED
  BY <1>3, <1>4 DEF E

\* One candidate after the other climbs.
CompetitionRule(g, list, old, n) ==
  IF n = 0 THEN Contest(list, old) ELSE Climbed(g[n - 1], Rivals + n, 1)
CompetitionSteps(g, list, old) == g = [n \in 0 .. Rivals |-> CompetitionRule(g, list, old, n)]

\* The recursion of Competition is well defined.
LEMMA CompetitionExists ==
  ASSUME NEW list, NEW old
  PROVE  \E g : CompetitionSteps(g, list, old)
<1> DEFINE Sound == {m \in 0 .. Rivals : \E g : g = [n \in 0 .. m |-> CompetitionRule(g, list, old, n)]}
<1>1. Rivals \in Nat
  BY SeatNumbers
<1>2. 0 \in Sound
  <2> DEFINE g == [n \in 0 .. 0 |-> Contest(list, old)]
  <2>1. \A n \in 0 .. 0 : CompetitionRule(g, list, old, n) = Contest(list, old)
    BY DEF CompetitionRule
  <2>2. g = [n \in 0 .. 0 |-> CompetitionRule(g, list, old, n)]
    BY <2>1
  <2> HIDE DEF g
  <2> QED
    BY <1>1, <2>2
<1>3. ASSUME NEW m \in 1 .. Rivals, m - 1 \in Sound PROVE m \in Sound
  <2>1. PICK g : g = [n \in 0 .. m - 1 |-> CompetitionRule(g, list, old, n)]
    BY <1>3
  <2>2. PICK h : h = [n \in 0 .. m |-> CompetitionRule(g, list, old, n)]
    OBVIOUS
  <2>3. m \in Nat /\ m \in 0 .. Rivals
    BY <1>1
  <2>4. \A n \in 0 .. m - 1 : h[n] = g[n]
    <3>1. \A n \in 0 .. m - 1 : g[n] = CompetitionRule(g, list, old, n) /\ n \in 0 .. m
      BY <2>1, <2>3
    <3>2. \A n \in 0 .. m : h[n] = CompetitionRule(g, list, old, n)
      BY <2>2
    <3> QED
      BY <3>1, <3>2
  <2>5. \A n \in 0 .. m : CompetitionRule(h, list, old, n) = CompetitionRule(g, list, old, n)
    <3>1. \A n \in 0 .. m : n # 0 => n - 1 \in 0 .. m - 1
      BY <2>3
    <3>2. \A n \in 0 .. m : n # 0 => h[n - 1] = g[n - 1]
      BY <2>4, <3>1
    <3> QED
      BY <3>2 DEF CompetitionRule
  <2>6. h = [n \in 0 .. m |-> CompetitionRule(h, list, old, n)]
    BY <2>2, <2>5
  <2> QED
    BY <2>3, <2>6
<1> HIDE DEF Sound
<1>4. Rivals \in Sound
  <2>1. 0 .. Rivals \subseteq Sound
    BY <1>1, <1>2, <1>3, BoundedInduction
  <2> QED
    BY <1>1, <2>1
<1> QED
  BY <1>4 DEF Sound, CompetitionSteps

\* After n candidates the first competitors are in order: by score, and those that came first
\* before those that are equal.
BestFirst(E, p, n) ==
  \A j, k \in 1 .. n : j < k =>
    \/ E[p[j]].score > E[p[k]].score
    \/ E[p[j]].score = E[p[k]].score /\ p[j] < p[k]

SortedTo(E, c, n) ==
  \E p : /\ Reordering(p, 2 * Rivals)
         /\ c = [k \in 1 .. 2 * Rivals |-> E[p[k]]]
         /\ \A k \in Rivals + n + 1 .. 2 * Rivals : p[k] = k
         /\ BestFirst(E, p, Rivals + n)

\* One more candidate climbs.
LEMMA SortedStep ==
  ASSUME NEW E \in [1 .. 2 * Rivals -> RankedMiner], NEW n \in 1 .. Rivals, NEW c,
         SortedTo(E, c, n - 1)
  PROVE  SortedTo(E, Climbed(c, Rivals + n, 1), n)
<1>1. PICK p : /\ Reordering(p, 2 * Rivals)
               /\ c = [k \in 1 .. 2 * Rivals |-> E[p[k]]]
               /\ \A k \in Rivals + (n - 1) + 1 .. 2 * Rivals : p[k] = k
               /\ BestFirst(E, p, Rivals + (n - 1))
  BY DEF SortedTo
<1>2. PICK N \in Nat : N = 2 * Rivals
  BY SeatNumbers
<1>3. PICK i \in 1 .. N : i = Rivals + n /\ i - 1 = Rivals + (n - 1)
  BY <1>2, SeatNumbers
<1>4. /\ p \in [1 .. N -> 1 .. N]
      /\ \A j, k \in 1 .. N : j # k => p[j] # p[k]
      /\ \A m \in 1 .. N : \E k \in 1 .. N : p[k] = m
  BY <1>1, <1>2 DEF Reordering
<1>5. \A k \in i .. N : p[k] = k
  BY <1>1, <1>2, <1>3, SeatNumbers
<1>6. c = [k \in 1 .. N |-> E[p[k]]] /\ E \in [1 .. N -> RankedMiner]
  BY <1>1, <1>2
<1>7. \A k \in 1 .. N : E[k].score \in Nat
  BY <1>6 DEF RankedMiner
<1>8. \A j, k \in 1 .. i - 1 : j < k => \/ E[p[j]].score > E[p[k]].score
                                        \/ E[p[j]].score = E[p[k]].score /\ p[j] < p[k]
  BY <1>1, <1>3 DEF BestFirst
<1>9. \A k \in 1 .. N : c[k] = E[p[k]] /\ c[k].score \in Nat
  BY <1>4, <1>6, <1>7
<1>10. DOMAIN c = 1 .. N
  BY <1>6
<1>11. \A j, k \in 1 .. i - 1 : j < k => c[j].score >= c[k].score
  <2> SUFFICES ASSUME NEW j \in 1 .. i - 1, NEW k \in 1 .. i - 1, j < k PROVE c[j].score >= c[k].score
    OBVIOUS
  <2>1. c[j] = E[p[j]] /\ c[k] = E[p[k]] /\ c[j].score \in Nat /\ c[k].score \in Nat
    BY <1>9
  <2>2. \/ E[p[j]].score > E[p[k]].score
        \/ E[p[j]].score = E[p[k]].score
    BY <1>8
  <2> QED
    BY <2>1, <2>2
<1>12. PICK q : ClimbsBy(c, N, i, 1, q)
  <2>1. 1 \in 1 .. i /\ \A k \in 1 .. N : c[k].score \in Nat
    BY <1>9
  <2> QED
    BY <1>10, <1>11, <2>1, ClimbedIs, Zenon
<1>13. /\ q \in [1 .. N -> 1 .. N]
       /\ \A j, k \in 1 .. N : j # k => q[j] # q[k]
       /\ \A m \in 1 .. N : \E k \in 1 .. N : q[k] = m
  BY <1>12 DEF ClimbsBy, Reordering
<1>14. PICK r : r = [k \in 1 .. N |-> p[q[k]]]
  OBVIOUS
<1>15. Reordering(r, N)
  <2>1. r \in [1 .. N -> 1 .. N]
    BY <1>4, <1>13, <1>14
  <2>2. \A j, k \in 1 .. N : j # k => r[j] # r[k]
    BY <1>4, <1>13, <1>14
  <2>3. ASSUME NEW m \in 1 .. N PROVE \E k \in 1 .. N : r[k] = m
    <3>1. PICK l \in 1 .. N : p[l] = m
      BY <1>4
    <3>2. PICK k \in 1 .. N : q[k] = l
      BY <1>13
    <3> QED
      BY <1>14, <3>1, <3>2
  <2> QED
    BY <2>1, <2>2, <2>3 DEF Reordering
<1>16. Climbed(c, i, 1) = [k \in 1 .. N |-> E[r[k]]]
  <2>1. \A k \in 1 .. N : c[q[k]] = E[r[k]]
    BY <1>9, <1>13, <1>14
  <2> QED
    BY <1>12, <2>1 DEF ClimbsBy
<1>17. \A k \in i + 1 .. N : r[k] = k
  <2> SUFFICES ASSUME NEW k \in i + 1 .. N PROVE r[k] = k
    OBVIOUS
  <2>1. k \in 1 .. N /\ k \notin 1 .. i /\ k \in i .. N
    OBVIOUS
  <2>2. q[k] = k /\ p[k] = k
    BY <1>5, <1>12, <2>1 DEF ClimbsBy
  <2> QED
    BY <1>14, <2>1, <2>2
<1>18. \A k \in 1 .. i - 1 : p[k] < i
  <2> SUFFICES ASSUME NEW k \in 1 .. i - 1 PROVE p[k] < i
    OBVIOUS
  <2>1. k \in 1 .. N /\ p[k] \in 1 .. N
    BY <1>4
  <2>2. p[k] >= i => p[p[k]] = p[k] /\ p[k] # k
    BY <1>5, <2>1
  <2> QED
    BY <1>4, <2>1, <2>2
<1>19. ASSUME NEW j \in 1 .. i, NEW k \in 1 .. i, j < k
       PROVE  \/ E[r[j]].score > E[r[k]].score
              \/ E[r[j]].score = E[r[k]].score /\ r[j] < r[k]
  <2>1. q[j] \in 1 .. i /\ q[k] \in 1 .. i /\ i \in 1 .. N
    BY <1>12 DEF ClimbsBy
  <2>2. PICK a \in 1 .. i, b \in 1 .. i : a = q[j] /\ b = q[k]
    BY <2>1
  <2>3. a \in 1 .. N /\ b \in 1 .. N /\ j \in 1 .. N /\ k \in 1 .. N
    OBVIOUS
  <2>4. r[j] = p[a] /\ r[k] = p[b] /\ c[a] = E[p[a]] /\ c[b] = E[p[b]]
    BY <1>9, <1>14, <2>2, <2>3
  <2>5. c[a].score > c[b].score \/ (c[a].score = c[b].score /\ a < b)
    BY <1>12, <1>19, <2>2 DEF ClimbsBy
  <2>6. CASE c[a].score > c[b].score
    BY <2>4, <2>6
  <2>7. CASE c[a].score = c[b].score /\ a < b
    <3>1. CASE b = i
      <4>1. p[b] = i /\ p[a] < i
        BY <1>5, <1>18, <2>7, <3>1
      <4> QED
        BY <2>4, <2>7, <4>1
    <3>2. CASE b # i
      <4>1. a \in 1 .. i - 1 /\ b \in 1 .. i - 1
        BY <2>7, <3>2
      <4>2. \/ E[p[a]].score > E[p[b]].score
            \/ E[p[a]].score = E[p[b]].score /\ p[a] < p[b]
        BY <1>8, <2>7, <4>1
      <4>3. E[p[a]].score \in Nat /\ E[p[b]].score \in Nat
        BY <1>4, <1>7, <2>3
      <4> QED
        BY <2>4, <2>7, <4>2, <4>3
    <3> QED
      BY <3>1, <3>2
  <2> QED
    BY <2>5, <2>6, <2>7
<1>20. BestFirst(E, r, Rivals + n)
  BY <1>3, <1>19 DEF BestFirst
<1>21. \A k \in Rivals + n + 1 .. 2 * Rivals : r[k] = k
  BY <1>2, <1>3, <1>17
<1> QED
  BY <1>2, <1>3, <1>15, <1>16, <1>20, <1>21 DEF SortedTo

\* The competition sorts the competitors, those that came first before those that are equal.
LEMMA CompetitionSorts ==
  ASSUME NEW list \in Seq(RankedMiner), Ranked(list), NEW old \in [1 .. 2 * Rivals -> RankedMiner]
  PROVE  SortedTo(Contest(list, old), Competition(list, old), Rivals)
<1>1. PICK E \in [1 .. 2 * Rivals -> RankedMiner] :
        /\ E = Contest(list, old)
        /\ \A j, k \in 1 .. Rivals : j < k => E[j].score >= E[k].score
  BY ContestTyped
<1>2. PICK g : g = CHOOSE f : CompetitionSteps(f, list, old)
  OBVIOUS
<1>3. CompetitionSteps(g, list, old)
  BY <1>2, CompetitionExists
<1>4. Competition(list, old) = g[Rivals]
  BY <1>2 DEF Competition, CompetitionSteps, CompetitionRule
<1>5. \A n \in 0 .. Rivals : g[n] = CompetitionRule(g, list, old, n)
  BY <1>3 DEF CompetitionSteps
<1>6. Rivals \in Nat
  BY SeatNumbers
<1> DEFINE Sound == {m \in 0 .. Rivals : SortedTo(E, g[m], m)}
<1>7. 0 \in Sound
  <2>1. g[0] = E /\ 0 \in 0 .. Rivals
    BY <1>1, <1>5, <1>6 DEF CompetitionRule
  <2> DEFINE p == [k \in 1 .. 2 * Rivals |-> k]
  <2>2. Reordering(p, 2 * Rivals)
    BY DEF Reordering
  <2>3. E = [k \in 1 .. 2 * Rivals |-> E[p[k]]]
    OBVIOUS
  <2>4. \A k \in Rivals + 0 + 1 .. 2 * Rivals : p[k] = k
    BY <1>6
  <2>5. BestFirst(E, p, Rivals + 0)
    <3>1. SUFFICES ASSUME NEW j \in 1 .. Rivals + 0, NEW k \in 1 .. Rivals + 0, j < k
                   PROVE  \/ E[p[j]].score > E[p[k]].score
                          \/ E[p[j]].score = E[p[k]].score /\ p[j] < p[k]
      BY DEF BestFirst
    <3>2. j \in 1 .. Rivals /\ k \in 1 .. Rivals /\ j \in 1 .. 2 * Rivals /\ k \in 1 .. 2 * Rivals
      BY <1>6
    <3>3. E[j].score >= E[k].score /\ E[j].score \in Nat /\ E[k].score \in Nat
      BY <1>1, <3>1, <3>2 DEF RankedMiner
    <3>4. p[j] = j /\ p[k] = k
      BY <3>2
    <3> QED
      BY <3>1, <3>3, <3>4
  <2> HIDE DEF p
  <2>6. SortedTo(E, E, 0)
    BY <2>2, <2>3, <2>4, <2>5 DEF SortedTo
  <2> QED
    BY <2>1, <2>6
<1>8. ASSUME NEW m \in 1 .. Rivals, m - 1 \in Sound PROVE m \in Sound
  <2>1. SortedTo(E, g[m - 1], m - 1)
    BY <1>8
  <2>2. SortedTo(E, Climbed(g[m - 1], Rivals + m, 1), m)
    BY <2>1, SortedStep
  <2>3. m \in 0 .. Rivals /\ m # 0
    BY <1>6
  <2>4. g[m] = Climbed(g[m - 1], Rivals + m, 1)
    BY <1>5, <2>3 DEF CompetitionRule
  <2> QED
    BY <2>2, <2>3, <2>4
<1> HIDE DEF Sound
<1>9. Rivals \in Sound
  <2>1. 0 .. Rivals \subseteq Sound
    BY <1>6, <1>7, <1>8, BoundedInduction
  <2> QED
    BY <1>6, <2>1
<1> QED
  BY <1>1, <1>4, <1>9 DEF Sound

\* More numbers do not fit into fewer places.
LEMMA Places ==
  ASSUME NEW a \in Nat, NEW b \in Nat, NEW f,
         \A x \in 1 .. a : f[x] \in 1 .. b,
         \A x, y \in 1 .. a : x # y => f[x] # f[y]
  PROVE  a <= b
<1> DEFINE g == [x \in 1 .. a |-> f[x]]
<1>1. IsFiniteSet(1 .. a) /\ Cardinality(1 .. a) = a
  BY FS_Interval
<1>2. IsFiniteSet(1 .. b) /\ Cardinality(1 .. b) = b
  BY FS_Interval
<1>3. g \in [1 .. a -> 1 .. b] /\ \A x, y \in 1 .. a : x # y => g[x] # g[y]
  OBVIOUS
<1> HIDE DEF g
<1>4. ~(b < a)
  <2>1. SUFFICES ASSUME b < a PROVE FALSE
    OBVIOUS
  <2>2. Cardinality(1 .. b) < Cardinality(1 .. a)
    BY <1>1, <1>2, <2>1
  <2>3. \E x, y \in 1 .. a : x # y /\ g[x] = g[y]
    BY <1>1, <1>2, <1>3, <2>2, FS_PigeonHole, Zenon
  <2> QED
    BY <1>3, <2>3
<1> QED
  BY <1>4

\* Who takes part in the competition, as one of the ranked miners.
LEMMA ContestIs ==
  ASSUME NEW list \in Seq(RankedMiner), Ranked(list), NEW old \in [1 .. 2 * Rivals -> RankedMiner],
         NEW x \in 1 .. 2 * Rivals
  PROVE  /\ AlwaysKept + x <= Len(list) =>
              Contest(list, old)[x] = Points(list[AlwaysKept + x].key, list[AlwaysKept + x].score,
                                             x <= Rivals)
         /\ ~(AlwaysKept + x <= Len(list)) => x > Rivals /\ Contest(list, old)[x].score = 0
<1>1. /\ Len(list) \in Nat /\ Len(list) >= Seats
  BY DEF Ranked
<1>2. Contest(list, old)[x] =
        IF x <= Rivals THEN Points(list[AlwaysKept + x].key, list[AlwaysKept + x].score, TRUE)
               ELSE IF Seats + x - Rivals <= Len(list)
               THEN Points(list[Seats + x - Rivals].key, list[Seats + x - Rivals].score, FALSE)
               ELSE Points(old[x].key, 0, FALSE)
  BY DEF Contest
<1>3. /\ x \in Nat /\ Seats + x - Rivals = AlwaysKept + x
      /\ x <= Rivals => AlwaysKept + x <= Len(list)
      /\ ~(x <= Rivals) => x > Rivals
  BY <1>1, SeatNumbers
<1>4. CASE x <= Rivals
  <2>1. Contest(list, old)[x] = Points(list[AlwaysKept + x].key, list[AlwaysKept + x].score, TRUE)
    BY <1>2, <1>4
  <2> QED
    BY <1>3, <1>4, <2>1
<1>5. CASE ~(x <= Rivals) /\ AlwaysKept + x <= Len(list)
  <2>1. Contest(list, old)[x] = Points(list[AlwaysKept + x].key, list[AlwaysKept + x].score, FALSE)
    BY <1>2, <1>3, <1>5
  <2>2. (x <= Rivals) = FALSE
    BY <1>5
  <2> QED
    BY <1>5, <2>1, <2>2
<1>6. CASE ~(x <= Rivals) /\ ~(AlwaysKept + x <= Len(list))
  <2>1. Contest(list, old)[x] = Points(old[x].key, 0, FALSE)
    BY <1>2, <1>3, <1>6
  <2>2. Points(old[x].key, 0, FALSE).score = 0
    BY DEF Points
  <2> QED
    BY <1>3, <1>6, <2>1, <2>2
<1> QED
  BY <1>4, <1>5, <1>6

\* The seats that are contested go to the best.
LEMMA CompetitionFair ==
  ASSUME NEW list \in Seq(RankedMiner), Ranked(list), NEW old \in [1 .. 2 * Rivals -> RankedMiner]
  PROVE  /\ Competition(list, old) \in [1 .. 2 * Rivals -> RankedMiner]
         /\ SeatsWon(list, Competition(list, old))
<1>1. PICK E \in [1 .. 2 * Rivals -> RankedMiner] :
        /\ E = Contest(list, old)
        /\ SortedTo(E, Competition(list, old), Rivals)
  BY ContestTyped, CompetitionSorts
<1>2. PICK R \in Nat, K \in Nat, L \in Nat, N \in Nat :
        /\ R = Rivals /\ K = AlwaysKept /\ L = Len(list) /\ N = 2 * R
        /\ Seats = K + R /\ L >= K + R
  <2>1. Len(list) \in Nat /\ Len(list) >= Seats
    BY DEF Ranked
  <2>2. Rivals \in Nat /\ AlwaysKept \in Nat /\ 2 * Rivals \in Nat /\ Seats = AlwaysKept + Rivals
    BY SeatNumbers
  <2> QED
    BY <2>1, <2>2
<1>3. PICK best : best = Competition(list, old)
  OBVIOUS
<1>4. PICK p : /\ Reordering(p, N)
               /\ best = [k \in 1 .. N |-> E[p[k]]]
               /\ BestFirst(E, p, Rivals + Rivals)
  BY <1>1, <1>2, <1>3 DEF SortedTo
<1>5. /\ p \in [1 .. N -> 1 .. N]
      /\ \A j, k \in 1 .. N : j # k => p[j] # p[k]
      /\ \A m \in 1 .. N : \E k \in 1 .. N : p[k] = m
  BY <1>4 DEF Reordering
<1>6. \A j, k \in 1 .. N : j < k => \/ E[p[j]].score > E[p[k]].score
                                    \/ E[p[j]].score = E[p[k]].score /\ p[j] < p[k]
  <2>1. Rivals + Rivals = N
    BY <1>2
  <2> QED
    BY <1>4, <2>1 DEF BestFirst
<1>7. \A x \in 1 .. N : E[x].score \in Nat /\ E[x] \in RankedMiner
  BY <1>1, <1>2 DEF RankedMiner
<1>8. PICK inv : inv = [m \in 1 .. N |-> CHOOSE k \in 1 .. N : p[k] = m]
  OBVIOUS
<1>9. \A m \in 1 .. N : inv[m] \in 1 .. N /\ p[inv[m]] = m
  <2> SUFFICES ASSUME NEW m \in 1 .. N PROVE inv[m] \in 1 .. N /\ p[inv[m]] = m
    OBVIOUS
  <2>1. inv[m] = CHOOSE k \in 1 .. N : p[k] = m
    BY <1>8
  <2>2. \E k \in 1 .. N : p[k] = m
    BY <1>5
  <2> QED
    BY <2>1, <2>2
<1>10. \A x, y \in 1 .. N : x # y => inv[x] # inv[y]
  BY <1>9
<1>11. \A k \in 1 .. N : p[k] \in 1 .. N /\ inv[p[k]] = k
  BY <1>5, <1>9
<1>12. ASSUME NEW x \in 1 .. N, NEW y \in 1 .. N,
              \/ E[x].score > E[y].score
              \/ E[x].score = E[y].score /\ x < y
       PROVE  inv[x] < inv[y]
  <2>1. inv[x] \in 1 .. N /\ inv[y] \in 1 .. N /\ p[inv[x]] = x /\ p[inv[y]] = y
    BY <1>9
  <2>2. E[x].score \in Nat /\ E[y].score \in Nat
    BY <1>7
  <2>3. x # y
    BY <1>12, <2>2
  <2>4. inv[x] # inv[y]
    BY <1>10, <2>3
  <2>5. ~(inv[y] < inv[x])
    <3>1. SUFFICES ASSUME inv[y] < inv[x] PROVE FALSE
      OBVIOUS
    <3>0. PICK a \in 1 .. N, b \in 1 .. N : a = inv[x] /\ b = inv[y] /\ p[a] = x /\ p[b] = y
      BY <2>1
    <3>2. E[y].score > E[x].score \/ (E[y].score = E[x].score /\ y < x)
      <4>1. b < a
        BY <3>0, <3>1
      <4>2. E[p[b]].score > E[p[a]].score \/ (E[p[b]].score = E[p[a]].score /\ p[b] < p[a])
        BY <1>6, <4>1
      <4> QED
        BY <3>0, <4>2
    <3> QED
      BY <1>12, <2>2, <3>2
  <2> QED
    BY <2>1, <2>4, <2>5
<1>13. \A x \in 1 .. N : /\ K + x <= L => E[x] = Points(list[K + x].key, list[K + x].score, x <= R)
                         /\ ~(K + x <= L) => x > R /\ E[x].score = 0
  BY <1>1, <1>2, ContestIs
<1>14. ASSUME NEW k \in 1 .. R PROVE K + p[k] <= L
  <2>0. k \in 1 .. N /\ p[k] \in 1 .. N /\ inv[p[k]] = k
    BY <1>2, <1>11
  <2>1. SUFFICES ASSUME ~(K + p[k] <= L) PROVE FALSE
    OBVIOUS
  <2>2. p[k] > R /\ E[p[k]].score = 0
    BY <1>13, <2>0, <2>1
  <2>3. \A y \in 1 .. R : inv[y] \in 1 .. k - 1
    <3> SUFFICES ASSUME NEW y \in 1 .. R PROVE inv[y] \in 1 .. k - 1
      OBVIOUS
    <3>1. y \in 1 .. N /\ y < p[k]
      BY <1>2, <2>0, <2>2
    <3>2. E[y].score \in Nat /\ E[p[k]].score = 0
      BY <1>7, <2>2, <3>1
    <3>3. E[y].score > E[p[k]].score \/ (E[y].score = E[p[k]].score /\ y < p[k])
      BY <3>1, <3>2
    <3>4. inv[y] < inv[p[k]]
      BY <1>12, <2>0, <3>1, <3>3
    <3> QED
      BY <1>9, <2>0, <3>1, <3>4
  <2>4. \A x, y \in 1 .. R : x # y => inv[x] # inv[y]
    BY <1>2, <1>10
  <2>5. k - 1 \in Nat
    OBVIOUS
  <2>6. R <= k - 1
    BY <2>3, <2>4, <2>5, Places
  <2> QED
    BY <2>6
<1>15. ASSUME NEW i \in 1 .. R
       PROVE  /\ K + p[i] \in K + 1 .. L
              /\ best[i] = Points(list[K + p[i]].key, list[K + p[i]].score, K + p[i] <= K + R)
              /\ best[i].score = list[K + p[i]].score /\ best[i].key = list[K + p[i]].key
              /\ best[i].seated = (p[i] <= R)
  <2>1. i \in 1 .. N /\ p[i] \in 1 .. N /\ K + p[i] <= L
    BY <1>2, <1>11, <1>14
  <2>2. best[i] = E[p[i]] /\ E[p[i]] = Points(list[K + p[i]].key, list[K + p[i]].score, p[i] <= R)
    BY <1>4, <1>13, <2>1
  <2>3. (K + p[i] <= K + R) = (p[i] <= R)
    BY <2>1
  <2>4. K + p[i] \in K + 1 .. L
    BY <2>1
  <2>5. best[i].score = list[K + p[i]].score /\ best[i].key = list[K + p[i]].key /\ best[i].seated = (p[i] <= R)
    BY <2>2 DEF Points
  <2> QED
    BY <2>2, <2>3, <2>4, <2>5
<1>16. ASSUME NEW i \in 1 .. R PROVE \E q \in AlwaysKept + 1 .. Len(list) :
                                        best[i] = Points(list[q].key, list[q].score, q <= Seats)
  <2>1. PICK q : q = K + p[i]
    OBVIOUS
  <2>2. q \in K + 1 .. L /\ best[i] = Points(list[q].key, list[q].score, q <= K + R)
    BY <1>15, <2>1
  <2> QED
    BY <1>2, <2>2
<1>17. DOMAIN list = 1 .. L /\ \A a, b \in 1 .. L : a < b =>
          list[a].key # list[b].key /\ (b <= Seats \/ a > Seats => list[a].score >= list[b].score)
  BY <1>2 DEF Ranked
<1>18. ASSUME NEW i \in 1 .. R, NEW j \in 1 .. R, i # j PROVE best[i].key # best[j].key
  <2>1. PICK a \in 1 .. L, b \in 1 .. L : a = K + p[i] /\ b = K + p[j]
    BY <1>15
  <2>2. i \in 1 .. N /\ j \in 1 .. N
    BY <1>2
  <2>3. p[i] # p[j] /\ p[i] \in 1 .. N /\ p[j] \in 1 .. N
    BY <1>5, <1>18, <2>2
  <2>4. a < b \/ b < a
    BY <2>1, <2>3
  <2>5. list[a].key # list[b].key
    BY <1>17, <2>4
  <2> QED
    BY <1>15, <2>1, <2>5
<1>19. ASSUME NEW q \in K + 1 .. L, \A i \in 1 .. R : best[i].key # list[q].key, NEW i \in 1 .. R
       PROVE  /\ best[i].score >= list[q].score
              /\ q <= Seats /\ ~best[i].seated => best[i].score > list[q].score
  <2>0. /\ i \in 1 .. N /\ p[i] \in 1 .. N /\ inv[p[i]] = i /\ best[i] = E[p[i]]
        /\ best[i].score \in Nat
    BY <1>2, <1>4, <1>7, <1>11
  <2>1. CASE q <= K + N
    <3>1. PICK x \in 1 .. N : x = q - K /\ K + x = q
      BY <2>1
    <3>2. E[x] = Points(list[q].key, list[q].score, x <= R)
      BY <1>13, <3>1
    <3>3. E[x].score = list[q].score /\ E[x].key = list[q].key
      BY <3>2 DEF Points
    <3>4. ~(inv[x] \in 1 .. R)
      <4>1. best[inv[x]] = E[x]
        BY <1>4, <1>9
      <4> QED
        BY <1>19, <3>3, <4>1
    <3>5. inv[x] \in 1 .. N /\ i < inv[x] /\ p[inv[x]] = x
      BY <1>9, <3>4
    <3>6. E[p[i]].score > E[x].score \/ (E[p[i]].score = E[x].score /\ p[i] < x)
      BY <1>6, <2>0, <3>5
    <3>7. E[x].score \in Nat
      BY <1>7
    <3>8. best[i].score >= list[q].score
      BY <2>0, <3>3, <3>6, <3>7
    <3>9. ASSUME q <= Seats, ~best[i].seated PROVE best[i].score > list[q].score
      <4>1. ~(p[i] <= R)
        BY <1>15, <3>9
      <4>2. x <= R
        BY <1>2, <3>1, <3>9
      <4>3. ~(p[i] < x)
        BY <2>0, <4>1, <4>2
      <4> QED
        BY <2>0, <3>3, <3>6, <4>3
    <3> QED
      BY <3>8, <3>9
  <2>2. CASE ~(q <= K + N)
    <3>1. ~(q <= Seats)
      BY <1>2, <2>2
    <3>2. ASSUME NEW y \in R + 1 .. N PROVE E[y].score = list[K + y].score /\ list[K + y].score >= list[q].score
      <4>1. K + y \in 1 .. L /\ K + y < q /\ K + y > Seats /\ y \in 1 .. N /\ q \in 1 .. L
        BY <1>2, <2>2
      <4>2. E[y] = Points(list[K + y].key, list[K + y].score, y <= R)
        BY <1>13, <4>1
      <4>3. list[K + y].score >= list[q].score
        BY <1>17, <4>1
      <4> QED
        BY <4>2, <4>3 DEF Points
    <3>3. list[q].score \in Nat
      <4>1. q \in 1 .. Len(list)
        BY <1>2
      <4>2. list[q] \in RankedMiner
        BY <4>1
      <4> QED
        BY <4>2 DEF RankedMiner
    <3>4. SUFFICES ASSUME ~(best[i].score >= list[q].score) PROVE FALSE
      BY <3>1
    <3>5. PICK f : f = [z \in 1 .. R |-> inv[R + z]]
      OBVIOUS
    <3>6. \A z \in 1 .. R : f[z] \in 1 .. i - 1
      <4> SUFFICES ASSUME NEW z \in 1 .. R PROVE f[z] \in 1 .. i - 1
        OBVIOUS
      <4>1. R + z \in R + 1 .. N /\ R + z \in 1 .. N
        BY <1>2
      <4>2. PICK y \in R + 1 .. N : y = R + z /\ y \in 1 .. N
        BY <4>1
      <4>3. E[y].score \in Nat /\ E[y].score >= list[q].score
        BY <1>7, <3>2, <4>2
      <4>4. E[y].score > E[p[i]].score
        BY <2>0, <3>3, <3>4, <4>3
      <4>5. inv[y] < inv[p[i]]
        BY <1>12, <2>0, <4>2, <4>4
      <4>6. f[z] = inv[y] /\ inv[y] \in 1 .. N
        BY <1>9, <3>5, <4>2
      <4> QED
        BY <2>0, <4>5, <4>6
    <3>7. \A x, y \in 1 .. R : x # y => f[x] # f[y]
      <4> SUFFICES ASSUME NEW x \in 1 .. R, NEW y \in 1 .. R, x # y PROVE f[x] # f[y]
        OBVIOUS
      <4>1. R + x \in 1 .. N /\ R + y \in 1 .. N /\ R + x # R + y
        BY <1>2
      <4> QED
        BY <1>10, <3>5, <4>1
    <3>8. i - 1 \in Nat
      OBVIOUS
    <3>9. R <= i - 1
      BY <3>6, <3>7, <3>8, Places
    <3> QED
      BY <3>9
  <2> QED
    BY <2>1, <2>2
<1>20. SeatsWon(list, best)
  BY <1>2, <1>16, <1>18, <1>19 DEF SeatsWon
<1>21. best \in [1 .. 2 * Rivals -> RankedMiner]
  BY <1>2, <1>4, <1>5, <1>7
<1> QED
  BY <1>3, <1>20, <1>21

\* Scores are in order but for the entry that climbs, which stays in its part of the list.
AlmostRanked(list, i, floor) ==
  /\ list \in Seq(RankedMiner) /\ Len(list) >= Seats
  /\ i \in 1 .. Len(list) /\ floor \in {1, Seats + 1} /\ floor <= i /\ (floor = 1 => i <= Seats)
  /\ \A a, b \in 1 .. Len(list) : a # b => list[a].key # list[b].key
  /\ \A a, b \in 1 .. Len(list) :
       a < b /\ b # i /\ (b <= Seats \/ a > Seats) => list[a].score >= list[b].score
  /\ {list[k].key : k \in 1 .. Seats} = Range(computors)

\* The same entries in order again.
RankedAgain(list, new) ==
  /\ new \in Seq(RankedMiner) /\ Len(new) = Len(list) /\ Ranked(new)
  /\ \A k \in 1 .. Len(list) : \E m \in 1 .. Len(list) : new[k] = list[m]

\* Climbing restores the order.
LEMMA ClimbedRanked ==
  ASSUME NEW list, NEW i, NEW floor, AlmostRanked(list, i, floor)
  PROVE  RankedAgain(list, Climbed(list, i, floor))
<1>1. PICK n \in Nat : /\ n = Len(list) /\ DOMAIN list = 1 .. n
                       /\ \A k \in 1 .. n : list[k] \in RankedMiner
  BY DEF AlmostRanked
<1>2. Seats \in Nat /\ n >= Seats /\ i \in 1 .. n /\ floor \in 1 .. i
  BY <1>1, SeatNumbers DEF AlmostRanked
<1>3. \A k \in 1 .. n : list[k].score \in Nat
  BY <1>1 DEF RankedMiner
<1>4. \A a, b \in 1 .. n :
       a < b /\ b # i /\ (b <= Seats \/ a > Seats) => list[a].score >= list[b].score
  BY <1>1 DEF AlmostRanked
<1>5. (floor = 1 /\ i <= Seats) \/ floor = Seats + 1
  BY DEF AlmostRanked
<1>6. \A j, k \in floor .. i - 1 : j < k => list[j].score >= list[k].score
  <2> SUFFICES ASSUME NEW j \in floor .. i - 1, NEW k \in floor .. i - 1, j < k
               PROVE  list[j].score >= list[k].score
    OBVIOUS
  <2>1. j \in 1 .. n /\ k \in 1 .. n /\ k # i /\ (k <= Seats \/ j > Seats)
    BY <1>2, <1>5
  <2> QED
    BY <1>4, <2>1
<1>7. PICK q : ClimbsBy(list, n, i, floor, q)
  BY <1>1, <1>2, <1>3, <1>6, ClimbedIs, Zenon
<1>8. /\ q \in [1 .. n -> 1 .. n]
      /\ \A j, k \in 1 .. n : j # k => q[j] # q[k]
      /\ \A m \in 1 .. n : \E k \in 1 .. n : q[k] = m
  BY <1>7 DEF ClimbsBy, Reordering
<1>9. PICK new : new = Climbed(list, i, floor) /\ new = [k \in 1 .. n |-> list[q[k]]]
  BY <1>7 DEF ClimbsBy
<1>10. /\ \A k \in 1 .. n : k \notin floor .. i => q[k] = k
       /\ \A k \in floor .. i : q[k] \in floor .. i
       /\ \A j, k \in floor .. i : j < k =>
            \/ list[q[j]].score > list[q[k]].score
            \/ list[q[j]].score = list[q[k]].score /\ q[j] < q[k]
  BY <1>7 DEF ClimbsBy
<1>11. new \in Seq(RankedMiner) /\ Len(new) = n
  <2>1. \A k \in 1 .. n : list[q[k]] \in RankedMiner
    BY <1>1, <1>8
  <2>2. new \in [1 .. n -> RankedMiner]
    BY <1>9, <2>1
  <2> HIDE <1>8, <1>9
  <2> QED
    BY <2>2
<1>12. \A k \in 1 .. n : \E m \in 1 .. n : new[k] = list[m]
  BY <1>8, <1>9
<1>13. ASSUME NEW a \in 1 .. n, NEW b \in 1 .. n, a < b PROVE new[a].key # new[b].key
  <2>1. q[a] \in 1 .. n /\ q[b] \in 1 .. n /\ q[a] # q[b] /\ new[a] = list[q[a]] /\ new[b] = list[q[b]]
    BY <1>8, <1>9, <1>13
  <2> QED
    BY <1>1, <2>1 DEF AlmostRanked
<1>14. ASSUME NEW a \in 1 .. n, NEW b \in 1 .. n, a < b, b <= Seats \/ a > Seats
       PROVE new[a].score >= new[b].score
  <2>1. new[a] = list[q[a]] /\ new[b] = list[q[b]] /\ q[a] \in 1 .. n /\ q[b] \in 1 .. n
    BY <1>8, <1>9
  <2>2. list[q[a]].score \in Nat /\ list[q[b]].score \in Nat
    BY <1>3, <2>1
  <2>3. CASE a \in floor .. i /\ b \in floor .. i
    <3>1. \/ list[q[a]].score > list[q[b]].score
          \/ list[q[a]].score = list[q[b]].score
      BY <1>10, <1>14, <2>3
    <3> QED
      BY <2>1, <2>2, <3>1
  <2>4. CASE a < floor
    <3>1. floor = Seats + 1 /\ a <= Seats /\ b <= Seats
      BY <1>2, <1>5, <1>14, <2>4
    <3>2. a \notin floor .. i /\ b \notin floor .. i /\ b # i
      BY <1>2, <3>1
    <3>3. q[a] = a /\ q[b] = b
      BY <1>10, <3>2
    <3>4. list[a].score >= list[b].score
      BY <1>4, <1>14, <3>1, <3>2
    <3> QED
      BY <2>1, <3>3, <3>4
  <2>5. CASE b > i
    <3>1. b \notin floor .. i /\ q[b] = b /\ b # i
      BY <1>2, <1>10, <2>5
    <3>2. q[a] < b /\ (b <= Seats \/ q[a] > Seats)
      <4>1. CASE a \in floor .. i
        <5>1. q[a] \in floor .. i
          BY <1>10, <4>1
        <5>2. a > Seats => floor = Seats + 1
          BY <1>2, <1>5, <4>1
        <5> QED
          BY <1>2, <1>14, <2>5, <5>1, <5>2
      <4>2. CASE a \notin floor .. i
        <5>1. q[a] = a
          BY <1>10, <4>2
        <5> QED
          BY <1>14, <5>1
      <4> QED
        BY <4>1, <4>2
    <3>3. PICK c \in 1 .. n : c = q[a]
      BY <2>1
    <3>4. list[c].score >= list[b].score
      BY <1>4, <3>1, <3>2, <3>3
    <3> QED
      BY <2>1, <3>1, <3>3, <3>4
  <2> QED
    BY <1>2, <1>14, <2>3, <2>4, <2>5
<1>15. \A k \in 1 .. n : k <= Seats <=> q[k] <= Seats
  <2> SUFFICES ASSUME NEW k \in 1 .. n PROVE k <= Seats <=> q[k] <= Seats
    OBVIOUS
  <2>1. CASE k \in floor .. i
    <3>1. q[k] \in floor .. i
      BY <1>10, <2>1
    <3> QED
      BY <1>2, <1>5, <2>1, <3>1
  <2>2. CASE k \notin floor .. i
    <3>1. q[k] = k
      BY <1>10, <2>2
    <3> QED
      BY <3>1
  <2> QED
    BY <2>1, <2>2
<1>16. {new[k].key : k \in 1 .. Seats} = {list[k].key : k \in 1 .. Seats}
  <2>1. ASSUME NEW k \in 1 .. Seats PROVE \E m \in 1 .. Seats : new[k].key = list[m].key
    <3>1. k \in 1 .. n /\ q[k] \in 1 .. n /\ q[k] <= Seats /\ new[k] = list[q[k]]
      BY <1>2, <1>8, <1>9, <1>15
    <3>2. q[k] \in 1 .. Seats
      BY <1>2, <3>1
    <3> QED
      BY <3>1, <3>2
  <2>2. ASSUME NEW m \in 1 .. Seats PROVE \E k \in 1 .. Seats : new[k].key = list[m].key
    <3>1. m \in 1 .. n
      BY <1>2
    <3>2. PICK k \in 1 .. n : q[k] = m
      BY <1>8, <3>1
    <3>3. k <= Seats /\ new[k] = list[m]
      BY <1>9, <1>15, <3>2
    <3>4. k \in 1 .. Seats
      BY <1>2, <3>3
    <3> QED
      BY <3>3, <3>4
  <2>3. ASSUME NEW x \in {new[k].key : k \in 1 .. Seats}
        PROVE  x \in {list[k].key : k \in 1 .. Seats}
    <3>1. PICK k \in 1 .. Seats : x = new[k].key
      BY <2>3
    <3> QED
      BY <2>1, <3>1
  <2>4. ASSUME NEW x \in {list[k].key : k \in 1 .. Seats}
        PROVE  x \in {new[k].key : k \in 1 .. Seats}
    <3>1. PICK k \in 1 .. Seats : x = list[k].key
      BY <2>4
    <3> QED
      BY <2>2, <3>1
  <2> QED
    BY <2>3, <2>4, Zenon
<1>17. Ranked(new)
  <2>1. DOMAIN new = 1 .. n
    BY <1>9
  <2>2. {new[k].key : k \in 1 .. Seats} = Range(computors)
    BY <1>16 DEF AlmostRanked
  <2>3. Len(new) >= Seats
    BY <1>2, <1>11
  <2> QED
    BY <1>13, <1>14, <2>1, <2>2, <2>3 DEF Ranked
<1> QED
  BY <1>1, <1>9, <1>11, <1>12, <1>17 DEF RankedAgain

\* One more solution adds a point to its miner, and to nobody else.
Scored(list, new, miner) ==
  \A k \in 1 .. Len(new) :
    \/ \E i \in 1 .. Len(list) : /\ new[k].key = list[i].key
                                 /\ new[k].score = list[i].score + (IF list[i].key = miner THEN 1 ELSE 0)
    \/ new[k].key = miner /\ new[k].score = 1

\* The list stays ranked.
LEMMA CreditedRanked ==
  ASSUME NEW list \in Seq(RankedMiner), Ranked(list), Len(list) <= MaxMiners, NEW miner \in MinerKey
  PROVE  /\ Credited(list, miner) \in Seq(RankedMiner) /\ Len(Credited(list, miner)) <= MaxMiners
         /\ Ranked(Credited(list, miner)) /\ Scored(list, Credited(list, miner), miner)
<1>1. PICK n \in Nat : /\ n = Len(list) /\ DOMAIN list = 1 .. n
                       /\ \A k \in 1 .. n : list[k] \in RankedMiner
  OBVIOUS
<1>2. Seats \in Nat /\ n >= Seats /\ MaxMiners \in Nat /\ n <= MaxMiners
  BY <1>1, SeatNumbers, MinerRankingAssumption DEF Ranked
<1>3. /\ \A a, b \in 1 .. n : a < b => /\ list[a].key # list[b].key
                                       /\ b <= Seats \/ a > Seats => list[a].score >= list[b].score
      /\ {list[k].key : k \in 1 .. Seats} = Range(computors)
  BY <1>1 DEF Ranked
<1>4. \A a, b \in 1 .. n : a # b => list[a].key # list[b].key
  <2> SUFFICES ASSUME NEW a \in 1 .. n, NEW b \in 1 .. n, a # b PROVE list[a].key # list[b].key
    OBVIOUS
  <2>1. a < b \/ b < a
    OBVIOUS
  <2> QED
    BY <1>3, <2>1
<1>5. \A k \in 1 .. n : list[k].score \in Nat /\ list[k].key \in MinerKey
  BY <1>1 DEF RankedMiner
<1> DEFINE own == {i \in DOMAIN list : list[i].key = miner}
<1>6. CASE own # {}
  <2>1. PICK i \in 1 .. n : i = Min(own) /\ list[i].key = miner
    <3>1. IsFiniteSet(1 .. n)
      BY FS_Interval
    <3>2. own \subseteq 1 .. n /\ own \subseteq Int
      BY <1>1
    <3>3. IsFiniteSet(own)
      BY <3>1, <3>2, FS_Subset
    <3>4. Min(own) \in own
      BY <1>6, <3>2, <3>3, Extremes
    <3> QED
      BY <1>1, <3>4
  <2>2. PICK two : two = [list EXCEPT ![i].score = @ + 1]
    OBVIOUS
  <2>3. PICK floor : floor = IF i <= Seats THEN 1 ELSE Seats + 1
    OBVIOUS
  <2>4. Credited(list, miner) = Climbed(two, i, floor)
    BY <1>6, <2>1, <2>2, <2>3 DEF Credited
  <2>5. /\ two \in Seq(RankedMiner) /\ Len(two) = n
        /\ \A k \in 1 .. n : k # i => two[k] = list[k]
        /\ two[i].key = miner /\ two[i].score = list[i].score + 1
    <3>1. two = [k \in 1 .. n |-> IF k = i THEN [list[k] EXCEPT !.score = @ + 1] ELSE list[k]]
      BY <1>1, <2>2
    <3>2. \A k \in 1 .. n : [list[k] EXCEPT !.score = @ + 1] \in RankedMiner
      BY <1>1 DEF RankedMiner
    <3>3. /\ [list[i] EXCEPT !.score = @ + 1].key = miner
          /\ [list[i] EXCEPT !.score = @ + 1].score = list[i].score + 1
      BY <1>1, <2>1 DEF RankedMiner
    <3>4. two[i] = [list[i] EXCEPT !.score = @ + 1] /\ \A k \in 1 .. n : k # i => two[k] = list[k]
      BY <3>1
    <3>5. two \in [1 .. n -> RankedMiner]
      BY <1>1, <3>1, <3>2
    <3> HIDE <2>2, <3>1
    <3>6. two \in Seq(RankedMiner) /\ Len(two) = n
      BY <3>5
    <3> QED
      BY <3>3, <3>4, <3>6
  <2>6. AlmostRanked(two, i, floor)
    <3>1. \A k \in 1 .. n : two[k].key = list[k].key /\ two[k].score >= list[k].score
      BY <1>5, <2>1, <2>5
    <3>2. \A a, b \in 1 .. n : a < b /\ b # i /\ (b <= Seats \/ a > Seats) => two[a].score >= two[b].score
      <4> SUFFICES ASSUME NEW a \in 1 .. n, NEW b \in 1 .. n, a < b, b # i, b <= Seats \/ a > Seats
                   PROVE two[a].score >= two[b].score
        OBVIOUS
      <4>1. list[a].score >= list[b].score /\ two[b] = list[b] /\ two[a].score >= list[a].score
        BY <1>3, <2>5, <3>1
      <4>2. list[a].score \in Nat /\ list[b].score \in Nat /\ two[a].score \in Nat
        <5>1. two[a].score = list[a].score \/ two[a].score = list[a].score + 1
          BY <2>5
        <5> QED
          BY <1>5, <5>1
      <4> QED
        BY <4>1, <4>2
    <3>3. {two[k].key : k \in 1 .. Seats} = Range(computors)
      <4>1. \A k \in 1 .. Seats : two[k].key = list[k].key
        BY <1>2, <3>1
      <4> QED
        BY <1>3, <4>1
    <3>4. \A a, b \in 1 .. n : a # b => two[a].key # two[b].key
      BY <1>4, <3>1
    <3>5. floor \in {1, Seats + 1} /\ floor <= i /\ (floor = 1 => i <= Seats)
      BY <1>2, <2>3, SeatNumbers
    <3> QED
      BY <1>2, <2>5, <3>2, <3>3, <3>4, <3>5 DEF AlmostRanked
  <2>7. PICK new : new = Climbed(two, i, floor) /\ RankedAgain(two, new)
    BY <2>6, ClimbedRanked, Zenon
  <2>9. new \in Seq(RankedMiner) /\ Len(new) = n /\ Ranked(new)
    BY <2>5, <2>7, Zenon DEF RankedAgain
  <2>10. \A k \in 1 .. n : \E m \in 1 .. n : new[k] = two[m]
    <3>1. Len(two) = n
      BY <2>5
    <3> HIDE <2>2
    <3> QED
      BY <2>7, <3>1 DEF RankedAgain
  <2>8. Scored(list, new, miner)
    <3> SUFFICES ASSUME NEW k \in 1 .. n
                 PROVE  \E j \in 1 .. n : /\ new[k].key = list[j].key
                                          /\ new[k].score = list[j].score + (IF list[j].key = miner THEN 1 ELSE 0)
      BY <1>1, <2>9 DEF Scored
    <3>1. PICK m \in 1 .. n : new[k] = two[m]
      BY <2>10
    <3>2. CASE m = i
      BY <2>1, <2>5, <3>1, <3>2
    <3>3. CASE m # i
      <4>1. list[m].key # miner /\ new[k] = list[m]
        BY <1>4, <2>1, <2>5, <3>1, <3>3
      <4>2. new[k].score = list[m].score + 0
        BY <1>5, <4>1
      <4> QED
        BY <4>1, <4>2
    <3> QED
      BY <3>2, <3>3
  <2> QED
    BY <1>2, <2>4, <2>7, <2>8, <2>9
<1>7. CASE own = {} /\ Len(list) < MaxMiners
  <2>1. PICK two : two = Append(list, Points(miner, 1, FALSE))
    OBVIOUS
  <2>2. Credited(list, miner) = Climbed(two, n + 1, Seats + 1)
    BY <1>1, <1>7, <2>1 DEF Credited
  <2>3. Points(miner, 1, FALSE) \in RankedMiner /\ Points(miner, 1, FALSE).key = miner
        /\ Points(miner, 1, FALSE).score = 1
    BY DEF Points, RankedMiner
  <2>4. /\ two \in Seq(RankedMiner) /\ Len(two) = n + 1
        /\ \A k \in 1 .. n : two[k] = list[k]
        /\ two[n + 1].key = miner /\ two[n + 1].score = 1
    <3>1. PICK entry \in RankedMiner : entry = Points(miner, 1, FALSE) /\ entry.key = miner /\ entry.score = 1
      BY <2>3
    <3>2. two = Append(list, entry)
      BY <2>1, <3>1
    <3>3. /\ two \in Seq(RankedMiner) /\ Len(two) = n + 1
          /\ \A k \in 1 .. n : two[k] = list[k]
          /\ two[n + 1] = entry
      BY <1>1, <3>2
    <3> QED
      BY <3>1, <3>3
  <2>5. AlmostRanked(two, n + 1, Seats + 1)
    <3>1. \A a, b \in 1 .. n + 1 : a # b => two[a].key # two[b].key
      <4> SUFFICES ASSUME NEW a \in 1 .. n + 1, NEW b \in 1 .. n + 1, a # b PROVE two[a].key # two[b].key
        OBVIOUS
      <4>1. \A k \in 1 .. n : two[k].key # miner
        BY <1>1, <1>7, <2>4
      <4>2. CASE a = n + 1
        <5>1. b \in 1 .. n
          BY <4>2
        <5> QED
          BY <2>4, <4>1, <4>2, <5>1
      <4>3. CASE b = n + 1
        <5>1. a \in 1 .. n
          BY <4>3
        <5> QED
          BY <2>4, <4>1, <4>3, <5>1
      <4>4. CASE a # n + 1 /\ b # n + 1
        <5>1. a \in 1 .. n /\ b \in 1 .. n
          BY <4>4
        <5> QED
          BY <1>4, <2>4, <5>1
      <4> QED
        BY <4>2, <4>3, <4>4
    <3>2. \A a, b \in 1 .. n + 1 :
            a < b /\ b # n + 1 /\ (b <= Seats \/ a > Seats) => two[a].score >= two[b].score
      <4> SUFFICES ASSUME NEW a \in 1 .. n + 1, NEW b \in 1 .. n + 1,
                          a < b, b # n + 1, b <= Seats \/ a > Seats
                   PROVE two[a].score >= two[b].score
        OBVIOUS
      <4>1. a \in 1 .. n /\ b \in 1 .. n
        OBVIOUS
      <4> QED
        BY <1>3, <2>4, <4>1
    <3>3. {two[k].key : k \in 1 .. Seats} = Range(computors)
      <4>1. \A k \in 1 .. Seats : two[k] = list[k]
        BY <1>2, <2>4
      <4> QED
        BY <1>3, <4>1
    <3>4. n + 1 \in 1 .. n + 1 /\ Seats + 1 <= n + 1 /\ n + 1 >= Seats /\ (Seats + 1 = 1 => n + 1 <= Seats)
      BY <1>2, SeatNumbers
    <3> QED
      BY <2>4, <3>1, <3>2, <3>3, <3>4 DEF AlmostRanked
  <2>6. PICK new : /\ new = Climbed(two, n + 1, Seats + 1) /\ new \in Seq(RankedMiner)
                   /\ Len(new) = n + 1 /\ Ranked(new)
                   /\ \A k \in 1 .. n + 1 : \E m \in 1 .. n + 1 : new[k] = two[m]
    <3>1. RankedAgain(two, Climbed(two, n + 1, Seats + 1))
      BY <2>5, ClimbedRanked, Zenon
    <3>2. PICK new : new = Climbed(two, n + 1, Seats + 1) /\ RankedAgain(two, new)
      BY <3>1
    <3>3. Len(two) = n + 1
      BY <2>4
    <3>4. /\ new \in Seq(RankedMiner) /\ Len(new) = n + 1 /\ Ranked(new)
          /\ \A k \in 1 .. n + 1 : \E m \in 1 .. n + 1 : new[k] = two[m]
      BY <3>2, <3>3, Zenon DEF RankedAgain
    <3> QED
      BY <3>2, <3>4, Zenon
  <2>7. Scored(list, new, miner)
    <3> SUFFICES ASSUME NEW k \in 1 .. n + 1
                 PROVE  \/ \E j \in 1 .. n : /\ new[k].key = list[j].key
                                             /\ new[k].score = list[j].score + (IF list[j].key = miner THEN 1 ELSE 0)
                        \/ new[k].key = miner /\ new[k].score = 1
      BY <1>1, <2>6 DEF Scored
    <3>1. PICK m \in 1 .. n + 1 : new[k] = two[m]
      BY <2>6
    <3>2. CASE m = n + 1
      BY <2>4, <3>1, <3>2
    <3>3. CASE m # n + 1
      <4>1. m \in 1 .. n
        BY <3>3
      <4>2. list[m].key # miner /\ new[k] = list[m]
        BY <1>1, <1>7, <2>4, <3>1, <4>1
      <4>3. new[k].score = list[m].score + 0
        BY <1>5, <4>1, <4>2
      <4> QED
        BY <4>1, <4>2, <4>3
    <3> QED
      BY <3>2, <3>3
  <2>8. n + 1 <= MaxMiners
    BY <1>1, <1>2, <1>7
  <2> QED
    BY <2>2, <2>6, <2>7, <2>8
<1>8. CASE own = {} /\ ~(Len(list) < MaxMiners)
  <2>1. Credited(list, miner) = list
    BY <1>8 DEF Credited
  <2>2. Scored(list, list, miner)
    <3> SUFFICES ASSUME NEW k \in 1 .. n
                 PROVE  \E j \in 1 .. n : /\ list[k].key = list[j].key
                                          /\ list[k].score = list[j].score + (IF list[j].key = miner THEN 1 ELSE 0)
      BY <1>1 DEF Scored
    <3>1. list[k].key # miner
      BY <1>1, <1>8
    <3>2. list[k].score = list[k].score + 0
      BY <1>5
    <3> QED
      BY <3>1, <3>2
  <2> QED
    BY <1>1, <1>2, <2>1, <2>2
<1> QED
  BY <1>6, <1>7, <1>8

-----------------------------------------------------------------------------
(***************************************************************************)
(* The ranking of miners                                                   *)
(***************************************************************************)
\* The good solutions of a miner that were processed.
Merits(m, flags) == {s \in flags : s.miner = m /\ s.good}

\* A new solution adds to those of its miner.
LEMMA MeritsAdd ==
  ASSUME NEW flags \in SUBSET Solution, NEW s \in Solution, s \notin flags, NEW m
  PROVE  /\ Cardinality(Merits(m, flags)) \in Nat /\ Cardinality(Merits(m, flags \cup {s})) \in Nat
         /\ Cardinality(Merits(m, flags)) <= Cardinality(Merits(m, flags \cup {s}))
         /\ s.miner = m /\ s.good => Cardinality(Merits(m, flags \cup {s})) = Cardinality(Merits(m, flags)) + 1
<1>1. IsFiniteSet(Solution)
  BY MinerRankingAssumption
<1>2. Merits(m, flags) \in SUBSET Solution /\ Merits(m, flags \cup {s}) \in SUBSET Solution
  BY DEF Merits
<1>3. IsFiniteSet(Merits(m, flags)) /\ IsFiniteSet(Merits(m, flags \cup {s}))
  BY <1>1, <1>2, FS_Subset
<1>4. Cardinality(Merits(m, flags)) \in Nat /\ Cardinality(Merits(m, flags \cup {s})) \in Nat
  BY <1>3, FS_CardinalityType
<1>5. Merits(m, flags) \in SUBSET Merits(m, flags \cup {s})
  BY DEF Merits
<1>6. Cardinality(Merits(m, flags)) <= Cardinality(Merits(m, flags \cup {s}))
  BY <1>3, <1>5, FS_Subset
<1>7. ASSUME s.miner = m, s.good
      PROVE  Cardinality(Merits(m, flags \cup {s})) = Cardinality(Merits(m, flags)) + 1
  <2>1. s \notin Merits(m, flags)
    BY DEF Merits
  <2>2. Merits(m, flags \cup {s}) = Merits(m, flags) \cup {s}
    BY <1>7 DEF Merits
  <2> QED
    BY <1>3, <2>1, <2>2, FS_AddElement
<1> QED
  BY <1>4, <1>6, <1>7

\* Who has a point earned it, also when more solutions are processed.
LEMMA EarnedMore ==
  ASSUME NEW list \in Seq(RankedMiner), NEW flags \in SUBSET Solution, NEW s \in Solution, Earned(list, flags)
  PROVE  Earned(list, flags \cup {s})
<1>1. CASE s \in flags
  <2>1. flags \cup {s} = flags
    BY <1>1
  <2> QED
    BY <2>1
<1>2. CASE s \notin flags
  <2>1. ASSUME NEW k \in DOMAIN list
        PROVE  list[k].score <= Cardinality(Merits(list[k].key, flags \cup {s}))
    <3>1. list[k].score <= Cardinality(Merits(list[k].key, flags)) /\ list[k].score \in Nat
      <4>1. list[k] \in RankedMiner
        OBVIOUS
      <4> QED
        BY <4>1 DEF Earned, Merits, RankedMiner
    <3>2. PICK m : m = list[k].key
      OBVIOUS
    <3>3. /\ Cardinality(Merits(m, flags)) \in Nat /\ Cardinality(Merits(m, flags \cup {s})) \in Nat
          /\ Cardinality(Merits(m, flags)) <= Cardinality(Merits(m, flags \cup {s}))
      BY <1>2, MeritsAdd
    <3> QED
      BY <3>1, <3>2, <3>3
  <2> QED
    BY <2>1 DEF Earned, Merits
<1> QED
  BY <1>1, <1>2

\* A good solution earns the point that it adds.
LEMMA EarnedOne ==
  ASSUME NEW list \in Seq(RankedMiner), NEW new \in Seq(RankedMiner),
         NEW flags \in SUBSET Solution, NEW s \in Solution, s \notin flags, s.good,
         Earned(list, flags), Scored(list, new, s.miner)
  PROVE  Earned(new, flags \cup {s})
<1>1. ASSUME NEW k \in DOMAIN new
      PROVE  new[k].score <= Cardinality(Merits(new[k].key, flags \cup {s}))
  <2>1. PICK m : m = new[k].key
    OBVIOUS
  <2>2. /\ Cardinality(Merits(m, flags)) \in Nat /\ Cardinality(Merits(m, flags \cup {s})) \in Nat
        /\ Cardinality(Merits(m, flags)) <= Cardinality(Merits(m, flags \cup {s}))
        /\ s.miner = m => Cardinality(Merits(m, flags \cup {s})) = Cardinality(Merits(m, flags)) + 1
    BY MeritsAdd
  <2>3. k \in 1 .. Len(new)
    OBVIOUS
  <2>4. CASE \E i \in 1 .. Len(list) :
               /\ new[k].key = list[i].key
               /\ new[k].score = list[i].score + (IF list[i].key = s.miner THEN 1 ELSE 0)
    <3>1. PICK i \in 1 .. Len(list) :
               /\ new[k].key = list[i].key
               /\ new[k].score = list[i].score + (IF list[i].key = s.miner THEN 1 ELSE 0)
      BY <2>4
    <3>2. list[i] \in RankedMiner /\ i \in DOMAIN list
      OBVIOUS
    <3>3. list[i].score \in Nat /\ list[i].score <= Cardinality(Merits(m, flags))
      BY <2>1, <3>1, <3>2 DEF Earned, Merits, RankedMiner
    <3> QED
      BY <2>1, <2>2, <3>1, <3>3
  <2>5. CASE new[k].key = s.miner /\ new[k].score = 1
    BY <2>1, <2>2, <2>5
  <2> QED
    BY <2>3, <2>4, <2>5 DEF Scored
<1> QED
  BY <1>1 DEF Earned, Merits

\* A single number is the least of them.
LEMMA LeastOfOne ==
  ASSUME NEW i \in Int
  PROVE  Min({i}) = i
<1>1. IsFiniteSet({i}) /\ {i} # {} /\ {i} \subseteq Int
  BY FS_Singleton, Zenon
<1>2. Min({i}) \in {i}
  BY <1>1, Extremes, Zenon
<1> QED
  BY <1>2, Zenon

\* A solution that the node will publish in a tick.
Planned(own, flags, s, t) ==
  s \notin flags /\ \E i \in DOMAIN own : own[i].solution = s /\ own[i].publication = t

\* Recording a solution that was processed keeps what is known of the others.
RecordedIn(own, flags, s, new) ==
  /\ new \in Seq(OwnSolution)
  /\ OwnKept(new, flags \cup {s})
  /\ \A u, t : u # s /\ Planned(own, flags, u, t) => Planned(new, flags \cup {s}, u, t)

\* Recording a processed solution of an own computor keeps the list of own solutions.
LEMMA RecordKeeps ==
  ASSUME NEW own \in Seq(OwnSolution), NEW flags, NEW s \in Solution, OwnKept(own, flags),
         s.miner \in OwnComputor => \E i \in DOMAIN own : own[i].solution = s
  PROVE  RecordedIn(own, flags, s, Record(own, s))
<1>1. CASE s.miner \notin OwnComputor
  <2>1. Record(own, s) = own
    BY <1>1 DEF Record
  <2>2. OwnKept(own, flags \cup {s})
    <3>1. ASSUME NEW i \in DOMAIN own
          PROVE  LET w == own[i].solution IN
                 /\ w.miner \in OwnComputor /\ w.good /\ w.seed # 0
                 /\ w \in flags \cup {s} => own[i].publication < 0
      <4>1. /\ own[i].solution.miner \in OwnComputor /\ own[i].solution.good /\ own[i].solution.seed # 0
            /\ own[i].solution \in flags => own[i].publication < 0
        BY Zenon DEF OwnKept
      <4>2. own[i].solution # s
        BY <1>1, <4>1
      <4> QED
        BY <4>1, <4>2, Zenon
    <3>2. ASSUME NEW w \in flags \cup {s}, w.miner \in OwnComputor PROVE \E i \in DOMAIN own : own[i].solution = w
      <4>1. w \in flags
        BY <1>1, <3>2
      <4> QED
        BY <3>2, <4>1, Zenon DEF OwnKept
    <3>3. \A i, j \in DOMAIN own : i # j => own[i].solution # own[j].solution
      BY Zenon DEF OwnKept
    <3> QED
      BY <3>1, <3>2, <3>3, Zenon DEF OwnKept
  <2>3. ASSUME NEW u, NEW t, u # s, Planned(own, flags, u, t) PROVE Planned(own, flags \cup {s}, u, t)
    <3>1. u \notin flags \cup {s}
      BY <2>3 DEF Planned
    <3> QED
      BY <2>3, <3>1, Zenon DEF Planned
  <2> QED
    BY <2>1, <2>2, <2>3, Zenon DEF RecordedIn
<1>2. CASE s.miner \in OwnComputor
  <2>1. PICK i \in DOMAIN own : own[i].solution = s
    BY <1>2
  <2>2. OwnIndex(own, s) = {i}
    BY <2>1 DEF OwnIndex, OwnKept
  <2>3. i \in Int
    OBVIOUS
  <2>4. Min({i}) = i
    BY <2>3, LeastOfOne
  <2>5. PICK new : new = [own EXCEPT ![i].publication = Recorded]
    OBVIOUS
  <2>6. Record(own, s) = new
    BY <1>2, <2>2, <2>4, <2>5 DEF Record
  <2>7. /\ new \in Seq(OwnSolution) /\ DOMAIN new = DOMAIN own
        /\ \A k \in DOMAIN own : k # i => new[k] = own[k]
        /\ new[i].solution = s /\ new[i].publication = -1
    <3>1. own[i] \in OwnSolution /\ own[i].solution = s
      BY <2>1
    <3>2. PICK entry : entry = [own[i] EXCEPT !.publication = Recorded]
      OBVIOUS
    <3>3. entry \in OwnSolution /\ entry.solution = s /\ entry.publication = -1
      BY <3>1, <3>2 DEF OwnSolution, Recorded
    <3>4. new = [own EXCEPT ![i] = entry]
      BY <2>5, <3>2
    <3> HIDE <2>5, <3>2
    <3> QED
      BY <3>3, <3>4
  <2> HIDE <2>5
  <2>8. OwnKept(new, flags \cup {s})
    <3>1. ASSUME NEW a \in DOMAIN new, NEW b \in DOMAIN new, a # b PROVE new[a].solution # new[b].solution
      <4>1. new[a].solution = own[a].solution /\ new[b].solution = own[b].solution
        BY <2>1, <2>7
      <4> QED
        BY <2>7, <3>1, <4>1 DEF OwnKept
    <3>2. ASSUME NEW a \in DOMAIN new
          PROVE  LET w == new[a].solution IN
                 /\ w.miner \in OwnComputor /\ w.good /\ w.seed # 0
                 /\ w \in flags \cup {s} => new[a].publication < 0
      <4>1. /\ new[a].solution.miner \in OwnComputor /\ new[a].solution.good /\ new[a].solution.seed # 0
        <5>1. new[a].solution = own[a].solution /\ a \in DOMAIN own
          BY <2>1, <2>7
        <5> QED
          BY <5>1, Zenon DEF OwnKept
      <4>2. ASSUME new[a].solution \in flags \cup {s} PROVE new[a].publication < 0
        <5>1. CASE a = i
          BY <2>7, <5>1
        <5>2. CASE a # i
          <6>1. new[a] = own[a] /\ a \in DOMAIN own /\ own[a].solution # s
            BY <2>1, <2>7, <5>2 DEF OwnKept
          <6>2. own[a].solution \in flags
            BY <4>2, <6>1
          <6>3. own[a].publication < 0
            BY <6>1, <6>2, Zenon DEF OwnKept
          <6> QED
            BY <6>1, <6>3
        <5> QED
          BY <5>1, <5>2
      <4> QED
        BY <4>1, <4>2, Zenon
    <3>3. ASSUME NEW w \in flags \cup {s}, w.miner \in OwnComputor PROVE \E k \in DOMAIN new : new[k].solution = w
      <4>1. CASE w = s
        BY <2>1, <2>7, <4>1
      <4>2. CASE w \in flags
        <5>1. PICK k \in DOMAIN own : own[k].solution = w
          BY <3>3, <4>2, Zenon DEF OwnKept
        <5>2. new[k].solution = own[k].solution /\ k \in DOMAIN new
          BY <2>1, <2>7
        <5> QED
          BY <5>1, <5>2
      <4> QED
        BY <4>1, <4>2
    <3> QED
      BY <3>1, <3>2, <3>3, Zenon DEF OwnKept
  <2>9. ASSUME NEW u, NEW t, u # s, Planned(own, flags, u, t) PROVE Planned(new, flags \cup {s}, u, t)
    <3>1. PICK k \in DOMAIN own : own[k].solution = u /\ own[k].publication = t
      BY <2>9 DEF Planned
    <3>2. new[k] = own[k] /\ k \in DOMAIN new
      BY <2>1, <2>7, <2>9, <3>1
    <3>3. u \notin flags \cup {s}
      BY <2>9 DEF Planned
    <3> QED
      BY <3>1, <3>2, <3>3 DEF Planned
  <2> QED
    BY <2>6, <2>7, <2>8, <2>9, Zenon DEF RecordedIn
<1> QED
  BY <1>1, <1>2

\* What the transactions of a tick work on.
WorkState ==
  [flags : SUBSET Solution, own : Seq(OwnSolution), miners : Seq(RankedMiner),
   competitors : [1 .. 2 * Rivals -> RankedMiner], future : [1 .. Seats -> MinerKey],
   deposits : [Solution -> Nat], txs : [0 .. LastMiningTick + PublicationOffset -> SUBSET Solution]]

\* The computors to come are those that won, once there was a solution.
Chosen(list, best, future) ==
  \/ future = [i \in 1 .. Seats |-> Nobody]
  \/ SeatsWon(list, best) /\ future = Seated(list, best)

SoundWork(st) ==
  /\ st \in WorkState
  /\ Len(st.miners) <= MaxMiners
  /\ Ranked(st.miners)
  /\ Chosen(st.miners, st.competitors, st.future)
  /\ Earned(st.miners, st.flags)
  /\ OwnKept(st.own, st.flags)
  /\ \A s \in Solution : s.miner \in OwnComputor => st.deposits[s] = 0

\* The seats go to keys.
LEMMA SeatedTyped ==
  ASSUME NEW list \in Seq(RankedMiner), Len(list) >= Seats, NEW best \in [1 .. 2 * Rivals -> RankedMiner]
  PROVE  Seated(list, best) \in [1 .. Seats -> MinerKey]
<1>1. ASSUME NEW i \in 1 .. Seats
      PROVE  (IF i <= AlwaysKept THEN list[i].key ELSE best[i - AlwaysKept].key) \in MinerKey
  <2>1. CASE i <= AlwaysKept
    <3>1. i \in 1 .. Len(list)
      BY SeatNumbers
    <3>2. list[i] \in RankedMiner
      BY <3>1
    <3> QED
      BY <2>1, <3>2 DEF RankedMiner
  <2>2. CASE ~(i <= AlwaysKept)
    <3>1. i - AlwaysKept \in 1 .. 2 * Rivals
      BY <2>2, SeatNumbers
    <3>2. best[i - AlwaysKept] \in RankedMiner
      BY <3>1
    <3> QED
      BY <2>2, <3>2 DEF RankedMiner
  <2> QED
    BY <2>1, <2>2
<1> QED
  BY <1>1 DEF Seated

\* A transaction with a solution keeps the work sound, and what is planned with other solutions.
ProcessedFrom(st, s, new) ==
  /\ SoundWork(new) /\ new.txs = st.txs
  /\ \A u, t : u # s /\ Planned(st.own, st.flags, u, t) => Planned(new.own, new.flags, u, t)

\* A processed solution keeps the ranking, the points and what was kept of own solutions.
LEMMA ProcessedKeeps ==
  ASSUME NEW st, SoundWork(st), NEW s \in Solution,
         s.miner \in OwnComputor =>
           s \notin st.flags /\ Good(s) /\ \E i \in DOMAIN st.own : st.own[i].solution = s
  PROVE  ProcessedFrom(st, s, Processed(st, s))
<1>1. PICK flags, own, list, best, future, deposit, txs :
        /\ st = [flags |-> flags, own |-> own, miners |-> list, competitors |-> best,
                 future |-> future, deposits |-> deposit, txs |-> txs]
        /\ flags \in SUBSET Solution /\ own \in Seq(OwnSolution) /\ list \in Seq(RankedMiner)
        /\ best \in [1 .. 2 * Rivals -> RankedMiner] /\ future \in [1 .. Seats -> MinerKey]
        /\ deposit \in [Solution -> Nat]
        /\ txs \in [0 .. LastMiningTick + PublicationOffset -> SUBSET Solution]
  BY DEF SoundWork, WorkState
<1>2. /\ st.flags = flags /\ st.own = own /\ st.miners = list /\ st.competitors = best
      /\ st.future = future /\ st.deposits = deposit /\ st.txs = txs
  BY <1>1
<1>3. /\ Len(list) <= MaxMiners /\ Ranked(list) /\ Chosen(list, best, future)
      /\ Earned(list, flags) /\ OwnKept(own, flags)
      /\ \A w \in Solution : w.miner \in OwnComputor => deposit[w] = 0
  BY <1>2, Zenon DEF SoundWork
<1>4. PICK kept : kept = Record(own, s) /\ RecordedIn(own, flags, s, kept)
  <2>1. RecordedIn(own, flags, s, Record(own, s))
    BY <1>1, <1>2, <1>3, RecordKeeps
  <2> QED
    BY <2>1
<1>5. /\ kept \in Seq(OwnSolution) /\ OwnKept(kept, flags \cup {s})
      /\ \A u, t : u # s /\ Planned(own, flags, u, t) => Planned(kept, flags \cup {s}, u, t)
  BY <1>4, Zenon DEF RecordedIn
<1>6. PICK paid : /\ paid = [deposit EXCEPT ![s] = @ + 1] /\ paid \in [Solution -> Nat]
                  /\ \A w \in Solution : w # s => paid[w] = deposit[w]
  <2>1. PICK d \in Nat : d = deposit[s] + 1
    BY <1>1
  <2>2. PICK paid : paid = [deposit EXCEPT ![s] = d]
    OBVIOUS
  <2>3. paid \in [Solution -> Nat] /\ \A w \in Solution : w # s => paid[w] = deposit[w]
    BY <1>1, <2>2
  <2> QED
    BY <2>1, <2>2, <2>3
<1>7. CASE s \in flags \/ ~Good(s)
  <2>1. s.miner \notin OwnComputor
    BY <1>2, <1>7
  <2>2. kept = own
    BY <1>4, <2>1 DEF Record
  <2>3. \A w \in Solution : w.miner \in OwnComputor => paid[w] = 0
    BY <1>3, <1>6, <2>1
  <2>4. PICK new : new = [flags |-> flags \cup {s}, own |-> own, miners |-> list, competitors |-> best,
                          future |-> future, deposits |-> paid, txs |-> txs]
    OBVIOUS
  <2>5. Processed(st, s) = new
    <3>1. [st EXCEPT !.deposits[s] = @ + 1] =
            [flags |-> flags, own |-> own, miners |-> list, competitors |-> best,
             future |-> future, deposits |-> paid, txs |-> txs]
      <4>1. [st EXCEPT !.deposits[s] = @ + 1] = [st EXCEPT !.deposits = paid]
        BY <1>2, <1>6
      <4>2. st = [flags |-> flags, own |-> own, miners |-> list, competitors |-> best,
                  future |-> future, deposits |-> deposit, txs |-> txs]
        BY <1>1
      <4> HIDE <1>6
      <4> QED
        BY <4>1, <4>2
    <3>2. CASE s \in flags
      <4>1. flags \cup {s} = flags
        BY <3>2
      <4>2. Processed(st, s) = [flags |-> flags, own |-> Record(own, s), miners |-> list, competitors |-> best,
                                future |-> future, deposits |-> paid, txs |-> txs]
        BY <1>2, <3>1, <3>2 DEF Processed
      <4> QED
        BY <1>4, <2>2, <2>4, <4>1, <4>2
    <3>3. CASE s \notin flags
      <4>1. PICK p : /\ p = [st EXCEPT !.deposits[s] = @ + 1]
                     /\ p = [flags |-> flags, own |-> own, miners |-> list, competitors |-> best,
                             future |-> future, deposits |-> paid, txs |-> txs]
        BY <3>1
      <4>2. Processed(st, s) = [p EXCEPT !.flags = @ \cup {s}]
        BY <1>2, <1>7, <3>3, <4>1 DEF Processed
      <4> QED
        BY <2>4, <4>1, <4>2
    <3> QED
      BY <3>2, <3>3
  <2>6. /\ new.flags = flags \cup {s} /\ new.own = own /\ new.miners = list /\ new.competitors = best
        /\ new.future = future /\ new.deposits = paid /\ new.txs = txs
    BY <2>4
  <2>7. new \in WorkState
    BY <1>1, <1>6, <2>4 DEF WorkState
  <2>8. Earned(list, flags \cup {s})
    BY <1>1, <1>3, EarnedMore
  <2>9. SoundWork(new)
    BY <1>3, <1>5, <2>2, <2>3, <2>6, <2>7, <2>8, Zenon DEF SoundWork
  <2>10. ASSUME NEW u, NEW t, u # s, Planned(st.own, st.flags, u, t) PROVE Planned(new.own, new.flags, u, t)
    <3>1. Planned(own, flags, u, t)
      BY <1>2, <2>10, Zenon
    <3>2. Planned(own, flags \cup {s}, u, t)
      BY <1>5, <2>2, <2>10, <3>1, Zenon
    <3> QED
      BY <2>6, <3>2, Zenon
  <2> QED
    BY <1>2, <2>5, <2>6, <2>9, <2>10, Zenon DEF ProcessedFrom
<1>8. CASE s \notin flags /\ Good(s)
  <2>1. PICK list2 : /\ list2 = Credited(list, s.miner) /\ list2 \in Seq(RankedMiner) /\ Len(list2) <= MaxMiners
                     /\ Ranked(list2) /\ Scored(list, list2, s.miner)
    <3>1. s.miner \in MinerKey
      BY DEF MinerKey
    <3> QED
      BY <1>1, <1>3, <3>1, CreditedRanked
  <2>2. PICK best2 \in [1 .. 2 * Rivals -> RankedMiner] : best2 = Competition(list2, best) /\ SeatsWon(list2, best2)
    BY <1>1, <2>1, CompetitionFair
  <2>3. PICK future2 \in [1 .. Seats -> MinerKey] : future2 = Seated(list2, best2)
    BY <2>1, <2>2, SeatedTyped DEF Ranked
  <2>4. PICK new : new = [flags |-> flags \cup {s}, own |-> kept, miners |-> list2, competitors |-> best2,
                          future |-> future2, deposits |-> deposit, txs |-> txs]
    OBVIOUS
  <2>5. Processed(st, s) = new
    <3>1. Processed(st, s) =
            [st EXCEPT !.flags = @ \cup {s}, !.own = Record(@, s), !.miners = list2,
                       !.competitors = best2, !.future = future2]
      BY <1>2, <1>8, <2>1, <2>2, <2>3 DEF Processed
    <3> QED
      BY <1>1, <1>4, <2>4, <3>1
  <2>6. /\ new.flags = flags \cup {s} /\ new.own = kept /\ new.miners = list2 /\ new.competitors = best2
        /\ new.future = future2 /\ new.deposits = deposit /\ new.txs = txs
    BY <2>4
  <2>7. new \in WorkState
    BY <1>1, <1>5, <2>1, <2>4 DEF WorkState
  <2>8. Earned(list2, flags \cup {s})
    BY <1>1, <1>3, <1>8, <2>1, EarnedOne DEF Good
  <2>9. Chosen(list2, best2, future2)
    BY <2>2, <2>3 DEF Chosen
  <2>10. SoundWork(new)
    BY <1>3, <1>5, <2>1, <2>6, <2>7, <2>8, <2>9, Zenon DEF SoundWork
  <2>11. ASSUME NEW u, NEW t, u # s, Planned(st.own, st.flags, u, t) PROVE Planned(new.own, new.flags, u, t)
    <3>1. Planned(own, flags, u, t)
      BY <1>2, <2>11, Zenon
    <3>2. Planned(kept, flags \cup {s}, u, t)
      BY <1>5, <2>11, <3>1, Zenon
    <3> QED
      BY <2>6, <3>2, Zenon
  <2> QED
    BY <1>2, <2>5, <2>6, <2>10, <2>11, Zenon DEF ProcessedFrom
<1> QED
  BY <1>7, <1>8

\* One transaction after the other.
ProcessedRule(g, st, order, n) == IF n = 0 THEN st ELSE Processed(g[n - 1], order[n])
ProcessedSteps(g, st, order) == g = [n \in 0 .. Len(order) |-> ProcessedRule(g, st, order, n)]

\* The recursion of AllProcessed is well defined.
LEMMA AllProcessedExists ==
  ASSUME NEW st, NEW order, Len(order) \in Nat
  PROVE  \E g : ProcessedSteps(g, st, order)
<1> DEFINE N == Len(order)
           Defined == {m \in 0 .. N : \E g : g = [n \in 0 .. m |-> ProcessedRule(g, st, order, n)]}
<1>1. N \in Nat
  OBVIOUS
<1> HIDE DEF N
<1>2. 0 \in Defined
  <2> DEFINE g == [n \in 0 .. 0 |-> st]
  <2>1. \A n \in 0 .. 0 : ProcessedRule(g, st, order, n) = st
    BY DEF ProcessedRule
  <2>2. g = [n \in 0 .. 0 |-> ProcessedRule(g, st, order, n)]
    BY <2>1
  <2> HIDE DEF g
  <2> QED
    BY <1>1, <2>2
<1>3. ASSUME NEW m \in 1 .. N, m - 1 \in Defined PROVE m \in Defined
  <2>1. PICK g : g = [n \in 0 .. m - 1 |-> ProcessedRule(g, st, order, n)]
    BY <1>3
  <2>2. PICK h : h = [n \in 0 .. m |-> ProcessedRule(g, st, order, n)]
    OBVIOUS
  <2>3. m \in Nat /\ m \in 0 .. N
    BY <1>1
  <2>4. \A n \in 0 .. m - 1 : h[n] = g[n]
    <3>1. \A n \in 0 .. m - 1 : g[n] = ProcessedRule(g, st, order, n) /\ n \in 0 .. m
      BY <2>1, <2>3
    <3>2. \A n \in 0 .. m : h[n] = ProcessedRule(g, st, order, n)
      BY <2>2
    <3> QED
      BY <3>1, <3>2
  <2>5. \A n \in 0 .. m : ProcessedRule(h, st, order, n) = ProcessedRule(g, st, order, n)
    <3>1. \A n \in 0 .. m : n # 0 => n - 1 \in 0 .. m - 1
      BY <2>3
    <3>2. \A n \in 0 .. m : n # 0 => h[n - 1] = g[n - 1]
      BY <2>4, <3>1
    <3> QED
      BY <3>2 DEF ProcessedRule
  <2>6. h = [n \in 0 .. m |-> ProcessedRule(h, st, order, n)]
    BY <2>2, <2>5
  <2> QED
    BY <2>3, <2>6
<1> HIDE DEF Defined
<1>4. N \in Defined
  <2>1. 0 .. N \subseteq Defined
    BY <1>1, <1>2, <1>3, BoundedInduction
  <2> QED
    BY <1>1, <2>1
<1> QED
  BY <1>4 DEF Defined, ProcessedSteps, N

\* The transactions of a tick: what is left to publish or to process is still planned.
DayAfter(st, order, n) ==
  /\ SoundWork(st) /\ st.txs = solutionTxs
  /\ \A t \in DOMAIN solutionTxs : \A s \in solutionTxs[t] :
       s.miner \in OwnComputor /\ (t > miningTick \/ (t = miningTick /\ \E m \in n + 1 .. Len(order) : s = order[m]))
         => Planned(st.own, st.flags, s, t)

\* The n-th solution of a tick keeps what is planned after it.
LEMMA DayStep ==
  ASSUME MiningTypeOK, OwnPlanned(ownSolutions, solutionFlags, solutionTxs, miningTick),
         NEW order, Len(order) \in Nat, order \in [1 .. Len(order) -> solutionTxs[miningTick]],
         \A i, j \in 1 .. Len(order) : i # j => order[i] # order[j],
         NEW st, NEW n \in 1 .. Len(order), DayAfter(st, order, n - 1)
  PROVE  DayAfter(Processed(st, order[n]), order, n)
<1>1. PICK s : s = order[n] /\ s \in solutionTxs[miningTick]
  OBVIOUS
<1>2. miningTick \in DOMAIN solutionTxs /\ s \in Solution /\ miningTick \in Nat
  BY <1>1, MinerRankingAssumption DEF MiningTypeOK
<1>3. SoundWork(st) /\ st.txs = solutionTxs
  BY Zenon DEF DayAfter
<1>4. ASSUME s.miner \in OwnComputor
      PROVE  s \notin st.flags /\ Good(s) /\ \E i \in DOMAIN st.own : st.own[i].solution = s
  <2>1. \E m \in (n - 1) + 1 .. Len(order) : s = order[m]
    BY <1>1
  <2>2. Planned(st.own, st.flags, s, miningTick)
    BY <1>1, <1>2, <1>4, <2>1, Zenon DEF DayAfter
  <2>3. s \notin st.flags /\ \E i \in DOMAIN st.own : st.own[i].solution = s
    BY <2>2, Zenon DEF Planned
  <2>4. s.seed = miningSeed
    <3>1. miningTick >= miningTick
      BY <1>2
    <3> QED
      BY <1>1, <1>2, <1>4, <3>1, Zenon DEF OwnPlanned
  <2>5. OwnKept(st.own, st.flags)
    BY <1>3, Zenon DEF SoundWork
  <2>6. s.good /\ s.seed # 0
    BY <2>3, <2>5, Zenon DEF OwnKept
  <2> QED
    BY <2>3, <2>4, <2>6, Zenon DEF Good
<1>5. PICK new : new = Processed(st, s) /\ ProcessedFrom(st, s, new)
  BY <1>2, <1>3, <1>4, ProcessedKeeps
<1>6. SoundWork(new) /\ new.txs = solutionTxs
  BY <1>3, <1>5, Zenon DEF ProcessedFrom
<1>7. ASSUME NEW t \in DOMAIN solutionTxs, NEW u \in solutionTxs[t], u.miner \in OwnComputor,
             t > miningTick \/ (t = miningTick /\ \E m \in n + 1 .. Len(order) : u = order[m])
      PROVE  Planned(new.own, new.flags, u, t)
  <2>1. t > miningTick \/ (t = miningTick /\ \E m \in (n - 1) + 1 .. Len(order) : u = order[m])
    BY <1>7
  <2>2. Planned(st.own, st.flags, u, t)
    BY <1>7, <2>1, Zenon DEF DayAfter
  <2>3. u # s
    <3>1. CASE t > miningTick
      <4>1. SUFFICES ASSUME u = s PROVE FALSE
        OBVIOUS
      <4>2. Planned(st.own, st.flags, s, miningTick)
        <5>1. \E m \in (n - 1) + 1 .. Len(order) : s = order[m]
          BY <1>1
        <5> QED
          BY <1>1, <1>2, <1>7, <4>1, <5>1, Zenon DEF DayAfter
      <4>3. PICK i \in DOMAIN st.own : st.own[i].solution = s /\ st.own[i].publication = t
        BY <2>2, <4>1, Zenon DEF Planned
      <4>4. PICK j \in DOMAIN st.own : st.own[j].solution = s /\ st.own[j].publication = miningTick
        BY <4>2, Zenon DEF Planned
      <4>5. i = j
        <5>1. OwnKept(st.own, st.flags)
          BY <1>3, Zenon DEF SoundWork
        <5> QED
          BY <4>3, <4>4, <5>1, Zenon DEF OwnKept
      <4> QED
        BY <1>2, <3>1, <4>3, <4>4, <4>5
    <3>2. CASE \E m \in n + 1 .. Len(order) : u = order[m]
      <4>1. PICK m \in n + 1 .. Len(order) : u = order[m]
        BY <3>2
      <4>2. m \in 1 .. Len(order) /\ m # n
        OBVIOUS
      <4> QED
        BY <1>1, <4>1, <4>2
    <3> QED
      BY <1>7, <3>1, <3>2
  <2> QED
    BY <1>5, <2>2, <2>3, Zenon DEF ProcessedFrom
<1>8. DayAfter(new, order, n)
  BY <1>6, <1>7, Zenon DEF DayAfter
<1> QED
  BY <1>1, <1>5, <1>8

\* So do all solutions of a tick, in the order of its transactions.
LEMMA DayEnds ==
  ASSUME MiningTypeOK, OwnPlanned(ownSolutions, solutionFlags, solutionTxs, miningTick),
         NEW order, Len(order) \in Nat, order \in [1 .. Len(order) -> solutionTxs[miningTick]],
         \A i, j \in 1 .. Len(order) : i # j => order[i] # order[j],
         NEW st, DayAfter(st, order, 0)
  PROVE  DayAfter(AllProcessed(st, order), order, Len(order))
<1> DEFINE g == CHOOSE f : ProcessedSteps(f, st, order)
<1>1. ProcessedSteps(g, st, order)
  BY AllProcessedExists
<1>2. AllProcessed(st, order) = g[Len(order)]
  BY DEF AllProcessed, ProcessedSteps, ProcessedRule
<1> HIDE DEF g
<1>3. PICK N \in Nat : N = Len(order)
  OBVIOUS
<1>4. \A n \in 0 .. N : g[n] = ProcessedRule(g, st, order, n)
  BY <1>1, <1>3 DEF ProcessedSteps
<1> DEFINE S == {n \in 0 .. N : DayAfter(g[n], order, n)}
<1>5. 0 \in S
  <2>1. g[0] = st
    BY <1>3, <1>4 DEF ProcessedRule
  <2> QED
    BY <1>3, <2>1
<1>6. ASSUME NEW n \in 1 .. N, n - 1 \in S PROVE n \in S
  <2>1. g[n] = Processed(g[n - 1], order[n])
    BY <1>3, <1>4 DEF ProcessedRule
  <2>2. DayAfter(g[n - 1], order, n - 1) /\ n \in 1 .. Len(order)
    BY <1>3, <1>6
  <2>3. DayAfter(Processed(g[n - 1], order[n]), order, n)
    BY <2>2, DayStep
  <2> QED
    BY <1>3, <2>1, <2>3
<1> HIDE DEF S
<1>7. 0 .. N \subseteq S
  BY <1>3, <1>5, <1>6, BoundedInduction
<1>8. N \in S
  BY <1>3, <1>7
<1> QED
  BY <1>2, <1>3, <1>8 DEF S

(***************************************************************************)
(* Publication                                                             *)
(***************************************************************************)

\* Only entries that wait become obsolete, and the one that is selected waits and has the seed.
SelectedFrom(own, c, choice) ==
  /\ choice.own \in Seq(OwnSolution) /\ DOMAIN choice.own = DOMAIN own /\ Len(choice.own) = Len(own)
  /\ \A i \in DOMAIN own :
       \/ choice.own[i] = own[i]
       \/ /\ choice.own[i].solution = own[i].solution /\ choice.own[i].publication < 0
          /\ own[i].publication >= 0 /\ own[i].publication <= miningTick
  /\ ~(choice.index > Len(own)) =>
       /\ choice.index \in DOMAIN own
       /\ own[choice.index].solution.miner = c /\ own[choice.index].solution.seed = miningSeed
       /\ own[choice.index].publication >= 0 /\ own[choice.index].publication <= miningTick
       /\ choice.own[choice.index] = own[choice.index]

\* A chosen solution is one of the computor for the current seed that waits to be published.
LEMMA SelectedIs ==
  ASSUME NEW own \in Seq(OwnSolution), NEW c, miningTick \in Nat
  PROVE  SelectedFrom(own, c, Selected(own, c))
<1> DEFINE due(i) == own[i].solution.miner = c /\ own[i].publication > 0 /\ own[i].publication <= miningTick
           fresh(i) == own[i].solution.miner = c /\ own[i].publication = New
           current(i) == own[i].solution.seed = miningSeed
           again == {i \in DOMAIN own : due(i) /\ current(i)}
           afresh == {i \in DOMAIN own : fresh(i) /\ current(i)}
           a == IF again = {} THEN Len(own) + 1 ELSE Min(again)
           next == IF a <= Len(own) THEN a ELSE IF afresh = {} THEN Len(own) + 1 ELSE Min(afresh)
           stale(i) == /\ ~current(i)
                       /\ \/ due(i) /\ i < a
                          \/ fresh(i) /\ a > Len(own) /\ i < next
           obsolete == [i \in DOMAIN own |-> IF stale(i) THEN [own[i] EXCEPT !.publication = Obsolete] ELSE own[i]]
<1>1. Selected(own, c) = [index |-> next, own |-> obsolete]
  BY DEF Selected
<1>2. PICK n \in Nat : n = Len(own) /\ DOMAIN own = 1 .. n /\ \A i \in 1 .. n : own[i] \in OwnSolution
  OBVIOUS
<1>3. \A i \in 1 .. n : own[i].publication \in Int
  BY <1>2 DEF OwnSolution
<1>4. ASSUME NEW P \in SUBSET (1 .. n), P # {} PROVE Min(P) \in P
  <2>1. IsFiniteSet(1 .. n)
    BY <1>2, FS_Interval
  <2>2. IsFiniteSet(P)
    BY <2>1, FS_Subset
  <2>3. P \subseteq Int
    OBVIOUS
  <2> QED
    BY <1>4, <2>2, <2>3, Extremes, Zenon
<1>5. again \in SUBSET (1 .. n) /\ afresh \in SUBSET (1 .. n)
  BY <1>2
<1>6. (a = n + 1 /\ again = {}) \/ (a \in again /\ a \in 1 .. n)
  <2>1. CASE again = {}
    <3>1. a = Len(own) + 1
      BY <2>1, Zenon
    <3>2. n = Len(own)
      BY <1>2
    <3> HIDE DEF a, again
    <3> QED
      BY <2>1, <3>1, <3>2, Zenon
  <2>2. CASE again # {}
    <3>1. Min(again) \in again
      BY <1>4, <1>5, <2>2, Zenon
    <3> QED
      BY <1>5, <2>2, <3>1
  <2> QED
    BY <2>1, <2>2
<1>7. next = n + 1 \/ next \in again \cup afresh
  <2>1. CASE a \in again /\ a \in 1 .. n
    <3>1. next = a
      BY <1>2, <2>1
    <3> QED
      BY <2>1, <3>1
  <2>2. CASE a = n + 1
    <3>1. ~(a <= Len(own))
      BY <1>2, <2>2
    <3>2. CASE afresh = {}
      <4>1. next = n + 1
        BY <1>2, <3>1, <3>2
      <4> QED
        BY <4>1
    <3>3. CASE afresh # {}
      <4>1. Min(afresh) \in afresh
        BY <1>4, <1>5, <3>3, Zenon
      <4>2. next = Min(afresh)
        BY <3>1, <3>3
      <4> QED
        BY <4>1, <4>2
    <3> QED
      BY <3>2, <3>3
  <2> QED
    BY <1>6, <2>1, <2>2
<1>8. \A i \in 1 .. n : due(i) \/ fresh(i) => own[i].publication >= 0 /\ own[i].publication <= miningTick
  BY <1>3 DEF New
<1>9. \A i \in 1 .. n : stale(i) => ~current(i) /\ (due(i) \/ fresh(i))
  OBVIOUS
<1>10. ASSUME NEW i \in 1 .. n
       PROVE  /\ obsolete[i] \in OwnSolution /\ obsolete[i].solution = own[i].solution
              /\ stale(i) => obsolete[i].publication = -2
              /\ ~stale(i) => obsolete[i] = own[i]
  <2>1. own[i] \in OwnSolution
    BY <1>2
  <2>2. PICK entry : entry = [own[i] EXCEPT !.publication = Obsolete]
    OBVIOUS
  <2>3. entry \in OwnSolution /\ entry.solution = own[i].solution /\ entry.publication = -2
    BY <2>1, <2>2 DEF OwnSolution, Obsolete
  <2>4. obsolete[i] = IF stale(i) THEN entry ELSE own[i]
    BY <1>2, <2>2
  <2> HIDE DEF obsolete, stale
  <2> HIDE <2>2
  <2> QED
    BY <2>1, <2>3, <2>4
<1>11. DOMAIN obsolete = 1 .. n
  BY <1>2
<1>12. obsolete = [i \in 1 .. n |-> obsolete[i]]
  BY <1>2
<1> HIDE DEF stale, obsolete
<1>13. obsolete \in [1 .. n -> OwnSolution]
  BY <1>10, <1>12
<1>14. obsolete \in Seq(OwnSolution) /\ Len(obsolete) = n
  BY <1>13
<1>15. ASSUME NEW i \in 1 .. n
       PROVE  \/ obsolete[i] = own[i]
              \/ /\ obsolete[i].solution = own[i].solution /\ obsolete[i].publication < 0
                 /\ own[i].publication >= 0 /\ own[i].publication <= miningTick
  <2>1. CASE stale(i)
    <3>1. obsolete[i].publication < 0
      BY <1>10, <2>1
    <3> QED
      BY <1>8, <1>9, <1>10, <2>1, <3>1, Zenon
  <2>2. CASE ~stale(i)
    BY <1>10, <2>2
  <2> QED
    BY <2>1, <2>2
<1>16. ASSUME ~(next > n)
       PROVE  /\ next \in 1 .. n /\ own[next].solution.miner = c /\ own[next].solution.seed = miningSeed
              /\ own[next].publication >= 0 /\ own[next].publication <= miningTick
              /\ obsolete[next] = own[next]
  <2> HIDE DEF next
  <2>1. next \in again \cup afresh
    BY <1>2, <1>7, <1>16
  <2>2. next \in 1 .. n /\ current(next) /\ (due(next) \/ fresh(next))
    BY <1>2, <2>1
  <2>3. obsolete[next] = own[next]
    BY <1>9, <1>10, <2>2, Zenon
  <2> QED
    BY <1>8, <2>2, <2>3
<1> HIDE DEF next
<1>17. PICK choice : /\ choice = [index |-> next, own |-> obsolete] /\ choice.index = next /\ choice.own = obsolete
  <2>1. PICK choice : choice = [index |-> next, own |-> obsolete]
    OBVIOUS
  <2> QED
    BY <2>1
<1>18. SelectedFrom(own, c, choice)
  BY <1>2, <1>11, <1>14, <1>15, <1>16, <1>17, Zenon DEF SelectedFrom
<1> QED
  BY <1>1, <1>17, <1>18

\* Within a cycle the remainder grows with the tick.
LEMMA CycleTicks ==
  ASSUME NEW t \in Nat, NEW u \in Nat, t < u, TickInCycle(t) + (u - t) < Cycle
  PROVE  TickInCycle(u) = TickInCycle(t) + (u - t)
<1>1. PICK n \in Nat \ {0} : n = Cycle
  BY MinerRankingAssumption DEF Cycle
<1>2. PICK q \in Int, r \in 0 .. n - 1 : r = (t % n) /\ t = n * q + r
  <2>1. t \in Int
    OBVIOUS
  <2>2. t \div n \in Int /\ (t % n) \in 0 .. n - 1 /\ t = n * (t \div n) + (t % n)
    BY <2>1, Divided
  <2> QED
    BY <2>2, Zenon
<1>3. TickInCycle(t) = r
  BY <1>1, <1>2 DEF TickInCycle
<1>4. PICK d \in Nat : d = u - t
  OBVIOUS
<1>5. r + d \in 0 .. n - 1 /\ u \in Int
  BY <1>1, <1>3, <1>4
<1>6. u = n * q + (r + d)
  <2>1. n * q \in Int
    OBVIOUS
  <2> QED
    BY <1>2, <1>4, <2>1
<1>7. u % n = r + d
  <2>1. PICK e \in 0 .. n - 1 : e = r + d
    BY <1>5
  <2>2. u = n * q + e /\ u \in Int
    BY <1>5, <1>6, <2>1
  <2>3. u \div n = q /\ u % n = e
    BY <2>2, Quotient, Zenon
  <2> QED
    BY <2>1, <2>3
<1> QED
  BY <1>1, <1>3, <1>4, <1>7 DEF TickInCycle

\* What the node publishes in time comes before the next reset of the seed.
LEMMA InTimeNoReset ==
  ASSUME miningTick \in Nat, InTime(miningTick), NEW u \in miningTick + 1 .. miningTick + PublicationOffset
  PROVE  TickInCycle(u) \notin {0, Internal + SeedMargin}
<1>1. /\ Internal \in Nat /\ External \in Nat /\ PublicationOffset \in Nat /\ SeedMargin \in Nat
      /\ SeedMargin <= External /\ Internal + External > 0
  BY MinerRankingAssumption
<1>2. Cycle \in Nat \ {0} /\ Internal + SeedMargin <= Cycle
  BY <1>1 DEF Cycle
<1>3. PICK r \in Nat : r = TickInCycle(miningTick)
  <2>1. \A n \in Nat \ {0} : (miningTick % n) \in 0 .. n - 1
    BY Divided
  <2> QED
    BY <1>2, <2>1 DEF TickInCycle
<1>4. r + PublicationOffset < Internal + SeedMargin
  BY <1>3 DEF InTime
<1>5. u \in Nat /\ miningTick < u /\ u - miningTick <= PublicationOffset /\ u - miningTick \in Nat
  BY <1>1
<1>6. r + (u - miningTick) < Cycle
  BY <1>1, <1>2, <1>4, <1>5
<1>7. TickInCycle(u) = r + (u - miningTick)
  BY <1>3, <1>5, <1>6, CycleTicks
<1> QED
  BY <1>1, <1>4, <1>5, <1>7

\* The transactions of own computors that are to come are planned, and their seed stays.
PlansKept(st) ==
  \A t \in DOMAIN st.txs : \A s \in st.txs[t] :
    t > miningTick /\ s.miner \in OwnComputor =>
      /\ s.seed = miningSeed
      /\ \A u \in miningTick + 1 .. t : TickInCycle(u) \notin {0, Internal + SeedMargin}
      /\ Planned(st.own, st.flags, s, t)

\* A computor that publishes a solution plans it for a tick of the same seed, once.
LEMMA PublishedKeeps ==
  ASSUME MiningTypeOK, NEW st, SoundWork(st), PlansKept(st), NEW c \in OwnComputor
  PROVE  SoundWork(Published(st, c)) /\ PlansKept(Published(st, c))
<1>1. PICK flags, own, list, best, future, deposit, txs :
        /\ st = [flags |-> flags, own |-> own, miners |-> list, competitors |-> best,
                 future |-> future, deposits |-> deposit, txs |-> txs]
        /\ flags \in SUBSET Solution /\ own \in Seq(OwnSolution) /\ list \in Seq(RankedMiner)
        /\ best \in [1 .. 2 * Rivals -> RankedMiner] /\ future \in [1 .. Seats -> MinerKey]
        /\ deposit \in [Solution -> Nat]
        /\ txs \in [0 .. LastMiningTick + PublicationOffset -> SUBSET Solution]
  BY DEF SoundWork, WorkState
<1>2. /\ st.flags = flags /\ st.own = own /\ st.miners = list /\ st.competitors = best
      /\ st.future = future /\ st.deposits = deposit /\ st.txs = txs
  BY <1>1
<1>3. /\ Len(list) <= MaxMiners /\ Ranked(list) /\ Chosen(list, best, future)
      /\ Earned(list, flags) /\ OwnKept(own, flags)
      /\ \A w \in Solution : w.miner \in OwnComputor => deposit[w] = 0
  BY <1>2, Zenon DEF SoundWork
<1>4. /\ miningTick \in Nat /\ LastMiningTick \in Nat /\ PublicationOffset \in Nat /\ miningTick <= LastMiningTick
  BY MinerRankingAssumption DEF MiningTypeOK
<1>5. PICK choice : choice = Selected(own, c) /\ SelectedFrom(own, c, choice)
  BY <1>1, <1>4, SelectedIs
<1>6. PICK chosen \in Seq(OwnSolution) :
        /\ chosen = choice.own /\ DOMAIN chosen = DOMAIN own /\ Len(chosen) = Len(own)
        /\ \A i \in DOMAIN own :
             \/ chosen[i] = own[i]
             \/ /\ chosen[i].solution = own[i].solution /\ chosen[i].publication < 0
                /\ own[i].publication >= 0 /\ own[i].publication <= miningTick
  BY <1>5, Zenon DEF SelectedFrom
<1>7. \A i \in DOMAIN own : own[i].publication \in Int
  <2>1. \A i \in DOMAIN own : own[i] \in OwnSolution
    BY <1>1
  <2> QED
    BY <2>1 DEF OwnSolution
<1>8. OwnKept(chosen, flags)
  <2>1. \A i \in DOMAIN own : chosen[i].solution = own[i].solution
    BY <1>6, Zenon
  <2>2. ASSUME NEW i \in DOMAIN chosen, chosen[i].solution \in flags PROVE chosen[i].publication < 0
    <3>1. i \in DOMAIN own /\ own[i].solution \in flags
      BY <1>6, <2>1, <2>2
    <3>2. own[i].publication < 0
      BY <1>3, <3>1, Zenon DEF OwnKept
    <3> QED
      BY <1>6, <3>1, <3>2
  <2>3. ASSUME NEW i \in DOMAIN chosen
        PROVE  /\ chosen[i].solution.miner \in OwnComputor /\ chosen[i].solution.good
               /\ chosen[i].solution.seed # 0
    <3>1. i \in DOMAIN own /\ chosen[i].solution = own[i].solution
      BY <1>6, <2>1
    <3> QED
      BY <1>3, <3>1, Zenon DEF OwnKept
  <2>4. ASSUME NEW i \in DOMAIN chosen, NEW j \in DOMAIN chosen, i # j PROVE chosen[i].solution # chosen[j].solution
    <3>1. /\ i \in DOMAIN own /\ chosen[i].solution = own[i].solution
          /\ j \in DOMAIN own /\ chosen[j].solution = own[j].solution
      BY <1>6, <2>1
    <3> QED
      BY <1>3, <2>4, <3>1, Zenon DEF OwnKept
  <2>5. ASSUME NEW s \in flags, s.miner \in OwnComputor PROVE \E i \in DOMAIN chosen : chosen[i].solution = s
    <3>1. PICK i \in DOMAIN own : own[i].solution = s
      BY <1>3, <2>5, Zenon DEF OwnKept
    <3> QED
      BY <1>6, <2>1, <3>1
  <2> QED
    BY <2>2, <2>3, <2>4, <2>5, Zenon DEF OwnKept
<1>9. ASSUME NEW s, NEW t, t > miningTick, Planned(own, flags, s, t)
      PROVE  \E i \in DOMAIN own : /\ own[i].solution = s /\ own[i].publication = t /\ chosen[i] = own[i]
  <2>1. PICK i \in DOMAIN own : own[i].solution = s /\ own[i].publication = t
    BY <1>9, Zenon DEF Planned
  <2>2. ~(own[i].publication <= miningTick)
    BY <1>4, <1>7, <1>9, <2>1
  <2> QED
    BY <1>6, <2>1, <2>2
<1>10. CASE choice.index > Len(own) \/ ~InTime(miningTick)
  <2>1. PICK new : new = [flags |-> flags, own |-> chosen, miners |-> list, competitors |-> best,
                          future |-> future, deposits |-> deposit, txs |-> txs]
    OBVIOUS
  <2>2. Published(st, c) = new
    <3>1. Published(st, c) = [st EXCEPT !.own = chosen]
      BY <1>2, <1>5, <1>6, <1>10 DEF Published
    <3> QED
      BY <1>1, <2>1, <3>1
  <2>3. /\ new.flags = flags /\ new.own = chosen /\ new.miners = list /\ new.competitors = best
        /\ new.future = future /\ new.deposits = deposit /\ new.txs = txs
    BY <2>1
  <2>4. new \in WorkState
    BY <1>1, <2>1 DEF WorkState
  <2>5. SoundWork(new)
    BY <1>3, <1>8, <2>3, <2>4, Zenon DEF SoundWork
  <2>6. ASSUME NEW t \in DOMAIN txs, NEW s \in txs[t], t > miningTick, s.miner \in OwnComputor
        PROVE  /\ s.seed = miningSeed
               /\ \A u \in miningTick + 1 .. t : TickInCycle(u) \notin {0, Internal + SeedMargin}
               /\ Planned(chosen, flags, s, t)
    <3>1. /\ s.seed = miningSeed
          /\ \A u \in miningTick + 1 .. t : TickInCycle(u) \notin {0, Internal + SeedMargin}
          /\ Planned(own, flags, s, t)
      BY <1>2, <2>6, Zenon DEF PlansKept
    <3>2. \E i \in DOMAIN own : /\ own[i].solution = s /\ own[i].publication = t /\ chosen[i] = own[i]
      BY <1>9, <2>6, <3>1
    <3>3. s \notin flags
      BY <3>1, Zenon DEF Planned
    <3>4. Planned(chosen, flags, s, t)
      BY <1>6, <3>2, <3>3 DEF Planned
    <3> QED
      BY <3>1, <3>4, Zenon
  <2>7. PlansKept(new)
    BY <2>3, <2>6, Zenon DEF PlansKept
  <2> QED
    BY <2>2, <2>5, <2>7, Zenon
<1>11. CASE ~(choice.index > Len(own)) /\ InTime(miningTick)
  <2>1. PICK k \in DOMAIN own :
          /\ k = choice.index /\ own[k].solution.miner = c /\ own[k].solution.seed = miningSeed
          /\ own[k].publication >= 0 /\ own[k].publication <= miningTick /\ chosen[k] = own[k]
    BY <1>5, <1>6, <1>11, Zenon DEF SelectedFrom
  <2>2. PICK tick \in 0 .. LastMiningTick + PublicationOffset : tick = miningTick + PublicationOffset
    BY <1>4
  <2>3. PICK w \in Solution : w = own[k].solution
    <3>1. own[k] \in OwnSolution
      BY <1>1
    <3> QED
      BY <3>1 DEF OwnSolution
  <2>4. PICK entry \in OwnSolution : entry = [chosen[k] EXCEPT !.publication = tick] /\ entry.solution = w
                                     /\ entry.publication = tick
    <3>1. chosen[k] \in OwnSolution /\ chosen[k].solution = w
      BY <1>6, <2>1, <2>3
    <3>2. PICK entry : entry = [chosen[k] EXCEPT !.publication = tick]
      OBVIOUS
    <3>3. tick \in Int
      OBVIOUS
    <3>4. entry \in OwnSolution /\ entry.solution = w /\ entry.publication = tick
      BY <3>1, <3>2, <3>3 DEF OwnSolution
    <3> QED
      BY <3>2, <3>4
  <2>5. PICK own2 : /\ own2 = [chosen EXCEPT ![k].publication = tick]
                    /\ own2 \in Seq(OwnSolution) /\ DOMAIN own2 = DOMAIN own
                    /\ own2[k] = entry /\ \A i \in DOMAIN own : i # k => own2[i] = chosen[i]
    <3>1. PICK own2 : own2 = [chosen EXCEPT ![k] = entry]
      OBVIOUS
    <3>2. own2 = [chosen EXCEPT ![k].publication = tick]
      BY <2>4, <3>1
    <3> HIDE <1>1
    <3>5. k \in DOMAIN chosen
      BY <1>6
    <3>3. own2 \in Seq(OwnSolution) /\ DOMAIN own2 = DOMAIN chosen
      BY <3>1, <3>5
    <3>4. own2[k] = entry /\ \A i \in DOMAIN own : i # k => own2[i] = chosen[i]
      BY <1>6, <3>1, <3>5
    <3> QED
      BY <1>6, <3>2, <3>3, <3>4
  <2>6. PICK txs2 : /\ txs2 = [txs EXCEPT ![tick] = @ \cup {w}]
                    /\ txs2 \in [0 .. LastMiningTick + PublicationOffset -> SUBSET Solution]
                    /\ txs2[tick] = txs[tick] \cup {w}
                    /\ \A t \in DOMAIN txs : t # tick => txs2[t] = txs[t]
    <3>1. txs \in [0 .. LastMiningTick + PublicationOffset -> SUBSET Solution]
      BY <1>1
    <3>2. PICK T \in SUBSET Solution : T = txs[tick] \cup {w}
      BY <3>1
    <3>3. PICK txs2 : txs2 = [txs EXCEPT ![tick] = T]
      OBVIOUS
    <3>4. /\ txs2 \in [0 .. LastMiningTick + PublicationOffset -> SUBSET Solution] /\ txs2[tick] = T
          /\ \A t \in DOMAIN txs : t # tick => txs2[t] = txs[t]
      BY <3>1, <3>3
    <3> QED
      BY <3>2, <3>3, <3>4
  <2>7. w.miner \in OwnComputor /\ w.seed = miningSeed /\ w \notin flags
    <3>1. w \notin flags
      <4>1. ~(own[k].publication < 0)
        BY <1>7, <2>1
      <4> QED
        BY <1>3, <2>3, <4>1, Zenon DEF OwnKept
    <3> QED
      BY <2>1, <2>3, <3>1
  <2>8. OwnKept(own2, flags)
    <3>1. \A i \in DOMAIN own : own2[i].solution = chosen[i].solution
      BY <2>1, <2>3, <2>4, <2>5
    <3>2. ASSUME NEW i \in DOMAIN own2, own2[i].solution \in flags PROVE own2[i].publication < 0
      <4>1. i \in DOMAIN chosen /\ i # k
        BY <1>6, <2>4, <2>5, <2>7, <3>2
      <4>2. own2[i] = chosen[i]
        BY <1>6, <2>5, <4>1
      <4> QED
        BY <1>8, <3>2, <4>1, <4>2, Zenon DEF OwnKept
    <3>3. ASSUME NEW i \in DOMAIN own2
          PROVE  /\ own2[i].solution.miner \in OwnComputor /\ own2[i].solution.good
                 /\ own2[i].solution.seed # 0
      <4>1. i \in DOMAIN chosen /\ chosen[i].solution = own2[i].solution
        BY <1>6, <2>5, <3>1
      <4> QED
        BY <1>8, <4>1, Zenon DEF OwnKept
    <3>4. ASSUME NEW i \in DOMAIN own2, NEW j \in DOMAIN own2, i # j PROVE own2[i].solution # own2[j].solution
      <4>1. /\ i \in DOMAIN chosen /\ chosen[i].solution = own2[i].solution
            /\ j \in DOMAIN chosen /\ chosen[j].solution = own2[j].solution
        BY <1>6, <2>5, <3>1
      <4> QED
        BY <1>8, <3>4, <4>1, Zenon DEF OwnKept
    <3>5. ASSUME NEW s \in flags, s.miner \in OwnComputor PROVE \E i \in DOMAIN own2 : own2[i].solution = s
      <4>1. PICK i \in DOMAIN chosen : chosen[i].solution = s
        BY <1>8, <3>5, Zenon DEF OwnKept
      <4> QED
        BY <1>6, <2>5, <3>1, <4>1
    <3> QED
      BY <3>2, <3>3, <3>4, <3>5, Zenon DEF OwnKept
  <2>9. PICK new : new = [flags |-> flags, own |-> own2, miners |-> list, competitors |-> best,
                          future |-> future, deposits |-> deposit, txs |-> txs2]
    OBVIOUS
  <2>10. Published(st, c) = new
    <3>1. chosen[k].solution = w
      BY <2>1, <2>3
    <3>2. Published(st, c) = [st EXCEPT !.own = own2, !.txs[tick] = @ \cup {w}]
      BY <1>2, <1>5, <1>6, <1>11, <2>1, <2>2, <2>5, <3>1 DEF Published
    <3>3. [st EXCEPT !.own = own2, !.txs[tick] = @ \cup {w}] = [st EXCEPT !.own = own2, !.txs = txs2]
      BY <1>2, <2>6
    <3>4. st = [flags |-> flags, own |-> own, miners |-> list, competitors |-> best,
                future |-> future, deposits |-> deposit, txs |-> txs]
      BY <1>1
    <3>5. [st EXCEPT !.own = own2, !.txs = txs2] = new
      <4> HIDE <2>5, <2>6
      <4>1. [st EXCEPT !.own = own2] =
              [flags |-> flags, own |-> own2, miners |-> list, competitors |-> best,
               future |-> future, deposits |-> deposit, txs |-> txs]
        BY <3>4
      <4>2. [st EXCEPT !.own = own2, !.txs = txs2] = [[st EXCEPT !.own = own2] EXCEPT !.txs = txs2]
        BY <3>4
      <4>3. PICK r : r = [flags |-> flags, own |-> own2, miners |-> list, competitors |-> best,
                          future |-> future, deposits |-> deposit, txs |-> txs]
        OBVIOUS
      <4>4. [r EXCEPT !.txs = txs2] = new
        BY <2>9, <4>3
      <4> QED
        BY <4>1, <4>2, <4>3, <4>4, Zenon
    <3> QED
      BY <3>2, <3>3, <3>5, Zenon
  <2>11. /\ new.flags = flags /\ new.own = own2 /\ new.miners = list /\ new.competitors = best
         /\ new.future = future /\ new.deposits = deposit /\ new.txs = txs2
    BY <2>9
  <2>12. new \in WorkState
    BY <1>1, <2>5, <2>6, <2>9 DEF WorkState
  <2>13. SoundWork(new)
    BY <1>3, <2>8, <2>11, <2>12, Zenon DEF SoundWork
  <2>14. ASSUME NEW t \in DOMAIN txs2, NEW s \in txs2[t], t > miningTick, s.miner \in OwnComputor
         PROVE  /\ s.seed = miningSeed
                /\ \A u \in miningTick + 1 .. t : TickInCycle(u) \notin {0, Internal + SeedMargin}
                /\ Planned(own2, flags, s, t)
    <3>1. t \in DOMAIN txs
      BY <1>1, <2>6
    <3>2. CASE s \in txs[t]
      <4>1. /\ s.seed = miningSeed
            /\ \A u \in miningTick + 1 .. t : TickInCycle(u) \notin {0, Internal + SeedMargin}
            /\ Planned(own, flags, s, t)
        BY <1>2, <2>14, <3>1, <3>2, Zenon DEF PlansKept
      <4>2. PICK i \in DOMAIN own : own[i].solution = s /\ own[i].publication = t /\ chosen[i] = own[i]
        BY <1>9, <2>14, <4>1
      <4>3. s \notin flags
        BY <4>1, Zenon DEF Planned
      <4>4. i # k
        BY <1>4, <1>7, <2>1, <2>14, <4>2
      <4>5. own2[i] = own[i]
        BY <2>5, <4>2, <4>4
      <4>6. Planned(own2, flags, s, t)
        BY <2>5, <4>2, <4>3, <4>5 DEF Planned
      <4> QED
        BY <4>1, <4>6, Zenon
    <3>3. CASE s \notin txs[t]
      <4>1. t = tick /\ s = w
        BY <2>6, <2>14, <3>1, <3>3
      <4>2. \A u \in miningTick + 1 .. t : TickInCycle(u) \notin {0, Internal + SeedMargin}
        BY <1>4, <1>11, <2>2, <4>1, InTimeNoReset
      <4>3. own2[k].solution = s /\ own2[k].publication = t /\ k \in DOMAIN own2
        BY <2>4, <2>5, <4>1
      <4>4. Planned(own2, flags, s, t)
        BY <2>7, <4>1, <4>3 DEF Planned
      <4> QED
        BY <2>7, <4>1, <4>2, <4>4, Zenon
    <3> QED
      BY <3>2, <3>3
  <2>15. PlansKept(new)
    BY <2>11, <2>14, Zenon DEF PlansKept
  <2> QED
    BY <2>10, <2>13, <2>15, Zenon
<1> QED
  BY <1>10, <1>11

\* One own computor after the other.
PublishedRule(g, st, turns, n) == IF n = 0 THEN st ELSE Published(g[n - 1], turns[n])
PublishedSteps(g, st, turns) == g = [n \in 0 .. Len(turns) |-> PublishedRule(g, st, turns, n)]

\* The recursion of AllPublished is well defined.
LEMMA AllPublishedExists ==
  ASSUME NEW st, NEW turns, Len(turns) \in Nat
  PROVE  \E g : PublishedSteps(g, st, turns)
<1> DEFINE N == Len(turns)
           Defined == {m \in 0 .. N : \E g : g = [n \in 0 .. m |-> PublishedRule(g, st, turns, n)]}
<1>1. N \in Nat
  OBVIOUS
<1> HIDE DEF N
<1>2. 0 \in Defined
  <2> DEFINE g == [n \in 0 .. 0 |-> st]
  <2>1. \A n \in 0 .. 0 : PublishedRule(g, st, turns, n) = st
    BY DEF PublishedRule
  <2>2. g = [n \in 0 .. 0 |-> PublishedRule(g, st, turns, n)]
    BY <2>1
  <2> HIDE DEF g
  <2> QED
    BY <1>1, <2>2
<1>3. ASSUME NEW m \in 1 .. N, m - 1 \in Defined PROVE m \in Defined
  <2>1. PICK g : g = [n \in 0 .. m - 1 |-> PublishedRule(g, st, turns, n)]
    BY <1>3
  <2>2. PICK h : h = [n \in 0 .. m |-> PublishedRule(g, st, turns, n)]
    OBVIOUS
  <2>3. m \in Nat /\ m \in 0 .. N
    BY <1>1
  <2>4. \A n \in 0 .. m - 1 : h[n] = g[n]
    <3>1. \A n \in 0 .. m - 1 : g[n] = PublishedRule(g, st, turns, n) /\ n \in 0 .. m
      BY <2>1, <2>3
    <3>2. \A n \in 0 .. m : h[n] = PublishedRule(g, st, turns, n)
      BY <2>2
    <3> QED
      BY <3>1, <3>2
  <2>5. \A n \in 0 .. m : PublishedRule(h, st, turns, n) = PublishedRule(g, st, turns, n)
    <3>1. \A n \in 0 .. m : n # 0 => n - 1 \in 0 .. m - 1
      BY <2>3
    <3>2. \A n \in 0 .. m : n # 0 => h[n - 1] = g[n - 1]
      BY <2>4, <3>1
    <3> QED
      BY <3>2 DEF PublishedRule
  <2>6. h = [n \in 0 .. m |-> PublishedRule(h, st, turns, n)]
    BY <2>2, <2>5
  <2> QED
    BY <2>3, <2>6
<1> HIDE DEF Defined
<1>4. N \in Defined
  <2>1. 0 .. N \subseteq Defined
    BY <1>1, <1>2, <1>3, BoundedInduction
  <2> QED
    BY <1>1, <2>1
<1> QED
  BY <1>4 DEF Defined, PublishedSteps, N

\* So do all own computors, in any order.
LEMMA NightEnds ==
  ASSUME MiningTypeOK, NEW turns, Len(turns) \in Nat, turns \in [1 .. Len(turns) -> OwnComputor],
         NEW st, SoundWork(st), PlansKept(st)
  PROVE  SoundWork(AllPublished(st, turns)) /\ PlansKept(AllPublished(st, turns))
<1> DEFINE g == CHOOSE f : PublishedSteps(f, st, turns)
<1>1. PublishedSteps(g, st, turns)
  BY AllPublishedExists
<1>2. AllPublished(st, turns) = g[Len(turns)]
  BY DEF AllPublished, PublishedSteps, PublishedRule
<1> HIDE DEF g
<1>3. PICK N \in Nat : N = Len(turns)
  OBVIOUS
<1>4. \A n \in 0 .. N : g[n] = PublishedRule(g, st, turns, n)
  BY <1>1, <1>3 DEF PublishedSteps
<1> DEFINE S == {n \in 0 .. N : SoundWork(g[n]) /\ PlansKept(g[n])}
<1>5. 0 \in S
  <2>1. g[0] = st
    BY <1>3, <1>4 DEF PublishedRule
  <2> QED
    BY <1>3, <2>1
<1>6. ASSUME NEW n \in 1 .. N, n - 1 \in S PROVE n \in S
  <2>1. g[n] = Published(g[n - 1], turns[n])
    BY <1>3, <1>4 DEF PublishedRule
  <2>2. SoundWork(g[n - 1]) /\ PlansKept(g[n - 1]) /\ turns[n] \in OwnComputor
    BY <1>3, <1>6
  <2>3. SoundWork(Published(g[n - 1], turns[n])) /\ PlansKept(Published(g[n - 1], turns[n]))
    BY <2>2, PublishedKeeps
  <2> QED
    BY <1>3, <2>1, <2>3
<1> HIDE DEF S
<1>7. 0 .. N \subseteq S
  BY <1>3, <1>5, <1>6, BoundedInduction
<1>8. N \in S
  BY <1>3, <1>7
<1> QED
  BY <1>2, <1>3, <1>8 DEF S

(***************************************************************************)
(* The steps                                                               *)
(***************************************************************************)

\* What a tick begins with.
Begun == [flags |-> solutionFlags, own |-> ownSolutions, miners |-> miners,
          competitors |-> competitors, future |-> futureComputors,
          deposits |-> deposits, txs |-> solutionTxs]

\* What the tick begins with.
LEMMA BegunSound ==
  ASSUME MiningInv
  PROVE  /\ SoundWork(Begun) /\ Begun.txs = solutionTxs
         /\ Begun.own = ownSolutions /\ Begun.flags = solutionFlags
<1>1. /\ Begun.flags = solutionFlags /\ Begun.own = ownSolutions /\ Begun.miners = miners
      /\ Begun.competitors = competitors /\ Begun.future = futureComputors
      /\ Begun.deposits = deposits /\ Begun.txs = solutionTxs
  BY DEF Begun
<1>2. MiningTypeOK
  BY Zenon DEF MiningInv
<1>3. Begun \in WorkState
  BY <1>2 DEF MiningTypeOK, WorkState, Begun
<1>4. Len(miners) <= MaxMiners
  BY <1>2, Zenon DEF MiningTypeOK
<1>5. /\ Ranked(miners) /\ Chosen(miners, competitors, futureComputors)
      /\ Earned(miners, solutionFlags) /\ OwnKept(ownSolutions, solutionFlags)
      /\ \A s \in Solution : s.miner \in OwnComputor => deposits[s] = 0
  BY Zenon DEF MiningInv, Chosen, NoDepositLost
<1> QED
  BY <1>1, <1>3, <1>4, <1>5, Zenon DEF SoundWork

\* The transactions of a tick in their order.
LEMMA OrderTyped ==
  ASSUME NEW S, IsFiniteSet(S), NEW order \in SetToSeqs(S)
  PROVE  /\ Len(order) \in Nat /\ order \in [1 .. Len(order) -> S]
         /\ \A i, j \in 1 .. Len(order) : i # j => order[i] # order[j]
<1>1. PICK n \in Nat : n = Cardinality(S)
  BY FS_CardinalityType
<1>2. order \in [1 .. n -> S] /\ \A i, j \in 1 .. n : i # j => order[i] # order[j]
  BY <1>1 DEF SetToSeqs
<1>3. order \in Seq(S) /\ Len(order) = n
  BY <1>2
<1> QED
  BY <1>1, <1>2, <1>3

\* A seed is a number.
LEMMA SeedTyped ==
  ASSUME NEW t \in Nat, NEW epoch \in {0, 1}
  PROVE  SeedOf(t, epoch) \in Nat
<1>1. PICK n \in Nat \ {0} : n = Internal + External
  BY MinerRankingAssumption
<1>2. (t \div n) \in Nat
  OBVIOUS
<1> QED
  BY <1>1, <1>2 DEF SeedOf

\* Within the typed state: the ranking after a tick, the plans after it, and the new seed.
LEMMA TickKeeps ==
  ASSUME MiningInv, ProcessMiningTick
  PROVE  MiningInv'
<1>1. /\ MiningTypeOK /\ OwnPlanned(ownSolutions, solutionFlags, solutionTxs, miningTick)
      /\ IsInjective(computors) /\ IndicesStable
  BY Zenon DEF MiningInv
<1>26. PICK included \in SUBSET solutionTxs[miningTick] :
        \E order \in SetToSeqs(included), turns \in SetToSeqs(OwnComputor) :
          LET after == AllPublished(AllProcessed(Begun, order), turns)
          IN /\ solutionFlags' = after.flags /\ ownSolutions' = after.own
             /\ miners' = after.miners /\ competitors' = after.competitors
             /\ futureComputors' = after.future /\ deposits' = after.deposits
             /\ solutionTxs' = [after.txs EXCEPT ![miningTick] = {}]
  BY Zenon DEF ProcessMiningTick, Begun
<1>2. PICK order \in SetToSeqs(included), turns \in SetToSeqs(OwnComputor) :
        LET after == AllPublished(AllProcessed(Begun, order), turns)
        IN /\ solutionFlags' = after.flags /\ ownSolutions' = after.own
           /\ miners' = after.miners /\ competitors' = after.competitors
           /\ futureComputors' = after.future /\ deposits' = after.deposits
           /\ solutionTxs' = [after.txs EXCEPT ![miningTick] = {}]
  BY <1>26, Zenon
<1>3. /\ miningTick < LastMiningTick /\ miningTick' = miningTick + 1
      /\ miningSeed' = NewSeed(miningTick + 1) /\ computors' = computors /\ reordered' = reordered
  BY DEF ProcessMiningTick
<1>4. /\ miningTick \in Nat /\ LastMiningTick \in Nat /\ PublicationOffset \in Nat
      /\ miningTick \in DOMAIN solutionTxs /\ DOMAIN solutionTxs = 0 .. LastMiningTick + PublicationOffset
      /\ solutionTxs[miningTick] \in SUBSET Solution
  BY <1>1, MinerRankingAssumption DEF MiningTypeOK
<1>5. /\ Len(order) \in Nat /\ order \in [1 .. Len(order) -> solutionTxs[miningTick]]
      /\ \A i, j \in 1 .. Len(order) : i # j => order[i] # order[j]
  <2>1. IsFiniteSet(included)
    BY <1>4, MinerRankingAssumption, FS_Subset
  <2>2. /\ Len(order) \in Nat /\ order \in [1 .. Len(order) -> included]
        /\ \A i, j \in 1 .. Len(order) : i # j => order[i] # order[j]
    BY <2>1, OrderTyped
  <2> QED
    BY <1>2, <2>2
<1>6. Len(turns) \in Nat /\ turns \in [1 .. Len(turns) -> OwnComputor]
  BY OrderTyped, MinerRankingAssumption
<1>7. DayAfter(Begun, order, 0)
  <2>1. ASSUME NEW t \in DOMAIN solutionTxs, NEW s \in solutionTxs[t], s.miner \in OwnComputor,
               t > miningTick \/ t = miningTick
        PROVE  Planned(ownSolutions, solutionFlags, s, t)
    <3>1. t >= miningTick
      BY <1>4, <2>1
    <3>2. s \notin solutionFlags /\ \E i \in DOMAIN ownSolutions : /\ ownSolutions[i].solution = s
                                                                   /\ ownSolutions[i].publication = t
      BY <1>1, <2>1, <3>1, Zenon DEF OwnPlanned
    <3> QED
      BY <3>2, Zenon DEF Planned
  <2> QED
    BY <2>1, BegunSound, Zenon DEF DayAfter
<1>8. PICK mid : mid = AllProcessed(Begun, order) /\ DayAfter(mid, order, Len(order))
  BY <1>1, <1>5, <1>7, DayEnds
<1>9. SoundWork(mid) /\ mid.txs = solutionTxs
  BY <1>8, Zenon DEF DayAfter
<1>10. PlansKept(mid)
  <2>1. ASSUME NEW t \in DOMAIN solutionTxs, NEW s \in solutionTxs[t], t > miningTick, s.miner \in OwnComputor
        PROVE  /\ s.seed = miningSeed
               /\ \A u \in miningTick + 1 .. t : TickInCycle(u) \notin {0, Internal + SeedMargin}
               /\ Planned(mid.own, mid.flags, s, t)
    <3>1. t >= miningTick
      BY <1>4, <2>1
    <3>2. /\ s.seed = miningSeed
          /\ \A u \in miningTick + 1 .. t : TickInCycle(u) \notin {0, Internal + SeedMargin}
      BY <1>1, <2>1, <3>1, Zenon DEF OwnPlanned
    <3>3. Planned(mid.own, mid.flags, s, t)
      BY <1>8, <2>1, Zenon DEF DayAfter
    <3> QED
      BY <3>2, <3>3, Zenon
  <2> QED
    BY <1>9, <2>1, Zenon DEF PlansKept
<1>11. PICK after : /\ after = AllPublished(mid, turns) /\ SoundWork(after) /\ PlansKept(after)
  BY <1>1, <1>6, <1>9, <1>10, NightEnds
<1>12. /\ solutionFlags' = after.flags /\ ownSolutions' = after.own
       /\ miners' = after.miners /\ competitors' = after.competitors
       /\ futureComputors' = after.future /\ deposits' = after.deposits
       /\ solutionTxs' = [after.txs EXCEPT ![miningTick] = {}]
  BY <1>2, <1>8, <1>11, Zenon
<1>13. /\ after \in WorkState /\ Len(after.miners) <= MaxMiners
       /\ Ranked(after.miners) /\ Chosen(after.miners, after.competitors, after.future)
       /\ Earned(after.miners, after.flags) /\ OwnKept(after.own, after.flags)
       /\ \A s \in Solution : s.miner \in OwnComputor => after.deposits[s] = 0
  BY <1>11, Zenon DEF SoundWork
<1>14. /\ after.txs \in [0 .. LastMiningTick + PublicationOffset -> SUBSET Solution]
       /\ after.flags \in SUBSET Solution /\ after.own \in Seq(OwnSolution) /\ after.miners \in Seq(RankedMiner)
       /\ after.competitors \in [1 .. 2 * Rivals -> RankedMiner] /\ after.future \in [1 .. Seats -> MinerKey]
       /\ after.deposits \in [Solution -> Nat]
  BY <1>13 DEF WorkState
<1>15. /\ solutionTxs' \in [0 .. LastMiningTick + PublicationOffset -> SUBSET Solution]
       /\ \A t \in DOMAIN solutionTxs' : t # miningTick => solutionTxs'[t] = after.txs[t]
       /\ DOMAIN solutionTxs' = DOMAIN after.txs
  BY <1>4, <1>12, <1>14
<1>16. miningSeed' \in Nat
  <2>1. miningSeed \in Nat
    BY <1>1 DEF MiningTypeOK
  <2>2. SeedOf(miningTick + 1, 0) \in Nat /\ SeedOf(miningTick + 1, 1) \in Nat
    <3>1. PICK t \in Nat : t = miningTick + 1
      BY <1>4
    <3>2. \A epoch \in {0, 1} : SeedOf(t, epoch) \in Nat
      BY SeedTyped, Zenon
    <3>3. SeedOf(t, 0) \in Nat /\ SeedOf(t, 1) \in Nat
      BY <3>2
    <3> QED
      BY <3>1, <3>3, Zenon
  <2> QED
    BY <1>3, <2>1, <2>2 DEF NewSeed
<1>17. MiningTypeOK'
  <2>1. miningTick' \in 0 .. LastMiningTick
    BY <1>3, <1>4
  <2>2. computors' \in [1 .. Seats -> MinerKey]
    BY <1>1, <1>3 DEF MiningTypeOK
  <2> QED
    BY <1>12, <1>13, <1>14, <1>15, <1>16, <2>1, <2>2 DEF MiningTypeOK
<1>18. Ranked(miners)'
  BY <1>3, <1>12, <1>13 DEF Ranked
<1>19. \/ futureComputors' = [i \in 1 .. Seats |-> Nobody]
       \/ SeatsWon(miners', competitors') /\ futureComputors' = Seated(miners', competitors')
  BY <1>12, <1>13, Zenon DEF Chosen
<1>20. Earned(miners', solutionFlags') /\ OwnKept(ownSolutions', solutionFlags')
  BY <1>12, <1>13, Zenon
<1>21. OwnPlanned(ownSolutions, solutionFlags, solutionTxs, miningTick)'
  <2>1. ASSUME NEW t \in DOMAIN solutionTxs', NEW s \in solutionTxs'[t], t >= miningTick', s.miner \in OwnComputor
        PROVE  /\ s \notin solutionFlags' /\ s.seed = miningSeed'
               /\ \A u \in miningTick' + 1 .. t : TickInCycle(u) \notin {0, Internal + SeedMargin}
               /\ \E i \in DOMAIN ownSolutions' : ownSolutions'[i].solution = s /\ ownSolutions'[i].publication = t
    <3>1. t \in Nat /\ t > miningTick /\ t # miningTick
      BY <1>3, <1>4, <1>14, <1>15, <2>1
    <3>2. t \in DOMAIN after.txs /\ s \in after.txs[t]
      BY <1>15, <2>1, <3>1
    <3>3. /\ s.seed = miningSeed
          /\ \A u \in miningTick + 1 .. t : TickInCycle(u) \notin {0, Internal + SeedMargin}
          /\ Planned(after.own, after.flags, s, t)
      BY <1>11, <2>1, <3>1, <3>2, Zenon DEF PlansKept
    <3>4. miningTick + 1 \in miningTick + 1 .. t
      BY <1>4, <3>1
    <3>5. TickInCycle(miningTick + 1) \notin {0, Internal + SeedMargin}
      BY <3>3, <3>4, Zenon
    <3>6. miningSeed' = miningSeed
      BY <1>3, <3>5 DEF NewSeed
    <3>7. \A u \in miningTick' + 1 .. t : u \in miningTick + 1 .. t
      BY <1>3, <1>4, <3>1
    <3>8. \A u \in miningTick' + 1 .. t : TickInCycle(u) \notin {0, Internal + SeedMargin}
      BY <3>3, <3>7, Zenon
    <3>9. s \notin after.flags /\ \E i \in DOMAIN after.own : after.own[i].solution = s /\ after.own[i].publication = t
      BY <3>3, Zenon DEF Planned
    <3> QED
      BY <1>12, <3>3, <3>6, <3>8, <3>9, Zenon
  <2> QED
    BY <2>1, Zenon DEF OwnPlanned, TickInCycle, Cycle
<1>22. NoDepositLost'
  BY <1>12, <1>13, Zenon DEF NoDepositLost
<1>23. IndicesStable' /\ IsInjective(computors)'
  BY <1>1, <1>3, Zenon DEF IndicesStable, IsInjective
<1>24. Earned(miners, solutionFlags)' /\ OwnKept(ownSolutions, solutionFlags)'
  BY <1>20 DEF Earned, OwnKept
<1>25. (\/ futureComputors = [i \in 1 .. Seats |-> Nobody]
        \/ SeatsWon(miners, competitors) /\ futureComputors = Seated(miners, competitors))'
  BY <1>19 DEF SeatsWon, Seated, Seats, Rivals, Points, Nobody
<1> QED
  BY <1>17, <1>18, <1>21, <1>22, <1>23, <1>24, <1>25, Zenon DEF MiningInv

(***************************************************************************)
(* The indices of the next epoch                                           *)
(***************************************************************************)

RankIn(S, i) == Cardinality({k \in S : k <= i})

\* Each rank in a set of numbers belongs to one of them.
RanksAre(S) ==
  /\ \A i \in S : RankIn(S, i) \in 1 .. Cardinality(S)
  /\ \A i, j \in S : i # j => RankIn(S, i) # RankIn(S, j)
  /\ \A r \in 1 .. Cardinality(S) : \E i \in S : RankIn(S, i) = r

\* The ranks of a finite set of numbers count it.
LEMMA Ranks ==
  ASSUME NEW n \in Nat, NEW S \in SUBSET (1 .. n)
  PROVE  RanksAre(S) /\ IsFiniteSet(S) /\ Cardinality(S) \in Nat
<1>1. IsFiniteSet(S) /\ Cardinality(S) \in Nat
  <2>1. IsFiniteSet(1 .. n)
    BY FS_Interval
  <2>2. IsFiniteSet(S)
    BY <2>1, FS_Subset
  <2> QED
    BY <2>2, FS_CardinalityType
<1> DEFINE upto(i) == {k \in S : k <= i}
<1>2. \A i \in S : upto(i) \in SUBSET S /\ i \in upto(i)
  OBVIOUS
<1>3. ASSUME NEW i \in S PROVE IsFiniteSet(upto(i)) /\ Cardinality(upto(i)) \in 1 .. Cardinality(S)
  <2>1. IsFiniteSet(upto(i)) /\ Cardinality(upto(i)) <= Cardinality(S)
    BY <1>1, <1>2, FS_Subset
  <2>2. Cardinality(upto(i)) \in Nat
    BY <2>1, FS_CardinalityType
  <2>3. Cardinality(upto(i)) # 0
    BY <1>2, <2>1, FS_EmptySet
  <2> QED
    BY <1>1, <2>1, <2>2, <2>3
<1>4. ASSUME NEW i \in S, NEW j \in S, i < j PROVE Cardinality(upto(i)) # Cardinality(upto(j))
  <2>1. upto(i) \in SUBSET upto(j) /\ j \in upto(j) /\ j \notin upto(i)
    <3>1. i \in Int /\ j \in Int /\ \A k \in S : k \in Int
      OBVIOUS
    <3>2. j \in upto(j) /\ j \notin upto(i)
      BY <1>4, <3>1
    <3>3. \A k \in S : k <= i => k <= j
      BY <1>4, <3>1
    <3>4. upto(i) \subseteq upto(j)
      BY <3>3
    <3> QED
      BY <3>2, <3>4
  <2>2. IsFiniteSet(upto(j))
    BY <1>3
  <2>3. Cardinality(upto(i)) = Cardinality(upto(j)) => upto(j) = upto(i)
    BY <2>1, <2>2, FS_Subset
  <2> QED
    BY <2>1, <2>3
<1>5. ASSUME NEW i \in S, NEW j \in S, i # j PROVE Cardinality(upto(i)) # Cardinality(upto(j))
  <2>1. i < j \/ j < i
    BY <1>5
  <2> QED
    BY <1>4, <2>1
<1>6. \A i \in S : RankIn(S, i) = Cardinality(upto(i))
  BY DEF RankIn
<1> HIDE DEF upto
<1> DEFINE f == [i \in S |-> Cardinality(upto(i))]
<1>7. f \in Injection(S, 1 .. Cardinality(S))
  <2>1. f \in [S -> 1 .. Cardinality(S)]
    BY <1>3
  <2>2. IsInjective(f)
    BY <1>5 DEF IsInjective
  <2> QED
    BY <2>1, <2>2 DEF Injection
<1> HIDE DEF f
<1>8. IsFiniteSet(1 .. Cardinality(S)) /\ Cardinality(1 .. Cardinality(S)) = Cardinality(S)
  BY <1>1, FS_Interval
<1>9. f \in Surjection(S, 1 .. Cardinality(S))
  BY <1>7, <1>8, FS_Injection
<1>10. ASSUME NEW r \in 1 .. Cardinality(S) PROVE \E i \in S : RankIn(S, i) = r
  <2>1. \E i \in S : f[i] = r
    BY <1>9 DEF Surjection
  <2> QED
    BY <1>6, <2>1 DEF f
<1> QED
  BY <1>1, <1>3, <1>5, <1>6, <1>10 DEF RanksAre

\* Who stays keeps the index, and the list is a permutation of the winners.
StableOrder(future, current, next) ==
  /\ next \in [1 .. Seats -> Range(future)]
  /\ \A i \in 1 .. Seats : current[i] \in Range(future) => next[i] = current[i]
  /\ \A i, j \in 1 .. Seats : next[i] = next[j] => i = j
  /\ Range(next) = Range(future)

\* A stable order is an order of the same computors in which who stays keeps its index.
LEMMA StableIs ==
  ASSUME NEW V, NEW future \in [1 .. Seats -> V], NEW current \in [1 .. Seats -> V],
         IsInjective(future), IsInjective(current)
  PROVE  StableOrder(future, current, Stable(future, current))
<1>1. PICK n \in Nat : n = Seats
  BY SeatNumbers
<1>2. /\ future \in [1 .. n -> V] /\ current \in [1 .. n -> V]
      /\ \A i, j \in 1 .. n : future[i] = future[j] => i = j
      /\ \A i, j \in 1 .. n : current[i] = current[j] => i = j
  BY <1>1 DEF IsInjective
<1>3. PICK kept \in SUBSET (1 .. n) : kept = {i \in 1 .. n : current[i] \in Range(future)}
  OBVIOUS
<1>4. PICK stay \in SUBSET (1 .. n) : stay = {j \in 1 .. n : future[j] \in Range(current)}
  OBVIOUS
<1>5. PICK new \in SUBSET (1 .. n) : new = (1 .. n) \ stay
  OBVIOUS
<1>6. PICK open \in SUBSET (1 .. n) : open = (1 .. n) \ kept
  OBVIOUS
<1>7. /\ \A v : v \in Range(future) <=> \E j \in 1 .. n : future[j] = v
      /\ \A v : v \in Range(current) <=> \E i \in 1 .. n : current[i] = v
  BY <1>2 DEF Range
<1>8. Cardinality(kept) = Cardinality(stay)
  <2>1. PICK to : to = [i \in kept |-> CHOOSE j \in 1 .. n : future[j] = current[i]]
    OBVIOUS
  <2>2. \A i \in kept : to[i] \in 1 .. n /\ future[to[i]] = current[i]
    <3>1. \A i \in kept : \E j \in 1 .. n : future[j] = current[i]
      BY <1>3, <1>7
    <3> QED
      BY <2>1, <3>1
  <2>3. \A i \in kept : to[i] \in stay
    BY <1>3, <1>4, <1>7, <2>2
  <2>4. \A i, j \in kept : to[i] = to[j] => i = j
    <3> SUFFICES ASSUME NEW i \in kept, NEW j \in kept, to[i] = to[j] PROVE i = j
      OBVIOUS
    <3>1. current[i] = current[j]
      BY <2>2
    <3> QED
      BY <1>2, <3>1
  <2>5. \A j \in stay : \E i \in kept : to[i] = j
    <3> SUFFICES ASSUME NEW j \in stay PROVE \E i \in kept : to[i] = j
      OBVIOUS
    <3>1. PICK i \in 1 .. n : current[i] = future[j]
      BY <1>4, <1>7
    <3>2. i \in kept
      BY <1>3, <1>7, <3>1
    <3>3. future[to[i]] = future[j] /\ to[i] \in 1 .. n
      BY <2>2, <3>1, <3>2
    <3> QED
      BY <1>2, <3>2, <3>3
  <2>6. to \in Bijection(kept, stay)
    <3>1. DOMAIN to = kept
      BY <2>1
    <3>2. to = [i \in kept |-> to[i]]
      BY <2>1
    <3> HIDE <2>1
    <3>3. to \in [kept -> stay]
      BY <2>3, <3>2
    <3> QED
      BY <2>4, <2>5, <3>1, <3>3 DEF Bijection, Injection, Surjection, IsInjective
  <2>7. ExistsBijection(kept, stay) /\ IsFiniteSet(kept)
    BY <1>1, <2>6, Ranks DEF ExistsBijection
  <2> QED
    BY <2>7, FS_Bijection
<1>9. Cardinality(new) = Cardinality(open)
  <2>1. IsFiniteSet(1 .. n)
    BY FS_Interval
  <2>2. (1 .. n) \cap stay = stay /\ (1 .. n) \cap kept = kept
    OBVIOUS
  <2>3. Cardinality((1 .. n) \ stay) = Cardinality(1 .. n) - Cardinality((1 .. n) \cap stay)
    BY <2>1, FS_Difference, Zenon
  <2>4. Cardinality((1 .. n) \ kept) = Cardinality(1 .. n) - Cardinality((1 .. n) \cap kept)
    BY <2>1, FS_Difference, Zenon
  <2> QED
    BY <1>5, <1>6, <1>8, <2>2, <2>3, <2>4, Zenon
<1>10. RanksAre(new) /\ RanksAre(open)
  BY Ranks
<1>11. PICK seat : seat = [i \in open |-> CHOOSE j \in new : RankIn(new, j) = RankIn(open, i)]
  OBVIOUS
<1>12. \A i \in open : seat[i] \in new /\ RankIn(new, seat[i]) = RankIn(open, i)
  <2>1. \A i \in open : RankIn(open, i) \in 1 .. Cardinality(new)
    BY <1>9, <1>10, Zenon DEF RanksAre
  <2>2. \A i \in open : \E j \in new : RankIn(new, j) = RankIn(open, i)
    BY <1>10, <2>1, Zenon DEF RanksAre
  <2> QED
    BY <1>11, <2>2
<1>13. \A i, j \in open : seat[i] = seat[j] => i = j
  <2> SUFFICES ASSUME NEW i \in open, NEW j \in open, seat[i] = seat[j] PROVE i = j
    OBVIOUS
  <2>1. RankIn(open, i) = RankIn(open, j)
    BY <1>12
  <2> QED
    BY <1>10, <2>1, Zenon DEF RanksAre
<1>14. \A j \in new : \E i \in open : seat[i] = j
  <2> SUFFICES ASSUME NEW j \in new PROVE \E i \in open : seat[i] = j
    OBVIOUS
  <2>1. RankIn(new, j) \in 1 .. Cardinality(open)
    BY <1>9, <1>10, Zenon DEF RanksAre
  <2>2. PICK i \in open : RankIn(open, i) = RankIn(new, j)
    BY <1>10, <2>1, Zenon DEF RanksAre
  <2>3. seat[i] \in new /\ RankIn(new, seat[i]) = RankIn(new, j)
    BY <1>12, <2>2
  <2> QED
    BY <1>10, <2>2, <2>3, Zenon DEF RanksAre
<1>15. PICK next : next = [i \in 1 .. n |-> IF i \in kept THEN current[i] ELSE future[seat[i]]]
  OBVIOUS
<1>16. Stable(future, current) = next
  <2>1. DOMAIN current = 1 .. n /\ DOMAIN future = 1 .. n
    BY <1>2
  <2>2. kept = {i \in DOMAIN current : current[i] \in Range(future)}
    BY <1>3, <2>1
  <2>3. new = {j \in DOMAIN future : future[j] \notin Range(current)}
    BY <1>4, <1>5, <2>1
  <2>4. open = DOMAIN current \ kept
    BY <1>6, <2>1
  <2>5. Stable(future, current) =
          [i \in DOMAIN current |->
             IF i \in kept THEN current[i]
             ELSE future[CHOOSE j \in new : RankIn(new, j) = RankIn(open, i)]]
    BY <2>2, <2>3, <2>4 DEF Stable, RankIn
  <2>6. \A i \in 1 .. n : i \notin kept => seat[i] = CHOOSE j \in new : RankIn(new, j) = RankIn(open, i)
    BY <1>6, <1>11
  <2> QED
    BY <1>15, <2>1, <2>5, <2>6
<1>17. \A i \in 1 .. n : /\ i \in kept => next[i] = current[i] /\ next[i] \in Range(future)
                         /\ i \notin kept => next[i] = future[seat[i]] /\ seat[i] \in new /\ i \in open
                                             /\ next[i] \in Range(future) /\ next[i] \notin Range(current)
  <2> SUFFICES ASSUME NEW i \in 1 .. n
               PROVE  /\ i \in kept => next[i] = current[i] /\ next[i] \in Range(future)
                      /\ i \notin kept => next[i] = future[seat[i]] /\ seat[i] \in new /\ i \in open
                                          /\ next[i] \in Range(future) /\ next[i] \notin Range(current)
    OBVIOUS
  <2>1. CASE i \in kept
    BY <1>3, <1>15, <2>1
  <2>2. CASE i \notin kept
    <3>1. i \in open /\ seat[i] \in new /\ next[i] = future[seat[i]]
      BY <1>6, <1>12, <1>15, <2>2
    <3>2. seat[i] \in 1 .. n /\ seat[i] \notin stay
      BY <1>5, <3>1
    <3>3. future[seat[i]] \in Range(future) /\ future[seat[i]] \notin Range(current)
      BY <1>4, <1>7, <3>2
    <3> QED
      BY <2>2, <3>1, <3>3
  <2> QED
    BY <2>1, <2>2
<1>18. next \in [1 .. n -> Range(future)] /\ DOMAIN next = 1 .. n
  BY <1>15, <1>17
<1>19. ASSUME NEW i \in 1 .. n, NEW j \in 1 .. n, next[i] = next[j] PROVE i = j
  <2>1. CASE i \in kept /\ j \in kept
    <3>1. current[i] = current[j]
      BY <1>17, <1>19, <2>1
    <3> QED
      BY <1>2, <3>1
  <2>2. CASE i \notin kept /\ j \notin kept
    <3>1. future[seat[i]] = future[seat[j]] /\ seat[i] \in new /\ seat[j] \in new /\ i \in open /\ j \in open
      BY <1>17, <1>19, <2>2
    <3>2. seat[i] = seat[j]
      BY <1>2, <3>1
    <3> QED
      BY <1>13, <3>1, <3>2
  <2>3. ASSUME NEW x \in 1 .. n, NEW y \in 1 .. n, x \in kept, y \notin kept, next[x] = next[y] PROVE FALSE
    <3>1. next[x] = current[x] /\ next[y] \notin Range(current)
      BY <1>17, <2>3
    <3>2. current[x] \in Range(current)
      BY <1>7
    <3> QED
      BY <2>3, <3>1, <3>2
  <2> QED
    BY <1>19, <2>1, <2>2, <2>3
<1>20. Range(next) = Range(future)
  <2>1. ASSUME NEW v \in Range(next) PROVE v \in Range(future)
    <3>1. PICK i \in 1 .. n : v = next[i]
      BY <1>18 DEF Range
    <3> QED
      BY <1>17, <3>1
  <2>2. ASSUME NEW v \in Range(future) PROVE v \in Range(next)
    <3>1. PICK j \in 1 .. n : future[j] = v
      BY <1>7
    <3>2. CASE v \in Range(current)
      <4>1. PICK i \in 1 .. n : current[i] = v
        BY <1>7, <3>2
      <4>2. i \in kept /\ next[i] = v
        BY <1>3, <1>17, <4>1
      <4> QED
        BY <1>18, <4>2 DEF Range
    <3>3. CASE v \notin Range(current)
      <4>1. j \in new
        BY <1>4, <1>5, <3>1, <3>3
      <4>2. PICK i \in open : seat[i] = j
        BY <1>14, <4>1
      <4>3. i \in 1 .. n /\ i \notin kept
        BY <1>6
      <4>4. next[i] = v
        BY <1>17, <3>1, <4>2, <4>3
      <4> QED
        BY <1>18, <4>3, <4>4 DEF Range
    <3> QED
      BY <3>2, <3>3
  <2> QED
    BY <2>1, <2>2
<1>21. \A i \in 1 .. n : current[i] \in Range(future) => next[i] = current[i]
  BY <1>3, <1>17
<1>22. StableOrder(future, current, next)
  BY <1>1, <1>18, <1>19, <1>20, <1>21, Zenon DEF StableOrder
<1> QED
  BY <1>16, <1>22

\* Nobody has two seats.
LEMMA SeatedOnce ==
  ASSUME NEW list \in Seq(RankedMiner), Ranked(list), NEW best, SeatsWon(list, best)
  PROVE  IsInjective(Seated(list, best))
<1>1. PICK n \in Nat : n = Len(list) /\ DOMAIN list = 1 .. n
  OBVIOUS
<1>2. Seats \in Nat /\ AlwaysKept \in 1 .. Seats /\ Seats <= n
        /\ \A i \in AlwaysKept + 1 .. Seats : i - AlwaysKept \in 1 .. Rivals
  BY <1>1, SeatNumbers DEF Ranked
<1>3. \A i, j \in 1 .. n : i # j => list[i].key # list[j].key
  <2> SUFFICES ASSUME NEW i \in 1 .. n, NEW j \in 1 .. n, i # j PROVE list[i].key # list[j].key
    OBVIOUS
  <2>1. i < j \/ j < i
    OBVIOUS
  <2> QED
    BY <1>1, <2>1 DEF Ranked
<1>4. PICK f : f = Seated(list, best)
  OBVIOUS
<1>5. /\ DOMAIN f = 1 .. Seats
      /\ \A i \in 1 .. Seats : /\ i <= AlwaysKept => f[i] = list[i].key
                               /\ ~(i <= AlwaysKept) => f[i] = best[i - AlwaysKept].key
  BY <1>4 DEF Seated
<1>6. ASSUME NEW i \in 1 .. Rivals PROVE \E p \in AlwaysKept + 1 .. n : best[i].key = list[p].key
  <2>1. PICK p \in AlwaysKept + 1 .. n : best[i] = Points(list[p].key, list[p].score, p <= Seats)
    BY <1>1 DEF SeatsWon
  <2> QED
    BY <2>1 DEF Points
<1>7. ASSUME NEW i \in 1 .. Seats, NEW j \in 1 .. Seats, i < j PROVE f[i] # f[j]
  <2>1. CASE j <= AlwaysKept
    <3>1. i <= AlwaysKept /\ i \in 1 .. n /\ j \in 1 .. n /\ i # j
      BY <1>2, <1>7, <2>1
    <3> QED
      BY <1>3, <1>5, <2>1, <3>1
  <2>2. CASE i <= AlwaysKept /\ ~(j <= AlwaysKept)
    <3>1. j - AlwaysKept \in 1 .. Rivals
      BY <1>2, <2>2
    <3>2. PICK p \in AlwaysKept + 1 .. n : best[j - AlwaysKept].key = list[p].key
      BY <1>6, <3>1
    <3>3. i # p /\ i \in 1 .. n /\ p \in 1 .. n
      BY <1>2, <2>2
    <3> QED
      BY <1>3, <1>5, <2>2, <3>2, <3>3
  <2>3. CASE ~(i <= AlwaysKept)
    <3>1. ~(j <= AlwaysKept) /\ i - AlwaysKept \in 1 .. Rivals /\ j - AlwaysKept \in 1 .. Rivals
          /\ i - AlwaysKept # j - AlwaysKept
      <4>1. AlwaysKept \in Int /\ Seats \in Int
        BY <1>2
      <4>2. i \in AlwaysKept + 1 .. Seats /\ j \in AlwaysKept + 1 .. Seats /\ ~(j <= AlwaysKept)
        BY <1>7, <2>3, <4>1
      <4>3. i - AlwaysKept # j - AlwaysKept
        BY <1>7, <4>1
      <4> QED
        BY <1>2, <4>2, <4>3
    <3>2. best[i - AlwaysKept].key # best[j - AlwaysKept].key
      BY <3>1, Zenon DEF SeatsWon
    <3> QED
      BY <1>5, <2>3, <3>1, <3>2
  <2> QED
    BY <2>1, <2>2, <2>3
<1>8. ASSUME NEW i \in 1 .. Seats, NEW j \in 1 .. Seats, f[i] = f[j] PROVE i = j
  <2>1. i < j \/ j < i \/ i = j
    OBVIOUS
  <2> QED
    BY <1>7, <1>8, <2>1
<1> QED
  BY <1>4, <1>5, <1>8 DEF IsInjective

\* An epoch ends and the next one begins with its computors.
LEMMA EndKeeps ==
  ASSUME MiningInv, EndMiningEpoch
  PROVE  MiningInv'
<1>1. MiningTypeOK /\ IsInjective(computors) /\ Ranked(miners)
  BY Zenon DEF MiningInv
<1>2. IsInjective(futureComputors)
  <2>1. futureComputors # [i \in 1 .. Seats |-> Nobody]
    <3>1. 1 \in 1 .. Seats
      BY SeatNumbers
    <3>2. futureComputors = [i \in 1 .. Seats |-> Nobody] => Nobody \in Range(futureComputors)
      BY <3>1 DEF Range
    <3> QED
      BY <3>2 DEF EndMiningEpoch
  <2>2. SeatsWon(miners, competitors) /\ futureComputors = Seated(miners, competitors)
    BY <2>1, Zenon DEF MiningInv
  <2>3. miners \in Seq(RankedMiner)
    BY <1>1 DEF MiningTypeOK
  <2> QED
    BY <1>1, <2>2, <2>3, SeatedOnce
<1>3. futureComputors \in [1 .. Seats -> MinerKey] /\ computors \in [1 .. Seats -> MinerKey]
  BY <1>1 DEF MiningTypeOK
<1>4. PICK next : next = Stable(futureComputors, computors) /\ StableOrder(futureComputors, computors, next)
  BY <1>1, <1>2, <1>3, StableIs
<1>5. PICK n \in Nat : n = Seats /\ n >= 1 /\ n <= MaxMiners
  <2>1. Seats <= MaxMiners
    BY MinerRankingAssumption DEF Seats
  <2>2. Seats \in Nat /\ Seats >= 1
    BY SeatNumbers
  <2> QED
    BY <2>1, <2>2
<1>6. /\ reordered' = [from |-> futureComputors, to |-> next, old |-> computors]
      /\ computors' = next
      /\ miners' = [i \in 1 .. n |-> Points(next[i], 0, TRUE)]
      /\ competitors' = [i \in 1 .. 2 * Rivals |-> Points(Nobody, 0, FALSE)]
      /\ futureComputors' = [i \in 1 .. Seats |-> Nobody]
      /\ solutionFlags' = {} /\ ownSolutions' = << >>
      /\ solutionTxs' = [t \in DOMAIN solutionTxs |-> {}]
      /\ deposits' = [s \in Solution |-> 0]
      /\ miningSeed' = (IF TickInCycle(miningTick) < Internal THEN SeedOf(miningTick, 1) ELSE 0)
      /\ miningTick' = miningTick
  BY <1>4, <1>5 DEF EndMiningEpoch
<1>7. /\ next \in [1 .. n -> Range(futureComputors)]
      /\ \A i \in 1 .. n : computors[i] \in Range(futureComputors) => next[i] = computors[i]
      /\ \A i, j \in 1 .. n : next[i] = next[j] => i = j
      /\ Range(next) = Range(futureComputors)
  BY <1>4, <1>5 DEF StableOrder
<1>8. next \in [1 .. n -> MinerKey]
  <2>1. Range(futureComputors) \subseteq MinerKey
    BY <1>3 DEF Range
  <2> QED
    BY <1>7, <2>1
<1>9. \A i \in 1 .. n : Points(next[i], 0, TRUE) \in RankedMiner
  BY <1>8 DEF Points, RankedMiner
<1>10. miners' \in Seq(RankedMiner) /\ Len(miners') = n /\ DOMAIN miners' = 1 .. n
  <2>1. miners' \in [1 .. n -> RankedMiner]
    BY <1>6, <1>9
  <2> HIDE <1>6
  <2> QED
    BY <2>1
<1>11. \A i \in 1 .. n : miners'[i].key = next[i] /\ miners'[i].score = 0
  BY <1>6 DEF Points
<1>12. MiningTypeOK'
  <2>1. Nobody \in MinerKey
    BY DEF MinerKey
  <2>2. competitors' \in [1 .. 2 * Rivals -> RankedMiner]
    <3>1. Points(Nobody, 0, FALSE) \in RankedMiner
      BY <2>1 DEF Points, RankedMiner
    <3> QED
      BY <1>6, <3>1
  <2>3. miningSeed' \in Nat
    <3>1. SeedOf(miningTick, 1) \in Nat
      <4>1. miningTick \in Nat
        BY <1>1, MinerRankingAssumption DEF MiningTypeOK
      <4> QED
        BY <4>1, SeedTyped
    <3> QED
      BY <1>6, <3>1
  <2>4. solutionTxs' \in [0 .. LastMiningTick + PublicationOffset -> SUBSET Solution]
    BY <1>1, <1>6 DEF MiningTypeOK
  <2>5. miningTick' \in 0 .. LastMiningTick
    BY <1>1, <1>6 DEF MiningTypeOK
  <2>6. futureComputors' \in [1 .. Seats -> MinerKey] /\ computors' \in [1 .. Seats -> MinerKey]
    BY <1>5, <1>6, <1>8, <2>1
  <2>7. ownSolutions' \in Seq(OwnSolution) /\ solutionFlags' \subseteq Solution /\ deposits' \in [Solution -> Nat]
    BY <1>6
  <2> QED
    BY <1>5, <1>10, <2>2, <2>3, <2>4, <2>5, <2>6, <2>7 DEF MiningTypeOK
<1>13. IsInjective(computors)'
  BY <1>6, <1>7 DEF IsInjective
<1>14. Ranked(miners)'
  <2>1. Len(miners') >= Seats
    BY <1>5, <1>10
  <2>2. \A i, j \in DOMAIN miners' : i < j => /\ miners'[i].key # miners'[j].key
                                              /\ miners'[i].score >= miners'[j].score
    <3> SUFFICES ASSUME NEW i \in 1 .. n, NEW j \in 1 .. n, i < j
                 PROVE  miners'[i].key # miners'[j].key /\ miners'[i].score >= miners'[j].score
      BY <1>10
    <3>1. next[i] # next[j]
      BY <1>7
    <3> QED
      BY <1>11, <3>1
  <2>3. {miners'[i].key : i \in 1 .. Seats} = Range(computors')
    <3>1. \A i \in 1 .. n : miners'[i].key = computors'[i]
      BY <1>6, <1>11
    <3>2. DOMAIN computors' = 1 .. n
      BY <1>6, <1>8
    <3> QED
      BY <1>5, <3>1, <3>2 DEF Range
  <2> QED
    BY <2>1, <2>2, <2>3 DEF Ranked
<1>15. Earned(miners, solutionFlags)'
  <2>1. \A i \in 1 .. n : Cardinality({s \in {} : s.miner = miners'[i].key /\ s.good}) = 0
    <3>1. \A i \in 1 .. n : {s \in {} : s.miner = miners'[i].key /\ s.good} = {}
      OBVIOUS
    <3> QED
      BY <3>1, FS_EmptySet
  <2>2. \A i \in 1 .. n : miners'[i].score <= Cardinality({s \in {} : s.miner = miners'[i].key /\ s.good})
    BY <1>11, <2>1
  <2> QED
    BY <1>6, <1>10, <2>2 DEF Earned
<1>16. OwnKept(ownSolutions, solutionFlags)'
  <2>1. DOMAIN ownSolutions' = {}
    BY <1>6
  <2> QED
    BY <1>6, <2>1 DEF OwnKept
<1>17. OwnPlanned(ownSolutions, solutionFlags, solutionTxs, miningTick)'
  <2>1. \A t \in DOMAIN solutionTxs' : solutionTxs'[t] = {}
    BY <1>6
  <2> QED
    BY <2>1 DEF OwnPlanned
<1>18. NoDepositLost'
  BY <1>6 DEF NoDepositLost
<1>19. IndicesStable'
  <2>1. /\ reordered'.to = next /\ reordered'.from = futureComputors /\ reordered'.old = computors
    BY <1>6
  <2>2. Cardinality(Range(next)) = Seats
    <3>1. \A i \in 1 .. n : next[i] \in Range(next)
      BY <1>7 DEF Range
    <3>2. \A x \in Range(next) : \E i \in 1 .. n : next[i] = x
      BY <1>7 DEF Range
    <3>3. PICK S : S = Range(next)
      OBVIOUS
    <3>4. Cardinality(S) = n
      BY <1>7, <3>1, <3>2, <3>3, ValuesCounted
    <3> QED
      BY <1>5, <3>3, <3>4
  <2>3. \A i \in DOMAIN computors : computors[i] \in Range(futureComputors) => next[i] = computors[i]
    BY <1>3, <1>5, <1>7
  <2> QED
    BY <1>7, <2>1, <2>2, <2>3 DEF IndicesStable
<1>20. futureComputors' = [i \in 1 .. Seats |-> Nobody]
  BY <1>6
<1>21. (\/ futureComputors = [i \in 1 .. Seats |-> Nobody]
        \/ SeatsWon(miners, competitors) /\ futureComputors = Seated(miners, competitors))'
  BY <1>20 DEF Seats, Nobody
<1> QED
  BY <1>12, <1>13, <1>14, <1>15, <1>16, <1>17, <1>18, <1>19, <1>21, Zenon DEF MiningInv

\* A solution comes in, or somebody else publishes one.
LEMMA ReceiveKeeps ==
  ASSUME MiningInv, NEW s \in Solution, ReceiveSolution(s)
  PROVE  MiningInv'
<1>1. /\ MiningTypeOK /\ OwnKept(ownSolutions, solutionFlags)
      /\ OwnPlanned(ownSolutions, solutionFlags, solutionTxs, miningTick)
  BY Zenon DEF MiningInv
<1>2. PICK entry \in OwnSolution : entry = [solution |-> s, publication |-> New] /\ entry.solution = s
                                   /\ entry.publication = 0
  <2>1. PICK entry : entry = [solution |-> s, publication |-> New]
    OBVIOUS
  <2>2. entry \in OwnSolution /\ entry.solution = s /\ entry.publication = 0
    BY <2>1 DEF OwnSolution, New
  <2> QED
    BY <2>1, <2>2
<1>3. /\ s.miner \in OwnComputor /\ s.good /\ s.seed # 0
      /\ OwnIndex(ownSolutions, s) = {}
      /\ ownSolutions' = Append(ownSolutions, entry)
      /\ miningTick' = miningTick /\ miningSeed' = miningSeed /\ computors' = computors
      /\ miners' = miners /\ competitors' = competitors /\ futureComputors' = futureComputors
      /\ solutionFlags' = solutionFlags /\ solutionTxs' = solutionTxs /\ deposits' = deposits
      /\ reordered' = reordered
  BY <1>2 DEF ReceiveSolution, Good
<1>4. PICK n \in Nat : n = Len(ownSolutions) /\ DOMAIN ownSolutions = 1 .. n /\ ownSolutions \in Seq(OwnSolution)
  BY <1>1 DEF MiningTypeOK
<1>5. PICK own : /\ own = ownSolutions' /\ own \in Seq(OwnSolution) /\ DOMAIN own = 1 .. n + 1
                 /\ \A i \in 1 .. n : own[i] = ownSolutions[i]
                 /\ own[n + 1] = entry
  BY <1>3, <1>4
<1>6. \A i \in 1 .. n : ownSolutions[i].solution # s
  BY <1>3, <1>4 DEF OwnIndex
<1>7. s \notin solutionFlags
  <2>1. s \in solutionFlags => \E i \in DOMAIN ownSolutions : ownSolutions[i].solution = s
    BY <1>1, <1>3, Zenon DEF OwnKept
  <2> QED
    BY <1>4, <1>6, <2>1
<1>8. OwnKept(own, solutionFlags)
  <2>1. ASSUME NEW i \in DOMAIN own, NEW j \in DOMAIN own, i # j PROVE own[i].solution # own[j].solution
    <3>1. CASE i \in 1 .. n /\ j \in 1 .. n
      <4>1. own[i] = ownSolutions[i] /\ own[j] = ownSolutions[j]
        BY <1>5, <3>1
      <4> QED
        BY <1>1, <1>4, <2>1, <3>1, <4>1, Zenon DEF OwnKept
    <3>2. CASE i = n + 1
      <4>1. j \in 1 .. n
        BY <1>5, <2>1, <3>2
      <4> QED
        BY <1>2, <1>5, <1>6, <3>2, <4>1
    <3>3. CASE j = n + 1
      <4>1. i \in 1 .. n
        BY <1>5, <2>1, <3>3
      <4> QED
        BY <1>2, <1>5, <1>6, <3>3, <4>1
    <3> QED
      BY <1>5, <3>1, <3>2, <3>3
  <2>2. ASSUME NEW i \in DOMAIN own
        PROVE  /\ own[i].solution.miner \in OwnComputor /\ own[i].solution.good /\ own[i].solution.seed # 0
               /\ own[i].solution \in solutionFlags => own[i].publication < 0
    <3>1. CASE i \in 1 .. n
      <4>1. own[i] = ownSolutions[i] /\ i \in DOMAIN ownSolutions
        BY <1>4, <1>5, <3>1
      <4> QED
        BY <1>1, <4>1, Zenon DEF OwnKept
    <3>2. CASE i = n + 1
      BY <1>2, <1>3, <1>5, <1>7, <3>2
    <3> QED
      BY <1>5, <3>1, <3>2
  <2>3. ASSUME NEW w \in solutionFlags, w.miner \in OwnComputor PROVE \E i \in DOMAIN own : own[i].solution = w
    <3>1. PICK i \in DOMAIN ownSolutions : ownSolutions[i].solution = w
      BY <1>1, <2>3, Zenon DEF OwnKept
    <3>2. i \in DOMAIN own /\ own[i] = ownSolutions[i]
      BY <1>4, <1>5
    <3> QED
      BY <3>1, <3>2
  <2> QED
    BY <2>1, <2>2, <2>3, Zenon DEF OwnKept
<1>9. \A w, t : (\E i \in DOMAIN ownSolutions : ownSolutions[i].solution = w /\ ownSolutions[i].publication = t)
                  => \E i \in DOMAIN own : own[i].solution = w /\ own[i].publication = t
  <2> SUFFICES ASSUME NEW w, NEW t, NEW i \in DOMAIN ownSolutions,
                      ownSolutions[i].solution = w, ownSolutions[i].publication = t
               PROVE  \E j \in DOMAIN own : own[j].solution = w /\ own[j].publication = t
    OBVIOUS
  <2>1. i \in DOMAIN own /\ own[i] = ownSolutions[i]
    BY <1>4, <1>5
  <2> QED
    BY <2>1
<1>10. OwnPlanned(own, solutionFlags, solutionTxs, miningTick)
  <2>1. ASSUME NEW t \in DOMAIN solutionTxs, NEW w \in solutionTxs[t], t >= miningTick, w.miner \in OwnComputor
        PROVE  /\ w \notin solutionFlags /\ w.seed = miningSeed
               /\ \A u \in miningTick + 1 .. t : TickInCycle(u) \notin {0, Internal + SeedMargin}
               /\ \E i \in DOMAIN own : own[i].solution = w /\ own[i].publication = t
    <3>1. /\ w \notin solutionFlags /\ w.seed = miningSeed
          /\ \A u \in miningTick + 1 .. t : TickInCycle(u) \notin {0, Internal + SeedMargin}
          /\ \E i \in DOMAIN ownSolutions : ownSolutions[i].solution = w /\ ownSolutions[i].publication = t
      BY <1>1, <2>1, Zenon DEF OwnPlanned
    <3>2. \E i \in DOMAIN own : own[i].solution = w /\ own[i].publication = t
      BY <1>9, <3>1, Zenon
    <3> QED
      BY <3>1, <3>2, Zenon
  <2> QED
    BY <2>1, Zenon DEF OwnPlanned
<1>11. MiningTypeOK'
  BY <1>1, <1>3, <1>5, Zenon DEF MiningTypeOK, MinerKey, RankedMiner, OwnSolution
<1>12. OwnKept(ownSolutions, solutionFlags)'
  BY <1>3, <1>5, <1>8 DEF OwnKept
<1>13. OwnPlanned(ownSolutions, solutionFlags, solutionTxs, miningTick)'
  BY <1>3, <1>5, <1>10 DEF OwnPlanned, TickInCycle, Cycle
<1> QED
  BY <1>3, <1>11, <1>12, <1>13 DEF MiningInv, Ranked, Earned, SeatsWon, NoDepositLost, IndicesStable

\* A solution of another node is one of a miner that this node does not run.
LEMMA OthersKeeps ==
  ASSUME MiningInv, NEW s \in Solution, OthersPublish(s)
  PROVE  MiningInv'
<1>1. MiningTypeOK /\ OwnPlanned(ownSolutions, solutionFlags, solutionTxs, miningTick)
  BY Zenon DEF MiningInv
<1>2. /\ s.miner \notin OwnComputor
      /\ solutionTxs' = [solutionTxs EXCEPT ![miningTick + 1] = @ \cup {s}]
      /\ miningTick' = miningTick /\ miningSeed' = miningSeed /\ computors' = computors
      /\ miners' = miners /\ competitors' = competitors /\ futureComputors' = futureComputors
      /\ solutionFlags' = solutionFlags /\ ownSolutions' = ownSolutions /\ deposits' = deposits
      /\ reordered' = reordered
  BY DEF OthersPublish
<1>3. solutionTxs \in [0 .. LastMiningTick + PublicationOffset -> SUBSET Solution]
  BY <1>1 DEF MiningTypeOK
<1>4. /\ solutionTxs' \in [0 .. LastMiningTick + PublicationOffset -> SUBSET Solution]
      /\ \A t \in DOMAIN solutionTxs' : t \in DOMAIN solutionTxs /\ solutionTxs'[t] \subseteq solutionTxs[t] \cup {s}
  BY <1>2, <1>3
<1>5. OwnPlanned(ownSolutions, solutionFlags, solutionTxs', miningTick)
  <2>1. ASSUME NEW t \in DOMAIN solutionTxs', NEW w \in solutionTxs'[t], t >= miningTick, w.miner \in OwnComputor
        PROVE  /\ w \notin solutionFlags /\ w.seed = miningSeed
               /\ \A u \in miningTick + 1 .. t : TickInCycle(u) \notin {0, Internal + SeedMargin}
               /\ \E i \in DOMAIN ownSolutions : ownSolutions[i].solution = w /\ ownSolutions[i].publication = t
    <3>1. t \in DOMAIN solutionTxs /\ w \in solutionTxs[t]
      BY <1>2, <1>4, <2>1
    <3> QED
      BY <1>1, <2>1, <3>1, Zenon DEF OwnPlanned
  <2> QED
    BY <2>1, Zenon DEF OwnPlanned
<1>6. MiningTypeOK'
  BY <1>1, <1>2, <1>4, Zenon DEF MiningTypeOK, MinerKey, RankedMiner, OwnSolution
<1>7. OwnPlanned(ownSolutions, solutionFlags, solutionTxs, miningTick)'
  BY <1>2, <1>5 DEF OwnPlanned, TickInCycle, Cycle
<1> QED
  BY <1>2, <1>6, <1>7 DEF MiningInv, Ranked, Earned, SeatsWon, NoDepositLost, IndicesStable, OwnKept

\* What a step of another part leaves alone.
LEMMA MiningStutters ==
  ASSUME MiningInv, UNCHANGED miningVars
  PROVE  MiningInv'
<1>1. /\ miningTick' = miningTick /\ miningSeed' = miningSeed /\ computors' = computors
      /\ miners' = miners /\ competitors' = competitors /\ futureComputors' = futureComputors
      /\ solutionFlags' = solutionFlags /\ ownSolutions' = ownSolutions /\ deposits' = deposits
      /\ solutionTxs' = solutionTxs /\ reordered' = reordered
  BY DEF miningVars
<1>2. MiningTypeOK'
  BY <1>1, Zenon DEF MiningInv, MiningTypeOK, MinerKey, RankedMiner, OwnSolution
<1>3. OwnPlanned(ownSolutions, solutionFlags, solutionTxs, miningTick)'
  <2>1. OwnPlanned(ownSolutions, solutionFlags, solutionTxs, miningTick)
    BY Zenon DEF MiningInv
  <2> QED
    BY <1>1, <2>1 DEF OwnPlanned, TickInCycle, Cycle
<1> QED
  BY <1>1, <1>2, <1>3 DEF MiningInv, Ranked, Earned, SeatsWon, NoDepositLost, IndicesStable, OwnKept

\* The first state.
LEMMA MiningStarts ==
  ASSUME MiningInit
  PROVE  MiningInv
<1>1. /\ miningTick = 0 /\ miningSeed = SeedOf(0, 0)
      /\ computors = FirstComputors
      /\ miners = [i \in 1 .. Seats |-> Points(FirstComputors[i], 0, TRUE)]
      /\ competitors = [i \in 1 .. 2 * Rivals |-> Points(Nobody, 0, FALSE)]
      /\ futureComputors = [i \in 1 .. Seats |-> Nobody]
      /\ solutionFlags = {} /\ ownSolutions = << >>
      /\ solutionTxs = [t \in 0 .. LastMiningTick + PublicationOffset |-> {}]
      /\ deposits = [s \in Solution |-> 0]
      /\ reordered = [from |-> << >>, to |-> << >>, old |-> << >>]
  BY DEF MiningInit
<1>2. PICK n \in Nat : n = Seats /\ n <= MaxMiners
  <2>1. Seats <= MaxMiners
    BY MinerRankingAssumption DEF Seats
  <2>2. Seats \in Nat
    BY SeatNumbers
  <2> QED
    BY <2>1, <2>2
<1>3. /\ FirstComputors \in [1 .. n -> Range(FirstComputors)]
      /\ \A i, j \in 1 .. n : i # j => FirstComputors[i] # FirstComputors[j]
      /\ Range(FirstComputors) \subseteq MinerKey
  <2>1. DOMAIN FirstComputors = 1 .. n
    BY <1>2, MinerRankingAssumption DEF Seats
  <2>2. FirstComputors \in [1 .. n -> Range(FirstComputors)]
    BY <1>2, MinerRankingAssumption DEF Seats
  <2>3. \A i, j \in 1 .. n : i # j => FirstComputors[i] # FirstComputors[j]
    BY <2>1, MinerRankingAssumption DEF IsInjective
  <2> QED
    BY <2>2, <2>3 DEF MinerKey
<1>4. \A i \in 1 .. n : Points(FirstComputors[i], 0, TRUE) \in RankedMiner
  BY <1>3 DEF Points, RankedMiner
<1>5. miners \in Seq(RankedMiner) /\ Len(miners) = n /\ DOMAIN miners = 1 .. n
  <2>1. miners \in [1 .. n -> RankedMiner]
    BY <1>1, <1>2, <1>4
  <2> HIDE <1>1
  <2> QED
    BY <2>1
<1>6. \A i \in 1 .. n : miners[i].key = FirstComputors[i] /\ miners[i].score = 0
  BY <1>1, <1>2 DEF Points
<1>7. MiningTypeOK
  <2>1. Nobody \in MinerKey
    BY DEF MinerKey
  <2>2. competitors \in [1 .. 2 * Rivals -> RankedMiner]
    <3>1. Points(Nobody, 0, FALSE) \in RankedMiner
      BY <2>1 DEF Points, RankedMiner
    <3> QED
      BY <1>1, <3>1
  <2>3. miningSeed \in Nat
    BY <1>1, SeedTyped
  <2>4. solutionTxs \in [0 .. LastMiningTick + PublicationOffset -> SUBSET Solution]
    BY <1>1
  <2>5. miningTick \in 0 .. LastMiningTick
    BY <1>1, MinerRankingAssumption
  <2>6. futureComputors \in [1 .. Seats -> MinerKey] /\ computors \in [1 .. Seats -> MinerKey]
    BY <1>1, <1>2, <1>3, <2>1
  <2>7. ownSolutions \in Seq(OwnSolution) /\ solutionFlags \subseteq Solution /\ deposits \in [Solution -> Nat]
    BY <1>1
  <2> QED
    BY <1>2, <1>5, <2>2, <2>3, <2>4, <2>5, <2>6, <2>7 DEF MiningTypeOK
<1>8. IsInjective(computors)
  BY <1>1, MinerRankingAssumption
<1>9. Ranked(miners)
  <2>1. Len(miners) >= Seats
    BY <1>2, <1>5
  <2>2. \A i, j \in DOMAIN miners : i < j => /\ miners[i].key # miners[j].key
                                             /\ miners[i].score >= miners[j].score
    <3> SUFFICES ASSUME NEW i \in 1 .. n, NEW j \in 1 .. n, i < j
                 PROVE  miners[i].key # miners[j].key /\ miners[i].score >= miners[j].score
      BY <1>5
    <3> QED
      BY <1>3, <1>6
  <2>3. {miners[i].key : i \in 1 .. Seats} = Range(computors)
    <3>1. \A i \in 1 .. n : miners[i].key = computors[i]
      BY <1>1, <1>6
    <3>2. DOMAIN computors = 1 .. n
      BY <1>1, <1>3
    <3> QED
      BY <1>2, <3>1, <3>2 DEF Range
  <2> QED
    BY <2>1, <2>2, <2>3 DEF Ranked
<1>10. Earned(miners, solutionFlags)
  <2>1. \A i \in 1 .. n : Cardinality({s \in {} : s.miner = miners[i].key /\ s.good}) = 0
    <3>1. \A i \in 1 .. n : {s \in {} : s.miner = miners[i].key /\ s.good} = {}
      OBVIOUS
    <3> QED
      BY <3>1, FS_EmptySet
  <2>2. \A i \in 1 .. n : miners[i].score <= Cardinality({s \in {} : s.miner = miners[i].key /\ s.good})
    BY <1>6, <2>1
  <2> QED
    BY <1>1, <1>5, <2>2 DEF Earned
<1>11. OwnKept(ownSolutions, solutionFlags)
  <2>1. DOMAIN ownSolutions = {}
    BY <1>1
  <2> QED
    BY <1>1, <2>1 DEF OwnKept
<1>12. OwnPlanned(ownSolutions, solutionFlags, solutionTxs, miningTick)
  <2>1. \A t \in DOMAIN solutionTxs : solutionTxs[t] = {}
    BY <1>1
  <2> QED
    BY <2>1 DEF OwnPlanned
<1>13. NoDepositLost /\ IndicesStable
  BY <1>1 DEF NoDepositLost, IndicesStable
<1> QED
  BY <1>1, <1>7, <1>8, <1>9, <1>10, <1>11, <1>12, <1>13, Zenon DEF MiningInv

(***************************************************************************)
(* What the miners and the computors rely on                               *)
(***************************************************************************)

\* The points of who is ranked once.
LEMMA ScoreIs ==
  ASSUME miners \in Seq(RankedMiner), Ranked(miners), NEW i \in 1 .. Len(miners)
  PROVE  ScoreOf(miners[i].key) = miners[i].score
<1> DEFINE at == {j \in DOMAIN miners : miners[j].key = miners[i].key}
<1>1. DOMAIN miners = 1 .. Len(miners) /\ Len(miners) \in Nat
  OBVIOUS
<1>2. \A j \in 1 .. Len(miners) : j # i => miners[j].key # miners[i].key
  <2> SUFFICES ASSUME NEW j \in 1 .. Len(miners), j # i PROVE miners[j].key # miners[i].key
    OBVIOUS
  <2>1. i < j \/ j < i
    OBVIOUS
  <2> QED
    BY <1>1, <2>1 DEF Ranked
<1>3. at = {i}
  BY <1>1, <1>2
<1>4. Min(at) = i /\ at # {}
  <2>1. i \in Int
    OBVIOUS
  <2>2. Min({i}) = i
    BY <2>1, LeastOfOne
  <2> QED
    BY <1>3, <2>2
<1>5. ScoreOf(miners[i].key) = IF at = {} THEN 0 ELSE miners[Min(at)].score
  BY DEF ScoreOf
<1> HIDE DEF at
<1> QED
  BY <1>4, <1>5

\* The seats go to the best.
LEMMA BestSeated ==
  ASSUME MiningInv
  PROVE  BestAreSeated
<1> SUFFICES ASSUME Nobody \notin Range(futureComputors)
             PROVE  /\ Cardinality(Range(futureComputors)) = Seats
                    /\ Cardinality(Range(futureComputors) \cap Range(computors)) >= AlwaysKept
                    /\ \A i \in DOMAIN miners : miners[i].key \notin Range(futureComputors) =>
                         \A j \in AlwaysKept + 1 .. Seats : ScoreOf(futureComputors[j]) >= miners[i].score
                    /\ \A c \in Range(computors) \ Range(futureComputors) :
                         \A d \in Range(futureComputors) \ Range(computors) : ScoreOf(d) > ScoreOf(c)
  BY DEF BestAreSeated
<1>1. /\ Ranked(miners) /\ miners \in Seq(RankedMiner)
      /\ computors \in [1 .. Seats -> MinerKey] /\ futureComputors \in [1 .. Seats -> MinerKey]
  <2>1. MiningTypeOK /\ Ranked(miners)
    BY Zenon DEF MiningInv
  <2> QED
    BY <2>1, Zenon DEF MiningTypeOK
<1>2. PICK n \in Nat, K \in Nat, m \in Nat :
        /\ n = Seats /\ K = AlwaysKept /\ K >= 1 /\ K <= n /\ m = Len(miners) /\ n <= m /\ Rivals = n - K
        /\ DOMAIN miners = 1 .. m
  <2>1. Len(miners) \in Nat /\ DOMAIN miners = 1 .. Len(miners) /\ Len(miners) >= Seats
    BY <1>1 DEF Ranked
  <2>2. /\ Seats \in Nat /\ AlwaysKept \in Nat /\ AlwaysKept >= 1 /\ AlwaysKept <= Seats
        /\ Rivals = Seats - AlwaysKept
    BY SeatNumbers
  <2> QED
    BY <2>1, <2>2
<1>3. SeatsWon(miners, competitors) /\ futureComputors = Seated(miners, competitors)
  <2>1. futureComputors # [i \in 1 .. Seats |-> Nobody]
    <3>1. 1 \in 1 .. Seats
      BY SeatNumbers
    <3>2. futureComputors = [i \in 1 .. Seats |-> Nobody] => Nobody \in Range(futureComputors)
      BY <3>1 DEF Range
    <3> QED
      BY <3>2
  <2> QED
    BY <2>1, Zenon DEF MiningInv
<1>4. /\ DOMAIN futureComputors = 1 .. n /\ DOMAIN computors = 1 .. n
      /\ \A i \in 1 .. n : /\ i <= K => futureComputors[i] = miners[i].key
                           /\ ~(i <= K) => futureComputors[i] = competitors[i - K].key
  <2>1. DOMAIN futureComputors = 1 .. n /\ DOMAIN computors = 1 .. n
    BY <1>1, <1>2
  <2> QED
    BY <1>2, <1>3, <2>1 DEF Seated
<1>5. \A v : v \in Range(futureComputors) <=> \E i \in 1 .. n : futureComputors[i] = v
  BY <1>4 DEF Range
<1>6. \A i \in 1 .. m : /\ miners[i].score \in Nat /\ ScoreOf(miners[i].key) = miners[i].score
  <2> SUFFICES ASSUME NEW i \in 1 .. m
               PROVE  miners[i].score \in Nat /\ ScoreOf(miners[i].key) = miners[i].score
    OBVIOUS
  <2>1. miners[i] \in RankedMiner /\ i \in 1 .. Len(miners)
    BY <1>1, <1>2
  <2>2. ScoreOf(miners[i].key) = miners[i].score
    BY <1>1, <2>1, ScoreIs
  <2> QED
    BY <2>1, <2>2 DEF RankedMiner
<1>7. ASSUME NEW j \in K + 1 .. n
      PROVE  \E p \in K + 1 .. m : /\ futureComputors[j] = miners[p].key
                                   /\ competitors[j - K] = Points(miners[p].key, miners[p].score, p <= n)
                                   /\ competitors[j - K].score = ScoreOf(futureComputors[j])
  <2>1. j - K \in 1 .. Rivals /\ j \in 1 .. n /\ ~(j <= K)
    BY <1>2
  <2>2. PICK p \in K + 1 .. m : competitors[j - K] = Points(miners[p].key, miners[p].score, p <= n)
    BY <1>2, <1>3, <2>1 DEF SeatsWon
  <2>3. competitors[j - K].key = miners[p].key /\ competitors[j - K].score = miners[p].score
    BY <2>2 DEF Points
  <2>4. futureComputors[j] = miners[p].key
    BY <1>4, <2>1, <2>3
  <2>5. p \in 1 .. m
    BY <1>2
  <2>6. ScoreOf(futureComputors[j]) = miners[p].score
    BY <1>6, <2>4, <2>5
  <2> QED
    BY <2>2, <2>3, <2>4, <2>6
<1>8. Cardinality(Range(futureComputors)) = Seats
  <2>1. IsInjective(futureComputors)
    BY <1>1, <1>3, SeatedOnce
  <2>2. PICK S : S = Range(futureComputors)
    OBVIOUS
  <2>3. \A i, j \in 1 .. n : futureComputors[i] = futureComputors[j] => i = j
    BY <1>4, <2>1 DEF IsInjective
  <2>4. /\ \A i \in 1 .. n : futureComputors[i] \in S
        /\ \A x \in S : \E i \in 1 .. n : futureComputors[i] = x
    BY <1>5, <2>2
  <2>5. Cardinality(S) = n
    BY <2>3, <2>4, ValuesCounted
  <2> QED
    BY <1>2, <2>2, <2>5
<1>9. {miners[i].key : i \in 1 .. n} = Range(computors)
  BY <1>1, <1>2 DEF Ranked
<1>10. \A i, j \in 1 .. m : i # j => miners[i].key # miners[j].key
  <2> SUFFICES ASSUME NEW i \in 1 .. m, NEW j \in 1 .. m, i # j PROVE miners[i].key # miners[j].key
    OBVIOUS
  <2>1. i < j \/ j < i
    OBVIOUS
  <2> QED
    BY <1>1, <1>2, <2>1 DEF Ranked
<1>11. Cardinality(Range(futureComputors) \cap Range(computors)) >= AlwaysKept
  <2>1. PICK S : S = {miners[i].key : i \in 1 .. K}
    OBVIOUS
  <2>2. PICK f : f = [i \in 1 .. K |-> miners[i].key]
    OBVIOUS
  <2>3. /\ \A i \in 1 .. K : f[i] \in S
        /\ \A x \in S : \E i \in 1 .. K : f[i] = x
    BY <2>1, <2>2
  <2>4. \A i, j \in 1 .. K : f[i] = f[j] => i = j
    <3>1. \A i \in 1 .. K : i \in 1 .. m /\ f[i] = miners[i].key
      BY <1>2, <2>2
    <3> QED
      BY <1>10, <3>1
  <2>5. Cardinality(S) = K
    BY <2>3, <2>4, ValuesCounted
  <2>6. PICK both : both = Range(futureComputors) \cap Range(computors)
    OBVIOUS
  <2>7. S \in SUBSET both
    <3>1. ASSUME NEW i \in 1 .. K PROVE miners[i].key \in both
      <4>1. i \in 1 .. n /\ i <= K
        BY <1>2
      <4>2. miners[i].key \in Range(computors)
        BY <1>9, <4>1
      <4>3. miners[i].key \in Range(futureComputors)
        BY <1>4, <1>5, <4>1
      <4> QED
        BY <2>6, <4>2, <4>3
    <3> QED
      BY <2>1, <3>1
  <2>8. IsFiniteSet(both)
    <3>1. IsFiniteSet(1 .. n)
      BY FS_Interval
    <3>2. PICK R : R = Range(computors)
      OBVIOUS
    <3>3. computors \in Surjection(1 .. n, R)
      BY <1>1, <1>2, <3>2 DEF Surjection, Range
    <3>4. IsFiniteSet(R)
      BY <3>1, <3>3, FS_Surjection
    <3>5. both \in SUBSET R
      BY <2>6, <3>2
    <3> QED
      BY <3>4, <3>5, FS_Subset
  <2>9. Cardinality(S) <= Cardinality(both) /\ Cardinality(both) \in Nat
    BY <2>7, <2>8, FS_Subset, FS_CardinalityType
  <2> QED
    BY <1>2, <2>5, <2>6, <2>9
<1>12. ASSUME NEW i \in 1 .. m, miners[i].key \notin Range(futureComputors)
       PROVE  /\ i \in K + 1 .. m
              /\ \A j \in 1 .. Rivals : competitors[j].key # miners[i].key
  <2>1. ~(i <= K)
    <3>1. i <= K => i \in 1 .. n
      BY <1>2
    <3> QED
      BY <1>4, <1>5, <1>12, <3>1
  <2>2. i \in K + 1 .. m
    BY <1>2, <2>1
  <2>3. ASSUME NEW j \in 1 .. Rivals PROVE competitors[j].key # miners[i].key
    <3>1. K + j \in 1 .. n /\ ~(K + j <= K) /\ (K + j) - K = j
      BY <1>2
    <3>2. futureComputors[K + j] = competitors[j].key
      BY <1>4, <3>1
    <3> QED
      BY <1>5, <1>12, <3>1, <3>2
  <2> QED
    BY <2>2, <2>3
<1>13. ASSUME NEW i \in 1 .. m, miners[i].key \notin Range(futureComputors), NEW j \in K + 1 .. n
       PROVE  /\ competitors[j - K].score >= miners[i].score
              /\ i <= n /\ ~competitors[j - K].seated => competitors[j - K].score > miners[i].score
  <2>1. i \in AlwaysKept + 1 .. Len(miners) /\ \A x \in 1 .. Rivals : competitors[x].key # miners[i].key
    BY <1>2, <1>12, <1>13
  <2>2. j - K \in 1 .. Rivals
    BY <1>2
  <2>3. /\ competitors[j - K].score >= miners[i].score
        /\ i <= Seats /\ ~competitors[j - K].seated => competitors[j - K].score > miners[i].score
    BY <1>3, <2>1, <2>2, Zenon DEF SeatsWon
  <2> QED
    BY <1>2, <2>3
<1>14. ASSUME NEW i \in DOMAIN miners, miners[i].key \notin Range(futureComputors),
              NEW j \in AlwaysKept + 1 .. Seats
       PROVE  ScoreOf(futureComputors[j]) >= miners[i].score
  <2>1. i \in 1 .. m /\ j \in K + 1 .. n
    BY <1>2
  <2>2. competitors[j - K].score >= miners[i].score
    BY <1>13, <1>14, <2>1
  <2>3. competitors[j - K].score = ScoreOf(futureComputors[j])
    BY <1>7, <2>1
  <2> QED
    BY <2>2, <2>3
<1>15. ASSUME NEW c \in Range(computors) \ Range(futureComputors),
              NEW d \in Range(futureComputors) \ Range(computors)
       PROVE  ScoreOf(d) > ScoreOf(c)
  <2>1. PICK i \in 1 .. n : c = miners[i].key
    BY <1>9
  <2>2. i \in 1 .. m /\ i <= n
    BY <1>2
  <2>3. PICK j \in 1 .. n : d = futureComputors[j]
    BY <1>5
  <2>4. ~(j <= K)
    <3>1. j <= K => d = miners[j].key
      BY <1>4, <2>3
    <3>2. j <= K => d \in Range(computors)
      BY <1>9, <3>1
    <3> QED
      BY <3>2
  <2>5. j \in K + 1 .. n
    BY <1>2, <2>4
  <2>6. PICK p \in K + 1 .. m : /\ futureComputors[j] = miners[p].key
                                /\ competitors[j - K] = Points(miners[p].key, miners[p].score, p <= n)
                                /\ competitors[j - K].score = ScoreOf(futureComputors[j])
    BY <1>7, <2>5
  <2>7. ~(p <= n)
    <3>1. p <= n => p \in 1 .. n
      BY <1>2
    <3>2. p <= n => miners[p].key \in Range(computors)
      BY <1>9, <3>1
    <3> QED
      BY <2>3, <2>6, <3>2
  <2>8. ~competitors[j - K].seated
    <3>1. (p <= n) = FALSE
      BY <2>7
    <3>2. competitors[j - K] = Points(miners[p].key, miners[p].score, FALSE)
      BY <2>6, <3>1, Zenon
    <3> QED
      BY <3>2 DEF Points
  <2>9. competitors[j - K].score > miners[i].score
    BY <1>13, <2>1, <2>2, <2>5, <2>8
  <2>10. ScoreOf(c) = miners[i].score
    BY <1>6, <2>1, <2>2
  <2> QED
    BY <2>3, <2>6, <2>9, <2>10
<1> QED
  BY <1>8, <1>11, <1>14, <1>15

\* A point is a solution.
LEMMA PointsEarned ==
  ASSUME MiningInv
  PROVE  PointsAreSolutions
<1>1. miners \in Seq(RankedMiner) /\ solutionFlags \in SUBSET Solution /\ Earned(miners, solutionFlags)
  <2>1. MiningTypeOK /\ Earned(miners, solutionFlags)
    BY Zenon DEF MiningInv
  <2> QED
    BY <2>1 DEF MiningTypeOK
<1>2. ASSUME NEW m PROVE ScoreOf(m) <= Cardinality(Merits(m, solutionFlags))
  <2> DEFINE at == {i \in DOMAIN miners : miners[i].key = m}
  <2>1. ScoreOf(m) = IF at = {} THEN 0 ELSE miners[Min(at)].score
    BY DEF ScoreOf
  <2>2. CASE at = {}
    <3>1. IsFiniteSet(Merits(m, solutionFlags))
      <4>1. Merits(m, solutionFlags) \in SUBSET Solution
        BY <1>1 DEF Merits
      <4> QED
        BY <4>1, MinerRankingAssumption, FS_Subset
    <3>2. Cardinality(Merits(m, solutionFlags)) \in Nat
      BY <3>1, FS_CardinalityType
    <3>3. ScoreOf(m) = 0
      BY <2>1, <2>2, Zenon
    <3> QED
      BY <3>2, <3>3
  <2>3. CASE at # {}
    <3>1. at \in SUBSET (1 .. Len(miners)) /\ Len(miners) \in Nat
      BY <1>1
    <3>2. IsFiniteSet(1 .. Len(miners))
      BY <3>1, FS_Interval
    <3>3. IsFiniteSet(at)
      BY <3>1, <3>2, FS_Subset
    <3>4. at \subseteq Int
      BY <3>1
    <3>5. Min(at) \in at
      BY <2>3, <3>3, <3>4, Extremes, Zenon
    <3>6. PICK i \in DOMAIN miners : i = Min(at) /\ miners[i].key = m
      BY <3>5
    <3>7. miners[i].score <= Cardinality(Merits(m, solutionFlags))
      BY <1>1, <3>6 DEF Earned, Merits
    <3>8. ScoreOf(m) = miners[i].score
      BY <2>1, <2>3, <3>6, Zenon
    <3> QED
      BY <3>7, <3>8
  <2> QED
    BY <2>2, <2>3
<1> QED
  BY <1>2 DEF PointsAreSolutions, Merits

\* A step of the miners keeps their invariant.
LEMMA MiningStep ==
  MiningInv /\ [MiningNext]_miningVars => MiningInv'
<1> SUFFICES ASSUME MiningInv, [MiningNext]_miningVars PROVE MiningInv'
  OBVIOUS
<1>1. CASE \E s \in Solution : ReceiveSolution(s) \/ OthersPublish(s)
  BY <1>1, ReceiveKeeps, OthersKeeps
<1>2. CASE ProcessMiningTick
  BY <1>2, TickKeeps
<1>3. CASE EndMiningEpoch
  BY <1>3, EndKeeps
<1>4. CASE UNCHANGED miningVars
  BY <1>4, MiningStutters
<1> QED
  BY <1>1, <1>2, <1>3, <1>4 DEF MiningNext

\* The ranking of the miners, their points, the deposits and the indices hold in every state.
THEOREM MiningInvariance == MiningSpec => [](MiningInv /\ BestAreSeated /\ PointsAreSolutions)
<1>1. MiningInit => MiningInv
  BY MiningStarts
<1>2. MiningInv => MiningInv /\ BestAreSeated /\ PointsAreSolutions
  BY BestSeated, PointsEarned
<1> QED
  BY <1>1, MiningStep, <1>2, PTL DEF MiningSpec
=============================================================================

---------------------------- MODULE SpectrumProofs ----------------------------
(***************************************************************************)
(* Proofs about the spectrum: the table of entities is a ledger, however   *)
(* often it is reorganised, in which money is only moved and dust burned.  *)
(***************************************************************************)
EXTENDS Spectrum, SumTheorems, FunctionTheorems, TLAPS

-----------------------------------------------------------------------------
(* Searches.                                                               *)

\* The slots that a search looks at are slots of the table, and it looks at each.
LEMMA Searched ==
  ASSUME NEW k \in Entity
  PROVE  /\ \A n \in Place : At(k, n) \in Place
         /\ \A i \in Place : \E n \in Place : At(k, n) = i
<1> DEFINE home == EntityHome[k]
<1>1. SpectrumCapacity \in Nat \ {0} /\ home \in 0 .. SpectrumCapacity - 1
  BY SpectrumAssumption
<1>2. \A n \in Place : At(k, n) = IF home + n < SpectrumCapacity THEN home + n
                                  ELSE home + n - SpectrumCapacity
  <2> SUFFICES ASSUME NEW n \in Place
      PROVE  At(k, n) = IF home + n < SpectrumCapacity THEN home + n
                        ELSE home + n - SpectrumCapacity
    OBVIOUS
  <2> HIDE DEF home
  <2>1. home \in Int /\ n \in Int /\ 0 <= home + n /\ home + n < 2 * SpectrumCapacity
    BY <1>1 DEF Place
  <2>2. \A x \in Int : 0 <= x /\ x < SpectrumCapacity => x % SpectrumCapacity = x
    BY <1>1
  <2>3. \A x \in Int : SpectrumCapacity <= x /\ x < 2 * SpectrumCapacity =>
                         x % SpectrumCapacity = x - SpectrumCapacity
    BY <1>1
  <2>4. At(k, n) = (home + n) % SpectrumCapacity
    BY DEF At, home
  <2> QED
    BY <1>1, <2>1, <2>2, <2>3, <2>4
<1> HIDE DEF home
<1>3. ASSUME NEW n \in Place PROVE At(k, n) \in Place
  BY <1>1, <1>2 DEF Place
<1>4. ASSUME NEW i \in Place PROVE \E n \in Place : At(k, n) = i
  <2>1. CASE i >= home
    <3>1. i - home \in Place /\ home + (i - home) < SpectrumCapacity /\ home + (i - home) = i
      BY <1>1, <2>1 DEF Place
    <3> QED
      BY <1>2, <3>1
  <2>2. CASE i < home
    <3>1. /\ i - home + SpectrumCapacity \in Place
          /\ ~(home + (i - home + SpectrumCapacity) < SpectrumCapacity)
          /\ home + (i - home + SpectrumCapacity) - SpectrumCapacity = i
      BY <1>1, <2>2 DEF Place
    <3> QED
      BY <1>2, <3>1
  <2> QED
    BY <1>1, <2>1, <2>2 DEF Place
<1> QED
  BY <1>3, <1>4

\* A search for k ends in the slot i.
Reaches(sp, k, i) ==
  \E n \in Place :
    /\ At(k, n) = i
    /\ sp[i].key \in {k, NoEntity}
    /\ \A m \in 0 .. n - 1 : sp[At(k, m)].key \notin {k, NoEntity}

\* The slot of k is the one in which a search for k ends.
LEMMA PlaceReached ==
  ASSUME NEW sp, NEW k \in Entity, NEW i \in Place, Reaches(sp, k, i)
  PROVE  PlaceOf(sp, k) = i
<1> DEFINE S == {n \in Place : sp[At(k, n)].key \in {k, NoEntity}}
<1>1. PICK n \in Place : /\ At(k, n) = i
                         /\ sp[i].key \in {k, NoEntity}
                         /\ \A m \in 0 .. n - 1 : sp[At(k, m)].key \notin {k, NoEntity}
  BY DEF Reaches
<1>2. n \in S
  BY <1>1
<1>3. \A m \in S : n <= m
  <2> SUFFICES ASSUME NEW m \in S, ~(n <= m) PROVE FALSE
    OBVIOUS
  <2>1. m \in 0 .. n - 1
    BY SpectrumAssumption DEF Place
  <2> QED
    BY <1>1, <2>1
<1>4. S \subseteq Int
  BY SpectrumAssumption DEF Place
<1>5. Min(S) = n
  <2> HIDE DEF S
  <2>1. Min(S) \in S /\ \A m \in S : Min(S) <= m
    BY <1>2, <1>3 DEF Min
  <2>2. Min(S) <= n /\ n <= Min(S) /\ Min(S) \in Int /\ n \in Int
    BY <1>2, <1>3, <1>4, <2>1
  <2> QED
    BY <2>2
<1>6. PlaceOf(sp, k) = At(k, Min(S))
  BY DEF PlaceOf
<1> HIDE DEF S
<1> QED
  BY <1>1, <1>5, <1>6

\* A search for k ends, when k is in the table or the table has a free slot.
LEMMA SearchEnds ==
  ASSUME NEW sp, NEW k \in Entity, NEW i \in Place, sp[i].key \in {k, NoEntity}
  PROVE  /\ PlaceOf(sp, k) \in Place
         /\ Reaches(sp, k, PlaceOf(sp, k))
<1> DEFINE S == {n \in Place : sp[At(k, n)].key \in {k, NoEntity}}
<1>1. S # {}
  BY Searched
<1>2. S \subseteq Nat
  BY SpectrumAssumption DEF Place
<1>3. PICK n \in S : \A m \in S : n <= m
  <2> HIDE DEF S
  <2> QED
    BY <1>1, <1>2, LeastNumber
<1>4. n \in Place /\ At(k, n) \in Place
  BY Searched
<1>5. \A m \in 0 .. n - 1 : sp[At(k, m)].key \notin {k, NoEntity}
  <2> SUFFICES ASSUME NEW m \in 0 .. n - 1, sp[At(k, m)].key \in {k, NoEntity} PROVE FALSE
    OBVIOUS
  <2>1. m \in Place /\ ~(n <= m)
    BY <1>4, SpectrumAssumption DEF Place
  <2>2. m \in S
    BY <2>1
  <2> HIDE DEF S
  <2> QED
    BY <1>3, <2>1, <2>2
<1>6. Reaches(sp, k, At(k, n))
  <2>1. sp[At(k, n)].key \in {k, NoEntity}
    OBVIOUS
  <2> QED
    BY <1>4, <1>5, <2>1 DEF Reaches
<1> QED
  BY <1>4, <1>6, PlaceReached

\* The slot of k depends on the keys only.
LEMMA PlaceByKeys ==
  ASSUME NEW sp, NEW tp, NEW k \in Entity, \A i \in Place : sp[i].key = tp[i].key
  PROVE  PlaceOf(sp, k) = PlaceOf(tp, k)
<1>1. {n \in Place : sp[At(k, n)].key \in {k, NoEntity}}
        = {n \in Place : tp[At(k, n)].key \in {k, NoEntity}}
  BY Searched
<1> QED
  BY <1>1 DEF PlaceOf

-----------------------------------------------------------------------------
(* The table.                                                              *)

\* The records of the entities in a table.
Records(sp) == {sp[i] : i \in Used(sp)}

AnyRecord == [key : Entity \cup {NoEntity}, balance : Nat]

HasRoom(sp) == \E i \in Place : sp[i].key = NoEntity

\* An entity of the table is in the slot in which the search for it ends.
LEMMA FoundOnce ==
  ASSUME NEW sp, TableOK(sp)
  PROVE  /\ \A i, j \in Used(sp) : sp[i].key = sp[j].key => i = j
         /\ \A i \in Used(sp) : sp[i].key \in Entity
         /\ Used(sp) \subseteq Place /\ IsFiniteSet(Place) /\ IsFiniteSet(Used(sp))
<1>1. IsFiniteSet(Place)
  BY SpectrumAssumption, FS_Interval DEF Place
<1>2. Used(sp) \subseteq Place
  BY DEF Used
<1>3. IsFiniteSet(Used(sp))
  BY <1>1, <1>2, FS_Subset
<1> QED
  BY <1>1, <1>2, <1>3 DEF TableOK, Used

\* The search for an entity of the table ends where it is, and that for another one in a free
\* slot.
LEMMA SlotOf ==
  ASSUME NEW sp, TableOK(sp), HasRoom(sp), NEW k \in Entity
  PROVE  /\ PlaceOf(sp, k) \in Place
         /\ sp[PlaceOf(sp, k)].key \in {k, NoEntity}
         /\ \A i \in Place : sp[i].key = k => PlaceOf(sp, k) = i
<1>1. PICK i \in Place : sp[i].key = NoEntity
  BY DEF HasRoom
<1>2. PlaceOf(sp, k) \in Place /\ Reaches(sp, k, PlaceOf(sp, k))
  BY <1>1, SearchEnds
<1>3. ASSUME NEW j \in Place, sp[j].key = k PROVE PlaceOf(sp, k) = j
  <2>1. j \in Used(sp)
    BY <1>3, SpectrumAssumption DEF Used
  <2> QED
    BY <1>3, <2>1 DEF TableOK
<1> QED
  BY <1>2, <1>3 DEF Reaches

\* A record of k is stored in the slot of k.
LEMMA StoredOK ==
  ASSUME NEW sp, TableOK(sp), HasRoom(sp), NEW k \in Entity, NEW e \in AnyRecord, e.key = k
  PROVE  TableOK([sp EXCEPT ![PlaceOf(sp, k)] = e])
<1> DEFINE i == PlaceOf(sp, k)
           tp == [sp EXCEPT ![i] = e]
<1>1. /\ i \in Place /\ sp[i].key \in {k, NoEntity} /\ Reaches(sp, k, i)
      /\ \A j \in Place : sp[j].key = k => j = i
  <2>1. PICK j \in Place : sp[j].key = NoEntity
    BY DEF HasRoom
  <2>2. Reaches(sp, k, i)
    BY <2>1, SearchEnds
  <2> QED
    BY <2>2, SlotOf
<1>2. /\ tp \in [Place -> AnyRecord] /\ tp[i] = e /\ \A j \in Place \ {i} : tp[j] = sp[j]
      /\ sp \in [Place -> AnyRecord]
  <2>1. sp \in [Place -> AnyRecord]
    BY DEF TableOK, AnyRecord
  <2> HIDE DEF i
  <2> QED
    BY <1>1, <2>1
<1> HIDE DEF i, tp
<1>3. \A j \in Place : tp[j].key = NoEntity => tp[j].balance = 0
  BY <1>2, SpectrumAssumption DEF TableOK
<1>4. ASSUME NEW j \in Used(tp), j # i PROVE PlaceOf(tp, tp[j].key) = j
  <2> DEFINE l == sp[j].key
  <2>1. j \in Place /\ tp[j] = sp[j] /\ l # NoEntity /\ l # k /\ l \in Entity
    BY <1>1, <1>2, <1>4 DEF Used, AnyRecord
  <2>2. j \in Used(sp) /\ PlaceOf(sp, l) = j
    BY <2>1 DEF TableOK, Used
  <2>3. Reaches(sp, l, j)
    BY <2>1, <2>2, SearchEnds
  <2> HIDE DEF l
  <2>4. PICK n \in Place : /\ At(l, n) = j
                           /\ sp[j].key \in {l, NoEntity}
                           /\ \A m \in 0 .. n - 1 : sp[At(l, m)].key \notin {l, NoEntity}
    BY <2>3 DEF Reaches
  <2>5. ASSUME NEW m \in 0 .. n - 1 PROVE tp[At(l, m)].key \notin {l, NoEntity}
    <3>1. m \in Place
      BY SpectrumAssumption DEF Place
    <3>2. At(l, m) \in Place
      BY <2>1, <3>1, Searched
    <3> QED
      BY <1>2, <2>1, <2>4, <3>2, SpectrumAssumption
  <2>6. Reaches(tp, l, j)
    BY <2>1, <2>4, <2>5 DEF Reaches, l
  <2>7. tp[j].key = l
    BY <2>1 DEF l
  <2> QED
    BY <2>1, <2>6, <2>7, PlaceReached
<1>5. PlaceOf(tp, k) = i
  <2>1. PICK n \in Place : /\ At(k, n) = i
                           /\ \A m \in 0 .. n - 1 : sp[At(k, m)].key \notin {k, NoEntity}
    BY <1>1 DEF Reaches
  <2>2. ASSUME NEW m \in 0 .. n - 1 PROVE tp[At(k, m)].key \notin {k, NoEntity}
    <3>1. m \in Place
      BY SpectrumAssumption DEF Place
    <3>2. At(k, m) \in Place /\ At(k, m) # i
      BY <1>1, <2>1, <3>1, Searched
    <3> QED
      BY <1>2, <2>1, <3>2
  <2>3. Reaches(tp, k, i)
    BY <1>1, <1>2, <2>1, <2>2 DEF Reaches
  <2> QED
    BY <1>1, <2>3, PlaceReached
<1>6. \A j \in Used(tp) : PlaceOf(tp, tp[j].key) = j
  BY <1>2, <1>4, <1>5
<1> QED
  BY <1>2, <1>3, <1>6 DEF TableOK, tp, i, AnyRecord

\* What is in the table: how many slots are used, and the sum of the balances.
Total(sp) == Summed([i \in Place |-> sp[i].balance], Place)

\* A table that is not used up has a free slot.
LEMMA RoomCounted ==
  ASSUME NEW sp, Cardinality(Used(sp)) < SpectrumCapacity
  PROVE  HasRoom(sp)
<1>1. SUFFICES ASSUME ~HasRoom(sp) PROVE FALSE
  OBVIOUS
<1>2. Used(sp) = 0 .. SpectrumCapacity - 1
  BY <1>1 DEF HasRoom, Used, Place
<1>3. Cardinality(Used(sp)) = SpectrumCapacity
  BY <1>2, SpectrumAssumption, FS_Interval
<1> QED
  BY <1>3, SpectrumAssumption

\* A sum over the slots changes as one slot does.
LEMMA OneSlotChanges ==
  ASSUME NEW i \in Place, NEW f, NEW g, \A j \in Place : f[j] \in Int, g[i] \in Int,
         \A j \in Place \ {i} : g[j] = f[j]
  PROVE  Summed(g, Place) = Summed(f, Place) + (g[i] - f[i])
<1>1. IsFiniteSet(Place)
  BY SpectrumAssumption, FS_Interval DEF Place
<1> QED
  BY <1>1, SummedChange

\* What storing a record changes.
LEMMA StoredCounts ==
  ASSUME NEW sp, TableOK(sp), NEW k \in Entity, NEW e \in AnyRecord, e.key = k,
         NEW i \in Place, sp[i].key \in {k, NoEntity},
         \A j \in Place : sp[j].key = k => j = i,
         NEW tp \in [Place -> AnyRecord], tp[i] = e,
         \A j \in Place \ {i} : tp[j] = sp[j]
  PROVE  /\ Used(tp) = Used(sp) \cup {i}
         /\ Cardinality(Used(tp)) = Cardinality(Used(sp)) + (IF sp[i].key = k THEN 0 ELSE 1)
         /\ Total(sp) \in Int
         /\ Total(tp) = Total(sp) + (e.balance - sp[i].balance)
         /\ Records(tp) = {r \in Records(sp) : r.key # k} \cup {e}
<1>1. /\ i \in Place /\ sp[i].key \in {k, NoEntity}
      /\ \A j \in Place : sp[j].key = k => j = i
  OBVIOUS
<1>2. /\ tp \in [Place -> AnyRecord] /\ tp[i] = e /\ \A j \in Place \ {i} : tp[j] = sp[j]
      /\ sp \in [Place -> AnyRecord]
  BY DEF TableOK, AnyRecord
<1>3. Used(tp) = Used(sp) \cup {i}
  BY <1>1, <1>2, SpectrumAssumption DEF Used
<1>4. i \in Used(sp) <=> sp[i].key = k
  BY <1>1, SpectrumAssumption DEF Used
<1>5. Cardinality(Used(tp)) = Cardinality(Used(sp)) + (IF sp[i].key = k THEN 0 ELSE 1)
  <2>1. IsFiniteSet(Used(sp)) /\ Cardinality(Used(sp)) \in Nat
    BY FoundOnce, FS_CardinalityType
  <2>2. Cardinality(Used(sp) \cup {i})
          = IF i \in Used(sp) THEN Cardinality(Used(sp)) ELSE Cardinality(Used(sp)) + 1
    BY <2>1, FS_AddElement
  <2>3. CASE sp[i].key = k
    BY <1>3, <1>4, <2>1, <2>2, <2>3
  <2>4. CASE sp[i].key # k
    BY <1>3, <1>4, <2>1, <2>2, <2>4
  <2> QED
    BY <2>3, <2>4
<1>6. Total(sp) \in Int /\ Total(tp) = Total(sp) + (e.balance - sp[i].balance)
  <2> DEFINE f == [j \in Place |-> sp[j].balance]
             g == [j \in Place |-> tp[j].balance]
  <2>1. /\ IsFiniteSet(Place)
        /\ \A j \in Place : f[j] \in Int
        /\ g[i] \in Int /\ \A j \in Place \ {i} : g[j] = f[j]
        /\ f[i] = sp[i].balance /\ g[i] = e.balance
    BY <1>1, <1>2, FoundOnce DEF AnyRecord
  <2>2. Summed(f, Place) \in Int /\ Summed(g, Place) = Summed(f, Place) + (g[i] - f[i])
    <3> HIDE DEF f, g
    <3>1. Summed(f, Place) \in Int
      BY <2>1, SummedTyped
    <3>2. /\ IsFiniteSet(Place) /\ i \in Place /\ \A j \in Place : f[j] \in Int
          /\ g[i] \in Int /\ \A j \in Place \ {i} : g[j] = f[j]
      BY <1>1, <2>1
    <3>3. Summed(g, Place) = Summed(f, Place) + (g[i] - f[i])
      BY <3>2, OneSlotChanges
    <3> QED
      BY <3>1, <3>3
  <2>3. Summed(g, Place) = Summed(f, Place) + (e.balance - sp[i].balance)
    <3> HIDE DEF f, g
    <3> QED
      BY <2>1, <2>2
  <2> QED
    BY <2>2, <2>3 DEF Total
<1>7. Records(tp) = {r \in Records(sp) : r.key # k} \cup {e}
  <2>1. ASSUME NEW j \in Used(tp) PROVE tp[j] \in {r \in Records(sp) : r.key # k} \cup {e}
    <3>1. CASE j = i
      BY <1>2, <3>1
    <3>2. CASE j # i
      <4>1. j \in Place /\ j \in Used(sp) /\ tp[j] = sp[j] /\ sp[j].key # k
        BY <1>1, <1>2, <1>3, <3>2 DEF Used
      <4> QED
        BY <4>1 DEF Records
    <3> QED
      BY <3>1, <3>2
  <2>2. ASSUME NEW j \in Used(sp), sp[j].key # k PROVE sp[j] \in Records(tp)
    <3>1. j \in Place /\ j # i
      BY <1>4, <2>2 DEF Used
    <3>2. tp[j] = sp[j] /\ j \in Used(tp)
      BY <1>2, <1>3, <3>1
    <3> QED
      BY <3>2 DEF Records
  <2>3. e \in Records(tp)
    BY <1>2, <1>3 DEF Records
  <2>4. \A r \in Records(tp) : r \in {q \in Records(sp) : q.key # k} \cup {e}
    BY <2>1 DEF Records
  <2>5. \A r \in Records(sp) : r.key # k => r \in Records(tp)
    <3> SUFFICES ASSUME NEW r \in Records(sp), r.key # k PROVE r \in Records(tp)
      OBVIOUS
    <3>1. PICK j \in Used(sp) : r = sp[j]
      BY DEF Records
    <3> QED
      BY <2>2, <3>1
  <2> QED
    BY <2>3, <2>4, <2>5
<1> QED
  BY <1>3, <1>5, <1>6, <1>7

\* Two tables with the same records have the same number of them and the same total.
RecordSum(R) == Summed([r \in R |-> r.balance], R)

\* The population and the total of a table are those of its records.
LEMMA CountedByRecords ==
  ASSUME NEW sp, TableOK(sp)
  PROVE  /\ IsFiniteSet(Records(sp)) /\ Records(sp) \subseteq AnyRecord
         /\ Cardinality(Used(sp)) = Cardinality(Records(sp))
         /\ Total(sp) = RecordSum(Records(sp))
<1>1. sp \in [Place -> AnyRecord]
  BY DEF TableOK, AnyRecord
<1>2. /\ \A i, j \in Used(sp) : sp[i] = sp[j] => i = j
      /\ Used(sp) \subseteq Place /\ IsFiniteSet(Place) /\ IsFiniteSet(Used(sp))
  BY FoundOnce
<1>3. IsFiniteSet(Records(sp)) /\ Cardinality(Used(sp)) = Cardinality(Records(sp))
  <2> DEFINE h == [i \in Used(sp) |-> sp[i]]
  <2>1. /\ h \in [Used(sp) -> Records(sp)]
        /\ \A r \in Records(sp) : \E i \in Used(sp) : h[i] = r
        /\ \A i, j \in Used(sp) : h[i] = h[j] => i = j
    BY <1>2 DEF Records
  <2>2. ExistsBijection(Used(sp), Records(sp))
    <3> HIDE DEF h
    <3> QED
      BY <2>1 DEF ExistsBijection, Bijection, Injection, Surjection, IsInjective
  <2> QED
    BY <1>2, <2>2, FS_Bijection
<1>4. Total(sp) = RecordSum(Records(sp))
  <2> DEFINE f == [i \in Place |-> sp[i].balance]
             g == [r \in Records(sp) |-> r.balance]
  <2>1. /\ \A i \in Place : f[i] \in Int
        /\ \A i \in Place \ Used(sp) : f[i] = 0
    BY <1>1 DEF AnyRecord, TableOK, Used
  <2>2. Summed(f, Place) = Summed(f, Used(sp))
    <3> HIDE DEF f
    <3> QED
      BY <1>2, <2>1, SummedOutside
  <2>3. \A i \in Used(sp) : f[i] \in Int /\ g[sp[i]] = f[i]
    BY <1>2, <2>1 DEF Records
  <2>4. Summed(f, Used(sp)) = Summed(g, {sp[i] : i \in Used(sp)})
    <3> HIDE DEF f, g
    <3> QED
      BY <1>2, <2>3, SummedRenamed
  <2> QED
    BY <2>2, <2>4 DEF Total, RecordSum, Records
<1>5. Records(sp) \subseteq AnyRecord
  BY <1>1, <1>2 DEF Records
<1> QED
  BY <1>3, <1>4, <1>5

\* The balance of k in a table.
BalanceIn(sp, k) == IF sp[PlaceOf(sp, k)].key = k THEN sp[PlaceOf(sp, k)].balance ELSE 0

\* It is that of its record.
LEMMA BalanceByRecords ==
  ASSUME NEW sp, TableOK(sp), HasRoom(sp)
  PROVE  /\ \A r \in Records(sp) : r.key \in Entity /\ BalanceIn(sp, r.key) = r.balance
         /\ \A k \in Entity : (\A r \in Records(sp) : r.key # k) => BalanceIn(sp, k) = 0
<1>1. ASSUME NEW i \in Used(sp) PROVE sp[i].key \in Entity /\ BalanceIn(sp, sp[i].key) = sp[i].balance
  <2>1. i \in Place /\ sp[i].key \in Entity
    BY FoundOnce
  <2>2. PlaceOf(sp, sp[i].key) = i
    BY DEF TableOK
  <2> QED
    BY <2>1, <2>2 DEF BalanceIn
<1>2. ASSUME NEW k \in Entity, \A r \in Records(sp) : r.key # k PROVE BalanceIn(sp, k) = 0
  <2>1. PlaceOf(sp, k) \in Place /\ sp[PlaceOf(sp, k)].key # k
    <3>1. PlaceOf(sp, k) \in Place
      BY SlotOf
    <3>2. ASSUME sp[PlaceOf(sp, k)].key = k PROVE FALSE
      <4>1. PlaceOf(sp, k) \in Used(sp)
        BY <3>1, <3>2, SpectrumAssumption DEF Used
      <4> QED
        BY <1>2, <3>2, <4>1 DEF Records
    <3> QED
      BY <3>1, <3>2
  <2> QED
    BY <2>1 DEF BalanceIn
<1> QED
  BY <1>1, <1>2 DEF Records

-----------------------------------------------------------------------------
(* Filling and reorganising.                                               *)

NoPlaces == [j \in Place |-> EmptyPlace]

Filling(list, n) ==
  CHOOSE g : g = [i \in 0 .. n |-> IF i = 0 THEN NoPlaces ELSE Entered(g[i - 1], list[i])]

\* The recursive definition in Filled defines a function.
LEMMA FillingIs ==
  ASSUME NEW list, NEW N \in Nat
  PROVE  /\ Filled(list, N) = Filling(list, N)[N]
         /\ Filling(list, N)[0] = NoPlaces
         /\ \A i \in 1 .. N : Filling(list, N)[i] = Entered(Filling(list, N)[i - 1], list[i])
<1> DEFINE Step(g, i) == IF i = 0 THEN NoPlaces ELSE Entered(g[i - 1], list[i])
           Defines(g, n) == g = [i \in 0 .. n |-> Step(g, i)]
           S == {n \in 0 .. N : \E g : Defines(g, n)}
<1>1. 0 \in S
  <2> DEFINE g == [i \in 0 .. 0 |-> NoPlaces]
  <2>1. Defines(g, 0)
    OBVIOUS
  <2> HIDE DEF g, Defines
  <2> QED
    BY <2>1
<1>2. ASSUME NEW n \in 1 .. N, n - 1 \in S PROVE n \in S
  <2>1. PICK g : Defines(g, n - 1)
    BY <1>2
  <2> DEFINE h == [i \in 0 .. n |-> IF i = n THEN Entered(g[n - 1], list[n]) ELSE g[i]]
  <2>2. \A i \in 0 .. n : h[i] = Step(h, i)
    <3> SUFFICES ASSUME NEW i \in 0 .. n PROVE h[i] = Step(h, i)
      OBVIOUS
    <3>1. CASE i = n
      <4>1. h[n] = Entered(g[n - 1], list[n]) /\ h[n - 1] = g[n - 1] /\ n # 0
        OBVIOUS
      <4> HIDE DEF h
      <4> QED
        BY <3>1, <4>1
    <3>2. CASE i # n
      <4>1. i \in 0 .. n - 1
        BY <3>2
      <4>2. h[i] = g[i] /\ (i # 0 => h[i - 1] = g[i - 1])
        BY <3>2
      <4>3. g[i] = Step(g, i)
        BY <2>1, <4>1
      <4> HIDE DEF h
      <4> QED
        BY <4>2, <4>3
    <3> QED
      BY <3>1, <3>2
  <2>3. Defines(h, n)
    <3>1. h = [i \in 0 .. n |-> h[i]]
      OBVIOUS
    <3> HIDE DEF h, Step
    <3> QED
      BY <2>2, <3>1
  <2> HIDE DEF h, Defines
  <2> QED
    BY <2>3
<1>3. 0 .. N \subseteq S
  <2> HIDE DEF S
  <2> QED
    BY <1>1, <1>2, BoundedInduction
<1>4. \E g : Defines(g, N)
  BY <1>3
<1>5. Defines(Filling(list, N), N)
  BY <1>4 DEF Filling
<1>6. \A i \in 0 .. N : Filling(list, N)[i] = Step(Filling(list, N), i)
  <2> HIDE DEF Step
  <2> QED
    BY <1>5
<1>7. Filled(list, N) = Filling(list, N)[N]
  BY DEF Filled, Filling, NoPlaces
<1> QED
  BY <1>6, <1>7

\* The records of a list that have something, among the first n.
Given(list, n) == {list[j] : j \in {i \in 1 .. n : list[i].balance > 0}}

\* The records of a list that have something are those of the table that it fills.
LEMMA FilledIs ==
  ASSUME NEW list, NEW N \in Nat, \A i \in 1 .. N : list[i].balance \in Nat,
         Given(list, N) \subseteq [key : Entity, balance : Nat],
         \A r, q \in Given(list, N) : r.key = q.key => r = q,
         IsFiniteSet(Given(list, N)), Cardinality(Given(list, N)) < SpectrumCapacity
  PROVE  TableOK(Filled(list, N)) /\ Records(Filled(list, N)) = Given(list, N)
<1> DEFINE T(n) == Filling(list, N)[n]
           Fine(n) == TableOK(T(n)) /\ Records(T(n)) = Given(list, n)
           S == {n \in 0 .. N : Fine(n)}
<1>1. /\ T(0) = NoPlaces
      /\ \A n \in 1 .. N : T(n) = Entered(T(n - 1), list[n])
      /\ Filled(list, N) = T(N)
  BY FillingIs
<1> HIDE DEF T
<1>2. TableOK(NoPlaces) /\ Records(NoPlaces) = {}
  <2>1. NoPlaces \in [Place -> [key : Entity \cup {NoEntity}, balance : Nat]]
    BY DEF NoPlaces, EmptyPlace
  <2>2. Used(NoPlaces) = {}
    BY DEF Used, NoPlaces, EmptyPlace
  <2>3. \A i \in Place : NoPlaces[i].balance = 0
    BY DEF NoPlaces, EmptyPlace
  <2> QED
    BY <2>1, <2>2, <2>3 DEF TableOK, Records
<1>3. Given(list, 0) = {}
  BY DEF Given
<1>4. 0 \in S
  BY <1>1, <1>2, <1>3
<1>5. ASSUME NEW n \in 1 .. N, n - 1 \in S PROVE n \in S
  <2> DEFINE e == list[n]
             tp == T(n - 1)
             k == e.key
             i == PlaceOf(tp, k)
  <2>1. TableOK(tp) /\ Records(tp) = Given(list, n - 1)
    BY <1>5
  <2>2. T(n) = IF e.balance = 0 THEN tp ELSE [tp EXCEPT ![i] = e]
    BY <1>1 DEF Entered
  <2>3. CASE e.balance = 0
    <3>1. Given(list, n) = Given(list, n - 1)
      BY <2>3 DEF Given
    <3>2. T(n) = tp
      BY <2>2, <2>3
    <3>3. Fine(n)
      BY <2>1, <3>1, <3>2
    <3> QED
      BY <3>3
  <2>4. CASE e.balance # 0
    <3>1. Given(list, n) = Given(list, n - 1) \cup {e}
      <4>1. \A j \in 1 .. n : j \in 1 .. n - 1 \/ j = n
        OBVIOUS
      <4>2. \A j \in 1 .. n - 1 : j \in 1 .. n
        OBVIOUS
      <4>3. e.balance > 0 /\ n \in 1 .. n
        BY <2>4
      <4> QED
        BY <4>1, <4>2, <4>3 DEF Given
    <3>2. Given(list, n) \subseteq Given(list, N)
      <4>1. \A j \in 1 .. n : j \in 1 .. N
        OBVIOUS
      <4> QED
        BY <4>1 DEF Given
    <3>3. e \in Given(list, N) /\ Given(list, n - 1) \subseteq Given(list, N)
      BY <3>1, <3>2
    <3>4. k \in Entity /\ e \in AnyRecord
      BY <3>3 DEF AnyRecord
    <3>5. HasRoom(tp)
      <4>1. Cardinality(Used(tp)) = Cardinality(Given(list, n - 1))
        BY <2>1, CountedByRecords
      <4>2. /\ Cardinality(Given(list, n - 1)) <= Cardinality(Given(list, N))
            /\ Cardinality(Given(list, n - 1)) \in Nat /\ Cardinality(Given(list, N)) \in Nat
        BY <3>3, FS_Subset, FS_CardinalityType
      <4>3. Cardinality(Used(tp)) < SpectrumCapacity
        BY <4>1, <4>2, SpectrumAssumption
      <4> QED
        BY <4>3, RoomCounted
    <3> HIDE DEF tp, e, k
    <3>6. TableOK([tp EXCEPT ![i] = e])
      BY <2>1, <3>4, <3>5, StoredOK DEF k
    <3>7. Records([tp EXCEPT ![i] = e]) = {r \in Records(tp) : r.key # k} \cup {e}
      <4>1. i \in Place /\ tp[i].key \in {k, NoEntity} /\ \A j \in Place : tp[j].key = k => j = i
        BY <2>1, <3>4, <3>5, SlotOf
      <4> HIDE DEF i
      <4>2. tp \in [Place -> AnyRecord]
        BY <2>1 DEF TableOK, AnyRecord
      <4> DEFINE up == [tp EXCEPT ![i] = e]
      <4>3. up \in [Place -> AnyRecord] /\ up[i] = e /\ \A j \in Place \ {i} : up[j] = tp[j]
        BY <3>4, <4>1, <4>2
      <4>4. e.key = k
        BY DEF k
      <4> HIDE DEF up
      <4>5. Records(up) = {r \in Records(tp) : r.key # k} \cup {e}
        BY <2>1, <3>4, <4>1, <4>3, <4>4, StoredCounts
      <4> QED
        BY <4>5 DEF up
    <3>8. {r \in Records(tp) : r.key # k} \cup {e} = Given(list, n - 1) \cup {e}
      <4>1. ASSUME NEW r \in Given(list, n - 1), r.key = k PROVE r = e
        BY <3>3, <4>1 DEF k
      <4> QED
        BY <2>1, <4>1
    <3>9. Fine(n)
      <4>1. T(n) = [tp EXCEPT ![i] = e]
        BY <2>2, <2>4
      <4> QED
        BY <3>1, <3>6, <3>7, <3>8, <4>1
    <3> QED
      BY <3>9
  <2> QED
    BY <2>3, <2>4
<1>6. 0 .. N \subseteq S
  <2> HIDE DEF S
  <2> QED
    BY <1>4, <1>5, BoundedInduction
<1>7. Fine(N)
  BY <1>6
<1> QED
  BY <1>1, <1>7

\* The records of a table that have something.
Holders(sp) == {r \in Records(sp) : r.balance > 0}

\* Reorganising keeps the records that have something, and no others.
LEMMA ReorganizedIs ==
  ASSUME NEW sp, TableOK(sp), Cardinality(Holders(sp)) < SpectrumCapacity
  PROVE  TableOK(Reorganized(sp)) /\ Records(Reorganized(sp)) = Holders(sp)
<1> DEFINE N == SpectrumCapacity
           list == [i \in 1 .. N |-> sp[i - 1]]
<1>1. N \in Nat /\ \A i \in 1 .. N : i - 1 \in Place
  BY SpectrumAssumption DEF Place
<1>2. sp \in [Place -> AnyRecord] /\ \A i \in Place : sp[i].balance > 0 => i \in Used(sp)
  BY DEF TableOK, AnyRecord, Used
<1>3. \A i \in 1 .. N : list[i].balance \in Nat
  BY <1>1, <1>2 DEF AnyRecord
<1>4. Given(list, N) = Holders(sp)
  <2>1. ASSUME NEW i \in 1 .. N, list[i].balance > 0 PROVE list[i] \in Holders(sp)
    BY <1>1, <1>2, <2>1 DEF Holders, Records
  <2>2. ASSUME NEW i \in Used(sp), sp[i].balance > 0 PROVE sp[i] \in Given(list, N)
    <3>1. i \in Place
      BY DEF Used
    <3>2. i + 1 \in 1 .. N /\ (i + 1) - 1 = i
      BY <3>1, SpectrumAssumption DEF Place
    <3>3. list[i + 1] = sp[i]
      BY <3>2
    <3> HIDE DEF list
    <3> QED
      BY <2>2, <3>2, <3>3 DEF Given
  <2>3. \A r \in Given(list, N) : r \in Holders(sp)
    <3> HIDE DEF list
    <3> QED
      BY <2>1 DEF Given
  <2>4. \A r \in Holders(sp) : r \in Given(list, N)
    <3> HIDE DEF list
    <3> QED
      BY <2>2 DEF Holders, Records
  <2> QED
    BY <2>3, <2>4
<1>5. Reorganized(sp) = Filled(list, N)
  BY DEF Reorganized
<1> HIDE DEF list
<1>6. IsFiniteSet(Holders(sp))
  BY CountedByRecords, FS_Subset DEF Holders
<1>7. /\ Holders(sp) \subseteq [key : Entity, balance : Nat]
      /\ \A r, q \in Holders(sp) : r.key = q.key => r = q
  <2>1. \A r \in Holders(sp) : \E i \in Used(sp) : r = sp[i]
    BY DEF Holders, Records
  <2>2. \A i \in Used(sp) : sp[i] \in [key : Entity, balance : Nat]
    BY <1>2, FoundOnce DEF AnyRecord
  <2> QED
    BY <2>1, <2>2, FoundOnce
<1> QED
  BY <1>1, <1>3, <1>4, <1>5, <1>6, <1>7, FilledIs

-----------------------------------------------------------------------------
(* Dust.                                                                   *)

Positive(sp) == {i \in Place : sp[i].balance > 0}

Category(sp, i) == CategoryOf(sp[i].balance)

Half == SpectrumCapacity \div 2

\* The capacity is even.
LEMMA HalfIs == Half \in Nat /\ Half > 0 /\ 2 * Half = SpectrumCapacity
BY SpectrumAssumption DEF Half

\* The numbers below n.
LEMMA NumbersBelow ==
  ASSUME NEW n \in Nat
  PROVE  /\ IsFiniteSet(1 .. n - 1)
         /\ Cardinality(1 .. n - 1) \in Nat
         /\ Cardinality(1 .. n - 1) <= n
         /\ n > 0 => Cardinality(1 .. n - 1) = n - 1
<1>1. PICK m : m = n - 1
  OBVIOUS
<1>2. m \in Int
  BY <1>1
<1>3. IsFiniteSet(1 .. m) /\ Cardinality(1 .. m) = IF 1 > m THEN 0 ELSE m - 1 + 1
  BY <1>2, FS_Interval
<1>4. Cardinality(1 .. m) \in Nat /\ Cardinality(1 .. m) <= n /\ (n > 0 => Cardinality(1 .. m) = m)
  BY <1>1, <1>2, <1>3
<1> QED
  BY <1>1, <1>3, <1>4

\* The category of a balance.
LEMMA CategoryTyped ==
  ASSUME NEW b
  PROVE  CategoryOf(b) \in 0 .. EntityCategoryCount
<1> DEFINE S == {c \in 1 .. EntityCategoryCount - 1 : 2^c <= b}
<1>1. IsFiniteSet(1 .. EntityCategoryCount - 1) /\ S \subseteq 1 .. EntityCategoryCount - 1
  BY SpectrumAssumption, NumbersBelow
<1>2. /\ Cardinality(1 .. EntityCategoryCount - 1) <= EntityCategoryCount
      /\ Cardinality(1 .. EntityCategoryCount - 1) \in Nat
  BY SpectrumAssumption, NumbersBelow
<1> HIDE DEF S
<1>3. IsFiniteSet(S) /\ Cardinality(S) <= Cardinality(1 .. EntityCategoryCount - 1)
  BY <1>1, FS_Subset
<1>4. Cardinality(S) \in Nat
  BY <1>3, FS_CardinalityType
<1> QED
  BY <1>2, <1>3, <1>4, SpectrumAssumption DEF CategoryOf, S

\* Every second element of a set of numbers, counted from below, is less than half of it:
\* 2 * h > Cardinality(E).
LEMMA EverySecond ==
  ASSUME NEW E, IsFiniteSet(E), E \subseteq Nat, NEW h \in Nat, Cardinality(E) < 2 * h,
         NEW rank, \A i \in E : rank[i] = Cardinality({j \in E : j <= i})
  PROVE  Cardinality({i \in E : rank[i] % 2 # 1}) < h
<1> DEFINE V == {i \in E : rank[i] % 2 # 1}
           f == [i \in V |-> rank[i] \div 2]
           Upto(i) == {j \in E : j <= i}
<1>1. \A i \in E : /\ IsFiniteSet(Upto(i)) /\ Cardinality(Upto(i)) \in Nat
                   /\ Cardinality(Upto(i)) <= Cardinality(E) /\ Cardinality(Upto(i)) > 0
  <2> SUFFICES ASSUME NEW i \in E
      PROVE  /\ IsFiniteSet(Upto(i)) /\ Cardinality(Upto(i)) \in Nat
             /\ Cardinality(Upto(i)) <= Cardinality(E) /\ Cardinality(Upto(i)) > 0
    OBVIOUS
  <2>1. Upto(i) \subseteq E /\ i \in Upto(i)
    OBVIOUS
  <2> HIDE DEF Upto
  <2>2. IsFiniteSet(Upto(i)) /\ Cardinality(Upto(i)) <= Cardinality(E)
    BY <2>1, FS_Subset
  <2>3. Cardinality(Upto(i)) \in Nat /\ Cardinality(Upto(i)) # 0
    BY <2>1, <2>2, FS_CardinalityType, FS_EmptySet
  <2> QED
    BY <2>2, <2>3
<1>2. Cardinality(E) \in Nat
  BY FS_CardinalityType
<1>3. ASSUME NEW i \in E, NEW j \in E, i < j PROVE rank[i] < rank[j]
  <2>1. Upto(i) \subseteq Upto(j) /\ j \in Upto(j) /\ j \notin Upto(i)
    <3>1. i \in Nat /\ j \in Nat /\ \A l \in E : l \in Nat
      OBVIOUS
    <3>2. \A l \in E : l <= i => l <= j
      BY <1>3, <3>1
    <3>3. ~(j <= i) /\ j <= j
      BY <1>3, <3>1
    <3> QED
      BY <3>2, <3>3
  <2>2. rank[i] = Cardinality(Upto(i)) /\ rank[j] = Cardinality(Upto(j))
    OBVIOUS
  <2>3. Upto(i) # Upto(j)
    BY <2>1
  <2> HIDE DEF Upto
  <2>4. Cardinality(Upto(i)) <= Cardinality(Upto(j)) /\ Cardinality(Upto(i)) # Cardinality(Upto(j))
    BY <1>1, <2>1, <2>3, FS_Subset
  <2> QED
    BY <1>1, <2>2, <2>4
<1>4. \A i \in E : rank[i] \in 1 .. Cardinality(E)
  <2>1. \A i \in E : rank[i] = Cardinality(Upto(i))
    OBVIOUS
  <2> HIDE DEF Upto
  <2> QED
    BY <1>1, <1>2, <2>1
<1>5. \A i, j \in E : rank[i] = rank[j] => i = j
  <2> SUFFICES ASSUME NEW i \in E, NEW j \in E, rank[i] = rank[j], i # j PROVE FALSE
    OBVIOUS
  <2>1. i \in Nat /\ j \in Nat
    OBVIOUS
  <2>2. i < j \/ j < i
    BY <2>1
  <2>3. rank[i] \in Int /\ rank[j] \in Int
    BY <1>4
  <2> QED
    BY <1>3, <2>2, <2>3
<1>6. \A i \in V : rank[i] \in Int /\ rank[i] % 2 = 0 /\ 0 < rank[i] /\ rank[i] < 2 * h
  BY <1>2, <1>4
<1>7. \A i \in V : f[i] \in 1 .. h - 1 /\ 2 * f[i] = rank[i]
  BY <1>6
<1>8. f \in Injection(V, 1 .. h - 1)
  <2>1. f \in [V -> 1 .. h - 1]
    BY <1>7
  <2>2. \A i, j \in V : f[i] = f[j] => i = j
    <3> SUFFICES ASSUME NEW i \in V, NEW j \in V, f[i] = f[j] PROVE i = j
      OBVIOUS
    <3>1. rank[i] = rank[j]
      BY <1>7
    <3> QED
      BY <1>5, <3>1
  <2> HIDE DEF f, V
  <2> QED
    BY <2>1, <2>2 DEF Injection, IsInjective
<1>9. IsFiniteSet(1 .. h - 1) /\ (h > 0 => Cardinality(1 .. h - 1) = h - 1)
  BY NumbersBelow
<1>10. IsFiniteSet(V) /\ Cardinality(V) <= Cardinality(1 .. h - 1)
  <2> HIDE DEF f, V
  <2> QED
    BY <1>8, <1>9, FS_Injection
<1>11. h > 0 /\ Cardinality(V) \in Nat
  <2> HIDE DEF V
  <2> QED
    BY <1>2, <1>10, FS_CardinalityType
<1> HIDE DEF V
<1>12. Cardinality(V) < h
  BY <1>9, <1>10, <1>11
<1> QED
  BY <1>12 DEF V

\* Dust is burned from the smallest balances on, when half of the table has some, until less
\* than half has.
LEMMA DustIs ==
  ASSUME NEW sp, TableOK(sp), Cardinality(Used(sp)) < SpectrumCapacity
  PROVE  /\ Dust(sp) \subseteq Positive(sp)
         /\ IsFiniteSet(Positive(sp))
         /\ Cardinality(Positive(sp) \ Dust(sp)) < Half
         /\ Dust(sp) # {} => Cardinality(Positive(sp)) >= Half
         /\ \A d \in Dust(sp), i \in Positive(sp) \ Dust(sp) : Category(sp, d) <= Category(sp, i)
<1> DEFINE held == {i \in Place : sp[i].balance > 0}
           cat  == [i \in held |-> CategoryOf(sp[i].balance)]
           above(c) == Cardinality({i \in held : cat[i] >= c})
           equal(c) == Cardinality({i \in held : cat[i] = c})
           large == {c \in {cat[i] : i \in held} : above(c) >= SpectrumCapacity \div 2}
           limit == CHOOSE c \in large : \A d \in large : d <= c
           rank(i) == Cardinality({j \in held : cat[j] = limit /\ j <= i})
<1>1. Dust(sp) = IF large = {} THEN {}
                 ELSE IF equal(limit) = above(limit)
                 THEN {i \in held : cat[i] < limit \/ (cat[i] = limit /\ rank(i) % 2 = 1)}
                 ELSE {i \in held : cat[i] <= limit}
  BY DEF Dust
<1>2. /\ IsFiniteSet(held) /\ Cardinality(held) \in Nat /\ Cardinality(held) < SpectrumCapacity
      /\ held \subseteq Nat
  <2>1. held \subseteq Used(sp)
    <3>1. \A i \in Place : sp[i].key = NoEntity => sp[i].balance = 0
      BY DEF TableOK
    <3> QED
      BY <3>1 DEF Used
  <2>2. IsFiniteSet(Used(sp)) /\ Used(sp) \subseteq Place
    BY FoundOnce
  <2> HIDE DEF held
  <2>3. IsFiniteSet(held) /\ Cardinality(held) <= Cardinality(Used(sp))
    BY <2>1, <2>2, FS_Subset
  <2>4. Cardinality(held) \in Nat /\ Cardinality(Used(sp)) \in Nat
    BY <2>2, <2>3, FS_CardinalityType
  <2>5. Place \subseteq Nat
    BY SpectrumAssumption DEF Place
  <2>6. Cardinality(held) < SpectrumCapacity
    BY <2>3, <2>4, SpectrumAssumption
  <2>7. held \subseteq Nat
    BY <2>1, <2>2, <2>5
  <2> QED
    BY <2>3, <2>4, <2>6, <2>7
<1>3. \A i \in held : cat[i] \in 0 .. EntityCategoryCount /\ cat[i] = Category(sp, i)
  BY CategoryTyped DEF Category
<1>4. held = Positive(sp)
  BY DEF Positive
<1>5. \A S \in SUBSET held : IsFiniteSet(S) /\ Cardinality(S) \in Nat /\ Cardinality(S) <= Cardinality(held)
  <2> HIDE DEF held
  <2> QED
    BY <1>2, FS_Subset, FS_CardinalityType
<1> HIDE DEF held, cat
\* Less than half of the table has a balance above a category, if none of those is large.
<1>6. ASSUME NEW S \in SUBSET held,
             \A c \in {cat[i] : i \in S} : c \notin large,
             \A i \in S, j \in held : cat[j] >= cat[i] => j \in S
      PROVE  Cardinality(S) < Half
  <2>1. CASE S = {}
    BY <2>1, FS_EmptySet, HalfIs
  <2>2. CASE S # {}
    <3> DEFINE cats == {cat[i] : i \in S}
    <3>1. cats \subseteq Nat /\ cats # {}
      BY <1>3, <2>2
    <3>2. PICK c \in cats : \A d \in cats : c <= d
      <4> HIDE DEF cats
      <4> QED
        BY <3>1, LeastNumber
    <3>3. S = {i \in held : cat[i] >= c}
      <4>1. PICK l \in S : c = cat[l]
        BY <3>2
      <4>2. \A i \in S : cat[i] >= c
        BY <1>3, <3>2
      <4>3. \A i \in held : cat[i] >= c => i \in S
        BY <1>6, <4>1
      <4> QED
        BY <4>2, <4>3
    <3>4. c \notin large /\ c \in {cat[i] : i \in held}
      BY <1>6, <3>2
    <3>5. ~(above(c) >= SpectrumCapacity \div 2)
      BY <3>4
    <3>6. Cardinality(S) \in Nat /\ above(c) = Cardinality(S)
      BY <1>5, <3>3
    <3> QED
      BY <3>5, <3>6, HalfIs DEF Half
  <2> QED
    BY <2>1, <2>2
<1>7. CASE large = {}
  <2>1. Dust(sp) = {}
    BY <1>1, <1>7
  <2>2. Cardinality(held) < Half
    BY <1>6, <1>7
  <2> QED
    BY <1>2, <1>4, <2>1, <2>2
<1>8. CASE large # {}
  <2>1. limit \in large /\ \A d \in large : d <= limit
    <3>1. large \subseteq 0 .. EntityCategoryCount
      BY <1>3
    <3>2. \E c \in large : \A d \in large : d <= c
      <4> HIDE DEF large
      <4> QED
        BY <1>8, <3>1, GreatestNumber, SpectrumAssumption
    <3> HIDE DEF large
    <3> QED
      BY <3>2
  <2>2. limit \in 0 .. EntityCategoryCount /\ above(limit) >= Half
    BY <1>3, <2>1 DEF Half
  <2> HIDE DEF limit
  <2> DEFINE beyond == {i \in held : cat[i] > limit}
             same == {i \in held : cat[i] = limit}
  <2>3. Cardinality(beyond) < Half
    <3>1. \A c \in {cat[i] : i \in beyond} : c \notin large
      <4> SUFFICES ASSUME NEW i \in beyond, cat[i] \in large PROVE FALSE
        OBVIOUS
      <4>1. cat[i] <= limit /\ cat[i] > limit /\ cat[i] \in Int /\ limit \in Int
        BY <1>3, <2>1, <2>2
      <4> QED
        BY <4>1
    <3>2. \A i \in beyond, j \in held : cat[j] >= cat[i] => j \in beyond
      BY <1>3, <2>2
    <3>3. beyond \in SUBSET held
      OBVIOUS
    <3> HIDE DEF beyond, large
    <3> QED
      BY <1>6, <3>1, <3>2, <3>3
  <2>4. Cardinality(held) >= Half
    <3>1. {i \in held : cat[i] >= limit} \in SUBSET held
      OBVIOUS
    <3>2. above(limit) \in Nat /\ above(limit) <= Cardinality(held)
      BY <1>5, <3>1
    <3> QED
      BY <1>2, <2>2, <3>2, HalfIs
  <2>5. CASE equal(limit) # above(limit)
    <3>1. Dust(sp) = {i \in held : cat[i] <= limit}
      BY <1>1, <1>8, <2>5
    <3>2. held \ Dust(sp) = beyond
      BY <1>3, <2>2, <3>1
    <3>3. \A d \in Dust(sp), i \in held \ Dust(sp) : cat[d] <= cat[i]
      BY <1>3, <2>2, <3>1, <3>2
    <3> HIDE DEF beyond
    <3> QED
      BY <1>2, <1>3, <1>4, <2>3, <2>4, <3>1, <3>2, <3>3
  <2>6. CASE equal(limit) = above(limit)
    <3>1. Dust(sp) = {i \in held : cat[i] < limit \/ (cat[i] = limit /\ rank(i) % 2 = 1)}
      BY <1>1, <1>8, <2>6
    <3>2. same = {i \in held : cat[i] >= limit}
      <4> DEFINE over == {i \in held : cat[i] >= limit}
      <4>1. same \subseteq over /\ over \in SUBSET held
        BY <1>3, <2>2
      <4>2. Cardinality(same) = Cardinality(over)
        BY <2>6
      <4> HIDE DEF same, over
      <4>3. same = over
        BY <1>5, <4>1, <4>2, FS_Subset
      <4> QED
        BY <4>3 DEF over
    <3> DEFINE r == [i \in same |-> Cardinality({j \in same : j <= i})]
    <3>3. \A i \in same : rank(i) = r[i]
      <4> SUFFICES ASSUME NEW i \in same PROVE rank(i) = r[i]
        OBVIOUS
      <4>1. {j \in held : cat[j] = limit /\ j <= i} = {j \in same : j <= i}
        OBVIOUS
      <4>2. r[i] = Cardinality({j \in same : j <= i})
        OBVIOUS
      <4> HIDE DEF same, r
      <4> QED
        BY <4>1, <4>2
    <3>4. held \ Dust(sp) = {i \in same : r[i] % 2 # 1}
      <4>1. ASSUME NEW i \in held PROVE i \in Dust(sp) <=> ~(i \in same /\ r[i] % 2 # 1)
        <5>1. cat[i] \in Int /\ limit \in Int /\ (cat[i] >= limit => cat[i] = limit)
          BY <1>3, <2>2, <3>2
        <5>2. CASE cat[i] = limit
          <6>1. i \in same
            BY <5>2
          <6>2. rank(i) = r[i]
            BY <3>3, <6>1
          <6> HIDE DEF r, same
          <6> QED
            BY <3>1, <5>1, <5>2, <6>1, <6>2
        <5>3. CASE cat[i] # limit
          <6>1. i \notin same /\ cat[i] < limit
            BY <5>1, <5>3
          <6> QED
            BY <3>1, <6>1
        <5> QED
          BY <5>2, <5>3
      <4>2. same \subseteq held
        OBVIOUS
      <4> HIDE DEF r, same
      <4> QED
        BY <4>1, <4>2
    <3>5. Cardinality({i \in same : r[i] % 2 # 1}) < Half
      <4>1. same \in SUBSET held /\ \A i \in same : r[i] = Cardinality({j \in same : j <= i})
        OBVIOUS
      <4> HIDE DEF r, same
      <4>2. IsFiniteSet(same) /\ same \subseteq Nat /\ Cardinality(same) < 2 * Half
        <5>1. IsFiniteSet(same) /\ Cardinality(same) \in Nat /\ Cardinality(same) <= Cardinality(held)
          BY <1>5, <4>1
        <5> QED
          BY <1>2, <4>1, <5>1, HalfIs
      <4> QED
        BY <4>1, <4>2, EverySecond, HalfIs
    <3>6. \A d \in Dust(sp), i \in held \ Dust(sp) : cat[d] <= cat[i]
      <4>1. \A d \in Dust(sp) : d \in held /\ cat[d] <= limit
        BY <1>3, <2>2, <3>1
      <4>2. \A i \in held \ Dust(sp) : cat[i] = limit
        BY <3>4
      <4> QED
        BY <4>1, <4>2
    <3>7. Dust(sp) \subseteq held
      BY <3>1
    <3> HIDE DEF r, same
    <3> QED
      BY <1>2, <1>3, <1>4, <2>4, <3>4, <3>5, <3>6, <3>7
  <2> QED
    BY <2>5, <2>6
<1> QED
  BY <1>7, <1>8

-----------------------------------------------------------------------------
(* What a reorganisation keeps.                                            *)

\* Records that are left out take something away from the total, or nothing.
LEMMA FewerRecords ==
  ASSUME NEW R, IsFiniteSet(R), R \subseteq AnyRecord, NEW T \in SUBSET R
  PROVE  /\ RecordSum(R) \in Nat
         /\ RecordSum(T) <= RecordSum(R)
         /\ (\A r \in R \ T : r.balance = 0) => RecordSum(T) = RecordSum(R)
<1> DEFINE f == [r \in R |-> r.balance]
           g == [r \in T |-> r.balance]
           z == [r \in R |-> 0]
<1>1. \A r \in R : f[r] \in Nat
  BY DEF AnyRecord
<1>2. IsFiniteSet(T) /\ IsFiniteSet(R \ T)
  BY FS_Subset
<1>3. Summed(g, T) = Summed(f, T)
  <2>1. \A r \in T : g[r] \in Int /\ z[r] \in Int /\ f[r] = g[r] + z[r] /\ z[r] = 0
    BY <1>1
  <2> HIDE DEF f, g, z
  <2>2. Summed(f, T) = Summed(g, T) + Summed(z, T)
    BY <1>2, <2>1, SummedPlus
  <2>3. Summed(z, T) = 0
    BY <1>2, <2>1, SummedZero
  <2>4. Summed(g, T) \in Int
    BY <1>2, <2>1, SummedAdd
  <2> QED
    BY <2>2, <2>3, <2>4
<1> HIDE DEF f, g, z
<1>4. Summed(f, R) = Summed(f, T) + Summed(f, R \ T)
  <2>1. R \ T \in SUBSET R /\ T \cap (R \ T) = {} /\ T \cup (R \ T) = R
    OBVIOUS
  <2>2. \A r \in R : f[r] \in Int
    BY <1>1
  <2>3. Summed(f, T \cup (R \ T)) = Summed(f, T) + Summed(f, R \ T)
    BY <2>1, <2>2, SummedDisjoint
  <2> QED
    BY <2>1, <2>3, Zenon
<1>5. Summed(f, R) \in Nat /\ Summed(f, T) \in Nat /\ Summed(f, R \ T) \in Nat
  <2>1. \A r \in T : f[r] \in Nat
    BY <1>1
  <2>2. \A r \in R \ T : f[r] \in Nat
    BY <1>1
  <2> QED
    BY <1>1, <1>2, <2>1, <2>2, SummedNat
<1>6. Summed(f, T) <= Summed(f, R)
  BY <1>4, <1>5
<1>7. ASSUME \A r \in R \ T : r.balance = 0 PROVE Summed(f, T) = Summed(f, R)
  <2>1. \A r \in R \ T : f[r] = 0
    BY <1>7 DEF f
  <2>2. Summed(f, R \ T) = 0
    BY <1>2, <2>1, SummedZero
  <2> QED
    BY <1>4, <1>5, <2>2
<1> QED
  BY <1>3, <1>5, <1>6, <1>7 DEF RecordSum, f, g

\* A table with some of the records of another one.
LEMMA SomeRecords ==
  ASSUME NEW sp, NEW tp, TableOK(sp), TableOK(tp), HasRoom(sp), HasRoom(tp),
         Records(tp) \subseteq Records(sp)
  PROVE  /\ \A r \in Records(tp) : BalanceIn(tp, r.key) = BalanceIn(sp, r.key)
         /\ Total(tp) <= Total(sp) /\ Total(sp) \in Nat /\ Total(tp) \in Nat
         /\ (\A r \in Records(sp) \ Records(tp) : r.balance = 0) => Total(tp) = Total(sp)
         /\ Cardinality(Used(tp)) \in Nat /\ Cardinality(Used(sp)) \in Nat
         /\ Cardinality(Used(tp)) <= Cardinality(Used(sp))
<1>1. \A r \in Records(tp) : BalanceIn(tp, r.key) = BalanceIn(sp, r.key)
  BY BalanceByRecords
<1>2. /\ IsFiniteSet(Records(sp)) /\ Records(sp) \subseteq AnyRecord
      /\ Cardinality(Used(sp)) = Cardinality(Records(sp)) /\ Total(sp) = RecordSum(Records(sp))
      /\ IsFiniteSet(Records(tp)) /\ Records(tp) \subseteq AnyRecord
      /\ Cardinality(Used(tp)) = Cardinality(Records(tp)) /\ Total(tp) = RecordSum(Records(tp))
  BY CountedByRecords
<1>3. /\ RecordSum(Records(sp)) \in Nat /\ RecordSum(Records(tp)) <= RecordSum(Records(sp))
      /\ (\A r \in Records(sp) \ Records(tp) : r.balance = 0) =>
           RecordSum(Records(tp)) = RecordSum(Records(sp))
  BY <1>2, FewerRecords
<1>4. RecordSum(Records(tp)) \in Nat
  BY <1>2, FewerRecords
<1>5. Cardinality(Records(tp)) <= Cardinality(Records(sp))
  BY <1>2, FS_Subset
<1>6. Cardinality(Records(tp)) \in Nat /\ Cardinality(Records(sp)) \in Nat
  BY <1>2, FS_CardinalityType
<1> QED
  BY <1>1, <1>2, <1>3, <1>4, <1>5, <1>6

\* Reorganising changes no balance.
LEMMA ReorganizingKeeps ==
  ASSUME NEW sp, TableOK(sp), Cardinality(Used(sp)) < SpectrumCapacity,
         NEW tp, tp = Reorganized(sp)
  PROVE  /\ TableOK(tp)
         /\ Cardinality(Used(tp)) < SpectrumCapacity
         /\ Total(tp) = Total(sp)
         /\ \A k \in Entity : BalanceIn(tp, k) = BalanceIn(sp, k)
<1>1. /\ IsFiniteSet(Records(sp)) /\ Cardinality(Used(sp)) = Cardinality(Records(sp))
      /\ Records(sp) \subseteq AnyRecord
  BY CountedByRecords
<1>2. Holders(sp) \subseteq Records(sp)
  BY DEF Holders
<1>3. Cardinality(Holders(sp)) < SpectrumCapacity /\ Cardinality(Holders(sp)) \in Nat
  <2>1. Cardinality(Holders(sp)) <= Cardinality(Records(sp)) /\ IsFiniteSet(Holders(sp))
    BY <1>1, <1>2, FS_Subset
  <2>2. Cardinality(Holders(sp)) \in Nat /\ Cardinality(Records(sp)) \in Nat
    BY <1>1, <2>1, FS_CardinalityType
  <2> QED
    BY <1>1, <2>1, <2>2, SpectrumAssumption
<1>4. TableOK(tp) /\ Records(tp) = Holders(sp)
  BY <1>3, ReorganizedIs
<1>5. Cardinality(Used(tp)) < SpectrumCapacity
  BY <1>3, <1>4, CountedByRecords
<1>6. HasRoom(sp) /\ HasRoom(tp)
  BY <1>5, RoomCounted
<1>7. /\ \A r \in Records(tp) : BalanceIn(tp, r.key) = BalanceIn(sp, r.key)
      /\ (\A r \in Records(sp) \ Records(tp) : r.balance = 0) => Total(tp) = Total(sp)
  BY <1>2, <1>4, <1>6, SomeRecords
<1>8. \A r \in Records(sp) \ Records(tp) : r.balance = 0
  BY <1>1, <1>4 DEF Holders, AnyRecord
<1>9. ASSUME NEW k \in Entity PROVE BalanceIn(tp, k) = BalanceIn(sp, k)
  <2>1. CASE \E r \in Records(tp) : r.key = k
    BY <1>7, <2>1
  <2>2. CASE ~ \E r \in Records(tp) : r.key = k
    <3>1. BalanceIn(tp, k) = 0
      BY <1>4, <1>6, <2>2, BalanceByRecords
    <3>2. CASE \E r \in Records(sp) : r.key = k
      <4>1. PICK r \in Records(sp) : r.key = k
        BY <3>2
      <4>2. r.balance = 0
        BY <1>8, <2>2, <4>1
      <4>3. BalanceIn(sp, k) = 0
        BY <1>6, <4>1, <4>2, BalanceByRecords
      <4> QED
        BY <3>1, <4>3
    <3>3. CASE ~ \E r \in Records(sp) : r.key = k
      BY <1>6, <3>1, <3>3, BalanceByRecords
    <3> QED
      BY <3>2, <3>3
  <2> QED
    BY <2>1, <2>2
<1> QED
  BY <1>4, <1>5, <1>7, <1>8, <1>9

\* Burning dust changes no key.
LEMMA WithoutDustIs ==
  ASSUME NEW sp, TableOK(sp), Cardinality(Used(sp)) < SpectrumCapacity,
         NEW wp, wp = WithoutDust(sp)
  PROVE  /\ TableOK(wp)
         /\ Holders(wp) = {sp[i] : i \in Positive(sp) \ Dust(sp)}
<1>1. Dust(sp) \subseteq Positive(sp) /\ Positive(sp) \subseteq Place
  BY DustIs DEF Positive
<1>2. sp \in [Place -> AnyRecord]
  BY DEF TableOK, AnyRecord
<1>3. ASSUME NEW i \in Place
      PROVE  /\ wp[i] = IF i \in Dust(sp) THEN [sp[i] EXCEPT !.balance = 0] ELSE sp[i]
             /\ wp[i] \in AnyRecord /\ wp[i].key = sp[i].key
             /\ wp[i].balance = IF i \in Dust(sp) THEN 0 ELSE sp[i].balance
  <2>1. wp[i] = IF i \in Dust(sp) THEN [sp[i] EXCEPT !.balance = 0] ELSE sp[i]
    BY DEF WithoutDust
  <2>2. sp[i] \in AnyRecord
    BY <1>2
  <2> QED
    BY <2>1, <2>2 DEF AnyRecord
<1>4. wp \in [Place -> AnyRecord]
  <2>1. wp = [i \in Place |-> wp[i]]
    BY DEF WithoutDust
  <2> QED
    BY <1>3, <2>1
<1>5. Used(wp) = Used(sp)
  BY <1>3 DEF Used
<1>6. TableOK(wp)
  <2>1. \A i \in Place : wp[i].key = NoEntity => wp[i].balance = 0
    <3>1. \A i \in Place : sp[i].key = NoEntity => sp[i].balance = 0
      BY DEF TableOK
    <3> QED
      BY <1>3, <3>1
  <2>2. ASSUME NEW i \in Used(wp) PROVE PlaceOf(wp, wp[i].key) = i
    <3>1. i \in Place /\ i \in Used(sp) /\ sp[i].key \in Entity
      BY <1>5, FoundOnce
    <3>2. PlaceOf(sp, sp[i].key) = i
      BY <3>1 DEF TableOK
    <3>3. \A j \in Place : sp[j].key = wp[j].key
      BY <1>3
    <3>4. PlaceOf(sp, sp[i].key) = PlaceOf(wp, sp[i].key)
      BY <3>1, <3>3, PlaceByKeys
    <3>5. wp[i].key = sp[i].key
      BY <1>3, <3>1
    <3> QED
      BY <3>2, <3>4, <3>5
  <2> QED
    BY <1>4, <2>1, <2>2 DEF TableOK, AnyRecord
<1>7. Holders(wp) = {sp[i] : i \in Positive(sp) \ Dust(sp)}
  <2>1. ASSUME NEW r \in Holders(wp) PROVE \E i \in Positive(sp) \ Dust(sp) : r = sp[i]
    <3>1. PICK i \in Used(wp) : r = wp[i]
      BY DEF Holders, Records
    <3>2. i \in Place /\ r.balance > 0
      BY DEF Holders, Used
    <3>3. wp[i].balance = IF i \in Dust(sp) THEN 0 ELSE sp[i].balance
      BY <1>3, <3>2
    <3>4. i \notin Dust(sp)
      BY <3>1, <3>2, <3>3
    <3>5. wp[i] = sp[i]
      BY <1>3, <3>2, <3>4
    <3> QED
      BY <3>1, <3>2, <3>4, <3>5 DEF Positive
  <2>2. ASSUME NEW i \in Positive(sp) \ Dust(sp) PROVE sp[i] \in Holders(wp)
    <3>1. i \in Place /\ sp[i].balance > 0 /\ wp[i] = sp[i]
      BY <1>3 DEF Positive
    <3>2. sp[i].key # NoEntity
      BY <3>1 DEF TableOK
    <3>3. i \in Used(wp)
      BY <3>1, <3>2 DEF Used
    <3> QED
      BY <3>1, <3>3 DEF Holders, Records
  <2> QED
    BY <2>1, <2>2
<1> QED
  BY <1>6, <1>7

\* The keys of some used slots are as many.
KeysOf(sp, T) == {sp[i].key : i \in T}

\* There are as many entities in some used slots as slots.
LEMMA KeysCounted ==
  ASSUME NEW sp, TableOK(sp), NEW T \in SUBSET Used(sp)
  PROVE  /\ IsFiniteSet(T)
         /\ Cardinality(KeysOf(sp, T)) = Cardinality(T)
         /\ KeysOf(sp, T) \subseteq Entity
<1> DEFINE h == [i \in T |-> sp[i].key]
<1>1. IsFiniteSet(T) /\ \A i, j \in T : sp[i].key = sp[j].key => i = j
  BY FoundOnce, FS_Subset
<1>2. /\ h \in [T -> KeysOf(sp, T)]
      /\ \A k \in KeysOf(sp, T) : \E i \in T : h[i] = k
      /\ \A i, j \in T : h[i] = h[j] => i = j
  BY <1>1 DEF KeysOf
<1>3. ExistsBijection(T, KeysOf(sp, T))
  <2> HIDE DEF h
  <2> QED
    BY <1>2 DEF ExistsBijection, Bijection, Injection, Surjection, IsInjective
<1>4. Cardinality(KeysOf(sp, T)) = Cardinality(T)
  BY <1>1, <1>3, FS_Bijection
<1>5. KeysOf(sp, T) \subseteq Entity
  BY FoundOnce DEF KeysOf
<1> QED
  BY <1>1, <1>4, <1>5


\* Sweeping burns the dust, changes no other balance and leaves less than half of the table used.
LEMMA SweptIs ==
  ASSUME NEW sp, TableOK(sp), Cardinality(Used(sp)) < SpectrumCapacity,
         NEW tp, tp = Reorganized(WithoutDust(sp))
  PROVE  /\ TableOK(tp)
         /\ Cardinality(Used(tp)) < Half /\ Cardinality(Used(tp)) \in Nat
         /\ Total(tp) <= Total(sp) /\ Total(sp) \in Nat /\ Total(tp) \in Nat
         /\ \A k \in Entity : BalanceIn(tp, k) = IF k \in KeysOf(sp, Dust(sp)) THEN 0
                                                 ELSE BalanceIn(sp, k)
<1> DEFINE wp == WithoutDust(sp)
           kept == Positive(sp) \ Dust(sp)
<1>1. TableOK(wp) /\ Holders(wp) = {sp[i] : i \in kept}
  BY WithoutDustIs
<1> HIDE DEF wp
<1>2. /\ Dust(sp) \subseteq Positive(sp) /\ IsFiniteSet(Positive(sp)) /\ Cardinality(kept) < Half
  BY DustIs
<1>3. Positive(sp) \subseteq Used(sp)
  <2>1. \A i \in Place : sp[i].key = NoEntity => sp[i].balance = 0
    BY DEF TableOK
  <2> QED
    BY <2>1 DEF Positive, Used
<1>4. kept \in SUBSET Used(sp)
  BY <1>3
<1>5. Cardinality(Holders(wp)) = Cardinality(kept) /\ IsFiniteSet(kept) /\ Cardinality(kept) \in Nat
  <2> HIDE DEF kept
  <2>1. IsFiniteSet(kept) /\ Cardinality(kept) \in Nat
    BY <1>4, KeysCounted, FS_CardinalityType
  <2> DEFINE h == [i \in kept |-> sp[i]]
             all == {sp[i] : i \in kept}
  <2>2. /\ h \in [kept -> all]
        /\ \A r \in all : \E i \in kept : h[i] = r
        /\ \A i, j \in kept : h[i] = h[j] => i = j
    <3>1. \A i, j \in kept : sp[i] = sp[j] => i = j
      BY <1>4, FoundOnce
    <3> QED
      BY <3>1
  <2>3. ExistsBijection(kept, all)
    <3> HIDE DEF h, all
    <3> QED
      BY <2>2 DEF ExistsBijection, Bijection, Injection, Surjection, IsInjective
  <2>4. Cardinality(all) = Cardinality(kept)
    <3> HIDE DEF all
    <3> QED
      BY <2>1, <2>3, FS_Bijection
  <2> QED
    BY <1>1, <2>1, <2>4
<1>6. Cardinality(Holders(wp)) < SpectrumCapacity
  BY <1>2, <1>5, HalfIs
<1>7. TableOK(tp) /\ Records(tp) = {sp[i] : i \in kept}
  BY <1>1, <1>6, ReorganizedIs DEF wp
<1>8. Cardinality(Used(tp)) < Half /\ Cardinality(Used(tp)) \in Nat
  BY <1>1, <1>2, <1>5, <1>7, CountedByRecords
<1>9. HasRoom(sp) /\ HasRoom(tp)
  <2>1. Cardinality(Used(tp)) < SpectrumCapacity
    BY <1>8, HalfIs
  <2> QED
    BY <2>1, RoomCounted
<1>10. Records(tp) \subseteq Records(sp)
  BY <1>4, <1>7 DEF Records
<1>11. /\ \A r \in Records(tp) : BalanceIn(tp, r.key) = BalanceIn(sp, r.key)
       /\ Total(tp) <= Total(sp) /\ Total(sp) \in Nat /\ Total(tp) \in Nat
  BY <1>7, <1>9, <1>10, SomeRecords
<1>12. ASSUME NEW k \in Entity
       PROVE  BalanceIn(tp, k) = IF k \in KeysOf(sp, Dust(sp)) THEN 0 ELSE BalanceIn(sp, k)
  <2>1. ASSUME NEW r \in Records(tp), r.key = k PROVE k \notin KeysOf(sp, Dust(sp))
    <3>1. PICK i \in kept : r = sp[i]
      BY <1>7
    <3>2. ASSUME NEW j \in Dust(sp), sp[j].key = k PROVE FALSE
      <4>1. i \in Used(sp) /\ j \in Used(sp) /\ i # j
        BY <1>2, <1>3
      <4> QED
        BY <2>1, <3>1, <3>2, <4>1, FoundOnce
    <3> QED
      BY <3>2 DEF KeysOf
  <2>2. CASE \E r \in Records(tp) : r.key = k
    BY <1>11, <2>1, <2>2
  <2>3. CASE ~ \E r \in Records(tp) : r.key = k
    <3>1. BalanceIn(tp, k) = 0
      BY <1>7, <1>9, <2>3, BalanceByRecords
    <3>2. ASSUME k \notin KeysOf(sp, Dust(sp)), BalanceIn(sp, k) # 0 PROVE FALSE
      <4>1. PICK r \in Records(sp) : r.key = k
        BY <1>9, <3>2, BalanceByRecords
      <4>2. r.balance # 0
        BY <1>9, <3>2, <4>1, BalanceByRecords
      <4>3. PICK i \in Used(sp) : r = sp[i]
        BY DEF Records
      <4>4. i \in Place /\ sp[i].balance \in Nat
        BY DEF TableOK, Used
      <4>5. i \in Positive(sp)
        BY <4>2, <4>3, <4>4 DEF Positive
      <4>6. i \notin Dust(sp)
        BY <3>2, <4>1, <4>3 DEF KeysOf
      <4> QED
        BY <1>7, <2>3, <4>1, <4>3, <4>5, <4>6
    <3> QED
      BY <3>1, <3>2
  <2> QED
    BY <2>2, <2>3
<1> QED
  BY <1>7, <1>8, <1>11, <1>12

\* The ledger counts as the table does.
LEMMA SameCount ==
  ASSUME NEW S
  PROVE  Accounts!Cardinality(S) = Cardinality(S)
BY DEF Accounts!Cardinality, Cardinality

\* Ledger compares balances by the categories of the spectrum.
LEMMA SameMagnitude ==
  ASSUME NEW b
  PROVE  Accounts!Magnitude(b) = CategoryOf(b)
BY SameCount DEF Accounts!Magnitude, CategoryOf

\* The ledger allows that the dust is burned.
LEMMA DustMayBurn ==
  ASSUME NEW sp, TableOK(sp), Cardinality(Used(sp)) < SpectrumCapacity,
         NEW b, b = [k \in Entity |-> BalanceIn(sp, k)]
  PROVE  Accounts!MayBurn(b, KeysOf(sp, Dust(sp)))
<1> DEFINE holders == {k \in Entity : b[k] > 0}
           dust == KeysOf(sp, Dust(sp))
<1>1. /\ Dust(sp) \subseteq Positive(sp)
      /\ Cardinality(Positive(sp) \ Dust(sp)) < Half
      /\ Dust(sp) # {} => Cardinality(Positive(sp)) >= Half
      /\ \A d \in Dust(sp), i \in Positive(sp) \ Dust(sp) : Category(sp, d) <= Category(sp, i)
  BY DustIs
<1>2. Positive(sp) \subseteq Used(sp)
  <2>1. \A i \in Place : sp[i].key = NoEntity => sp[i].balance = 0
    BY DEF TableOK
  <2> QED
    BY <2>1 DEF Positive, Used
<1>3. HasRoom(sp)
  BY RoomCounted
<1>4. ASSUME NEW i \in Used(sp) PROVE sp[i].key \in Entity /\ b[sp[i].key] = sp[i].balance
  BY <1>3, BalanceByRecords DEF Records
<1>5. holders = KeysOf(sp, Positive(sp))
  <2>1. ASSUME NEW k \in holders PROVE k \in KeysOf(sp, Positive(sp))
    <3>1. k \in Entity /\ BalanceIn(sp, k) > 0
      OBVIOUS
    <3>2. PICK r \in Records(sp) : r.key = k
      BY <1>3, <3>1, BalanceByRecords
    <3>3. r.balance > 0
      BY <1>3, <3>1, <3>2, BalanceByRecords
    <3>4. PICK i \in Used(sp) : r = sp[i]
      BY DEF Records
    <3> QED
      BY <3>2, <3>3, <3>4 DEF KeysOf, Positive, Used
  <2>2. ASSUME NEW i \in Positive(sp) PROVE sp[i].key \in holders
    BY <1>2, <1>4 DEF Positive
  <2> HIDE DEF holders
  <2> QED
    BY <2>1, <2>2 DEF KeysOf
<1>6. holders \ dust = KeysOf(sp, Positive(sp) \ Dust(sp))
  <2>1. \A i, j \in Positive(sp) : sp[i].key = sp[j].key => i = j
    BY <1>2, FoundOnce
  <2> HIDE DEF holders
  <2> QED
    BY <1>1, <1>5, <2>1 DEF KeysOf
<1>7. /\ Cardinality(holders) = Cardinality(Positive(sp))
      /\ Cardinality(holders \ dust) = Cardinality(Positive(sp) \ Dust(sp))
  <2> HIDE DEF holders, dust
  <2>1. Positive(sp) \in SUBSET Used(sp) /\ Positive(sp) \ Dust(sp) \in SUBSET Used(sp)
    BY <1>2
  <2> QED
    BY <1>5, <1>6, <2>1, KeysCounted
<1>8. dust \subseteq holders
  BY <1>1, <1>5 DEF KeysOf
<1>9. ASSUME NEW d \in dust, NEW k \in holders \ dust
      PROVE Accounts!Magnitude(b[d]) <= Accounts!Magnitude(b[k])
  <2>1. PICK i \in Dust(sp) : d = sp[i].key
    BY DEF KeysOf
  <2>2. PICK j \in Positive(sp) \ Dust(sp) : k = sp[j].key
    <3> HIDE DEF holders, dust
    <3> QED
      BY <1>6 DEF KeysOf
  <2>3. b[d] = sp[i].balance /\ b[k] = sp[j].balance
    BY <1>1, <1>2, <1>4, <2>1, <2>2
  <2>4. Category(sp, i) <= Category(sp, j)
    BY <1>1
  <2> QED
    BY <2>3, <2>4, SameMagnitude DEF Category
<1>10. dust = {} \/ Dust(sp) # {}
  BY DEF KeysOf
<1>11. Accounts!MayBurn(b, dust) <=>
         /\ dust \subseteq holders
         /\ dust = {} \/ /\ Accounts!Cardinality(holders) >= Half
                         /\ Accounts!Cardinality(holders \ dust) < Half
                         /\ \A d \in dust, k \in holders \ dust :
                              Accounts!Magnitude(b[d]) <= Accounts!Magnitude(b[k])
  <2> HIDE DEF dust
  <2> QED
    BY DEF Accounts!MayBurn, Half
<1> HIDE DEF holders, dust
<1>12. Accounts!MayBurn(b, dust)
  BY <1>1, <1>7, <1>8, <1>9, <1>10, <1>11, SameCount
<1> QED
  BY <1>12 DEF dust

-----------------------------------------------------------------------------
(* Credits and debits.                                                     *)

CreditedTo(sp, k, a, tp) ==
  tp = [sp EXCEPT ![PlaceOf(sp, k)] = [key |-> k, balance |-> sp[PlaceOf(sp, k)].balance + a]]

DebitedAt(sp, i, a, tp) == tp = [sp EXCEPT ![i].balance = @ - a]

\* Something is credited to k, which may enter the table.
LEMMA Credited ==
  ASSUME NEW sp, TableOK(sp), Cardinality(Used(sp)) + 1 < SpectrumCapacity,
         NEW k \in Entity, NEW a \in Nat, NEW tp, CreditedTo(sp, k, a, tp)
  PROVE  /\ TableOK(tp)
         /\ Cardinality(Used(tp)) = Cardinality(Used(sp))
                                       + (IF sp[PlaceOf(sp, k)].key = k THEN 0 ELSE 1)
         /\ Cardinality(Used(tp)) < SpectrumCapacity
         /\ Total(sp) \in Int /\ Total(tp) = Total(sp) + a
         /\ \A j \in Entity : BalanceIn(tp, j) = BalanceIn(sp, j) + (IF j = k THEN a ELSE 0)
         /\ \A j \in Used(sp) : tp[j].key = sp[j].key
<1> DEFINE i == PlaceOf(sp, k)
           e == [key |-> k, balance |-> sp[i].balance + a]
<1>1. Cardinality(Used(sp)) \in Nat
  BY FoundOnce, FS_CardinalityType
<1>2. HasRoom(sp)
  BY <1>1, RoomCounted, SpectrumAssumption
<1>3. /\ i \in Place /\ sp[i].key \in {k, NoEntity}
      /\ \A j \in Place : sp[j].key = k => j = i
  BY <1>2, SlotOf
<1>4. sp \in [Place -> AnyRecord]
  BY DEF TableOK, AnyRecord
<1>5. e \in AnyRecord /\ e.key = k /\ e.balance = sp[i].balance + a /\ sp[i].balance \in Nat
  BY <1>3, <1>4 DEF AnyRecord
<1>6. tp \in [Place -> AnyRecord] /\ tp[i] = e /\ \A j \in Place \ {i} : tp[j] = sp[j]
  <2>1. tp = [sp EXCEPT ![i] = e]
    BY DEF CreditedTo
  <2> HIDE DEF e, i
  <2> QED
    BY <1>3, <1>4, <1>5, <2>1
<1>7. TableOK(tp)
  <2>1. tp = [sp EXCEPT ![PlaceOf(sp, k)] = e]
    BY DEF CreditedTo
  <2> HIDE DEF e, i
  <2> QED
    BY <1>2, <1>5, <2>1, StoredOK
<1> HIDE DEF e, i
<1>8. /\ Cardinality(Used(tp)) = Cardinality(Used(sp)) + (IF sp[i].key = k THEN 0 ELSE 1)
      /\ Total(sp) \in Int
      /\ Total(tp) = Total(sp) + (e.balance - sp[i].balance)
      /\ Records(tp) = {r \in Records(sp) : r.key # k} \cup {e}
  BY <1>3, <1>5, <1>6, StoredCounts
<1>9. Cardinality(Used(tp)) < SpectrumCapacity
  BY <1>1, <1>8, SpectrumAssumption
<1>10. Total(tp) = Total(sp) + a
  BY <1>5, <1>8
<1>11. HasRoom(tp)
  BY <1>9, RoomCounted
<1>12. ASSUME NEW j \in Entity
       PROVE  BalanceIn(tp, j) = BalanceIn(sp, j) + (IF j = k THEN a ELSE 0)
  <2>1. CASE j = k
    <3>1. BalanceIn(tp, k) = e.balance
      <4>1. e \in Records(tp)
        BY <1>8
      <4> QED
        BY <1>5, <1>7, <1>11, <4>1, BalanceByRecords
    <3>2. BalanceIn(sp, k) = sp[i].balance
      <4>1. sp[i].key # k => sp[i].balance = 0
        BY <1>3 DEF TableOK
      <4> QED
        BY <4>1 DEF BalanceIn, i
    <3> QED
      BY <1>5, <2>1, <3>1, <3>2
  <2>2. CASE j # k
    <3>1. BalanceIn(tp, j) = BalanceIn(sp, j) /\ BalanceIn(sp, j) \in Int
      <4>1. CASE \E r \in Records(sp) : r.key = j
        <5>1. PICK r \in Records(sp) : r.key = j
          BY <4>1
        <5>2. r \in Records(tp) /\ r.balance \in Int
          BY <1>8, <2>2, <5>1, CountedByRecords DEF AnyRecord
        <5> QED
          BY <1>2, <1>7, <1>11, <5>1, <5>2, BalanceByRecords
      <4>2. CASE ~ \E r \in Records(sp) : r.key = j
        <5>1. \A r \in Records(tp) : r.key # j
          BY <1>5, <1>8, <2>2, <4>2
        <5> QED
          BY <1>2, <1>7, <1>11, <4>2, <5>1, BalanceByRecords
      <4> QED
        BY <4>1, <4>2
    <3> QED
      BY <2>2, <3>1
  <2> QED
    BY <2>1, <2>2
<1>13. ASSUME NEW j \in Used(sp) PROVE tp[j].key = sp[j].key
  <2>1. j \in Place /\ sp[j].key # NoEntity
    BY DEF Used
  <2> QED
    BY <1>3, <1>5, <1>6, <2>1
<1> QED
  BY <1>7, <1>8, <1>9, <1>10, <1>12, <1>13 DEF i

\* Something is debited from the entity in a slot.
LEMMA Debited ==
  ASSUME NEW sp, TableOK(sp), Cardinality(Used(sp)) < SpectrumCapacity,
         NEW i \in Place, NEW a \in Nat, a <= sp[i].balance,
         NEW tp, DebitedAt(sp, i, a, tp)
  PROVE  /\ TableOK(tp)
         /\ Used(tp) = Used(sp)
         /\ Total(sp) \in Nat /\ a <= Total(sp) /\ Total(tp) = Total(sp) - a
         /\ \A j \in Entity : BalanceIn(tp, j) = BalanceIn(sp, j) - (IF j = sp[i].key THEN a ELSE 0)
         /\ \A j \in Place : tp[j].key = sp[j].key
<1>1. sp \in [Place -> AnyRecord]
  BY DEF TableOK, AnyRecord
<1>2. /\ tp \in [Place -> AnyRecord]
      /\ tp[i].key = sp[i].key /\ tp[i].balance = sp[i].balance - a
      /\ \A j \in Place \ {i} : tp[j] = sp[j]
      /\ sp[i].balance \in Nat
  <2>1. sp[i] \in AnyRecord
    BY <1>1
  <2> DEFINE e == [sp[i] EXCEPT !.balance = @ - a]
  <2>2. e \in AnyRecord /\ e.key = sp[i].key /\ e.balance = sp[i].balance - a
    BY <2>1 DEF AnyRecord
  <2>3. tp = [sp EXCEPT ![i] = e]
    BY DEF DebitedAt
  <2>4. sp[i].balance \in Nat
    BY <2>1 DEF AnyRecord
  <2> HIDE DEF e
  <2> QED
    BY <1>1, <2>2, <2>3, <2>4
<1>3. \A j \in Place : tp[j].key = sp[j].key
  BY <1>2
<1>4. Used(tp) = Used(sp)
  BY <1>3 DEF Used
<1>5. TableOK(tp)
  <2>1. \A j \in Place : tp[j].key = NoEntity => tp[j].balance = 0
    <3> SUFFICES ASSUME NEW j \in Place, tp[j].key = NoEntity PROVE tp[j].balance = 0
      OBVIOUS
    <3>1. sp[j].balance = 0
      BY <1>3 DEF TableOK
    <3>2. CASE j = i
      BY <1>2, <3>1, <3>2
    <3>3. CASE j # i
      BY <1>2, <3>1, <3>3
    <3> QED
      BY <3>2, <3>3
  <2>2. ASSUME NEW j \in Used(tp) PROVE PlaceOf(tp, tp[j].key) = j
    <3>1. j \in Place /\ j \in Used(sp) /\ sp[j].key \in Entity
      BY <1>4, FoundOnce
    <3>2. PlaceOf(sp, sp[j].key) = j
      BY <3>1 DEF TableOK
    <3>3. PlaceOf(sp, sp[j].key) = PlaceOf(tp, sp[j].key)
      BY <1>3, <3>1, PlaceByKeys
    <3> QED
      BY <1>3, <3>1, <3>2, <3>3
  <2> QED
    BY <1>2, <2>1, <2>2 DEF TableOK, AnyRecord
<1>6. Total(sp) \in Nat /\ a <= Total(sp) /\ Total(tp) = Total(sp) - a
  <2> DEFINE f == [j \in Place |-> sp[j].balance]
             g == [j \in Place |-> tp[j].balance]
  <2>1. /\ \A j \in Place : f[j] \in Nat
        /\ g[i] \in Int /\ \A j \in Place \ {i} : g[j] = f[j]
        /\ f[i] = sp[i].balance /\ g[i] = f[i] - a
    BY <1>1, <1>2 DEF AnyRecord
  <2> HIDE DEF f, g
  <2>2. Summed(g, Place) = Summed(f, Place) + (g[i] - f[i])
    BY <2>1, OneSlotChanges
  <2>3. Summed(f, Place) \in Nat /\ f[i] <= Summed(f, Place)
    BY <2>1, FoundOnce, SummedNat
  <2>4. Summed(g, Place) = Summed(f, Place) - a /\ a <= Summed(f, Place)
    BY <2>1, <2>2, <2>3
  <2> QED
    BY <2>3, <2>4 DEF Total, f, g
<1>7. ASSUME NEW j \in Entity
      PROVE  BalanceIn(tp, j) = BalanceIn(sp, j) - (IF j = sp[i].key THEN a ELSE 0)
  <2> DEFINE p == PlaceOf(sp, j)
  <2>1. HasRoom(sp)
    BY RoomCounted
  <2>2. /\ p \in Place /\ sp[p].key \in {j, NoEntity}
        /\ \A l \in Place : sp[l].key = j => p = l
    BY <2>1, SlotOf
  <2>3. PlaceOf(tp, j) = p
    BY <1>3, PlaceByKeys
  <2>4. /\ BalanceIn(sp, j) = IF sp[p].key = j THEN sp[p].balance ELSE 0
        /\ BalanceIn(tp, j) = IF tp[p].key = j THEN tp[p].balance ELSE 0
    <3>1. BalanceIn(tp, j) = IF tp[PlaceOf(tp, j)].key = j THEN tp[PlaceOf(tp, j)].balance ELSE 0
      BY DEF BalanceIn
    <3> QED
      BY <2>3, <3>1 DEF BalanceIn
  <2> HIDE DEF p
  <2>5. sp[p].balance \in Nat
    BY <1>1, <2>2 DEF AnyRecord
  <2>6. CASE j = sp[i].key
    <3>1. p = i
      BY <2>2, <2>6
    <3> QED
      BY <1>2, <2>4, <2>6, <3>1
  <2>7. CASE j # sp[i].key
    <3>1. CASE p = i
      BY <1>2, <2>4, <2>7, <3>1
    <3>2. CASE p # i
      BY <1>2, <2>2, <2>4, <2>5, <2>7, <3>2
    <3> QED
      BY <3>1, <3>2
  <2> QED
    BY <2>6, <2>7
<1> QED
  BY <1>3, <1>4, <1>5, <1>6, <1>7

-----------------------------------------------------------------------------
(* The table of the state.                                                 *)

TableHolds == TableOK(spectrum) /\ SpectrumCounted

TotalNow == spectrumInfo.totalAmount

\* What the balances and the totals of the state are.
BalancesKnown ==
  /\ Balances = [k \in Entity |-> BalanceIn(spectrum, k)]
  /\ TotalNow = Total(spectrum)
  /\ spectrumInfo = [numberOfEntities |-> Cardinality(Used(spectrum)), totalAmount |-> TotalNow]
  /\ spectrumInfo.numberOfEntities = Cardinality(Used(spectrum))
  /\ Cardinality(Used(spectrum)) \in Nat
  /\ Cardinality(Used(spectrum)) < SpectrumCapacity
  /\ \A k \in Entity : /\ PlaceOf(spectrum, k) \in Place
                       /\ SpectrumIndex(k) >= 0 => /\ SpectrumIndex(k) \in Place
                                                   /\ spectrum[SpectrumIndex(k)].key = k

\* updateSpectrumInfo counts the used slots and sums their balances.
LEMMA InfoIs ==
  ASSUME NEW sp
  PROVE  /\ InfoOf(sp).numberOfEntities = Cardinality(Used(sp))
         /\ InfoOf(sp).totalAmount = Total(sp)
         /\ InfoOf(sp) = [numberOfEntities |-> Cardinality(Used(sp)), totalAmount |-> Total(sp)]
BY DEF InfoOf, Total, SumOver, Summed

\* What a consistent table says of balances, totals and indices, now and after a step.
LEMMA BalancesAre == TableHolds => BalancesKnown
<1> SUFFICES ASSUME TableHolds PROVE BalancesKnown
  OBVIOUS
<1>1. TableOK(spectrum) /\ spectrumInfo = InfoOf(spectrum)
      /\ spectrumInfo.numberOfEntities < SpectrumCapacity
  BY DEF TableHolds, SpectrumCounted
<1>2. spectrumInfo.numberOfEntities = Cardinality(Used(spectrum)) /\ TotalNow = Total(spectrum)
  BY <1>1, InfoIs DEF TotalNow
<1>3. Cardinality(Used(spectrum)) \in Nat
  BY <1>1, FoundOnce, FS_CardinalityType
<1>4. HasRoom(spectrum)
  BY <1>1, <1>2, RoomCounted
<1>5. ASSUME NEW k \in Entity
      PROVE  /\ PlaceOf(spectrum, k) \in Place
             /\ SpectrumIndex(k) >= 0 => /\ SpectrumIndex(k) \in Place
                                         /\ spectrum[SpectrumIndex(k)].key = k
             /\ BalanceOf(k) = BalanceIn(spectrum, k)
  <2>1. PlaceOf(spectrum, k) \in Place
    BY <1>1, <1>4, SlotOf
  <2>2. PlaceOf(spectrum, k) >= 0 /\ PlaceOf(spectrum, k) # -1
    BY <2>1, SpectrumAssumption DEF Place
  <2> QED
    BY <2>1, <2>2 DEF SpectrumIndex, BalanceOf, BalanceIn
<1>6. spectrumInfo = [numberOfEntities |-> Cardinality(Used(spectrum)), totalAmount |-> TotalNow]
  BY <1>1, <1>2, InfoIs
<1> QED
  BY <1>1, <1>2, <1>3, <1>5, <1>6 DEF Balances, BalancesKnown

\* The same after a step.
LEMMA BalancesAreNext == TableHolds' => BalancesKnown'
BY BalancesAre, PTL

\* What decreaseEnergy does to the table.
LEMMA DebitIs ==
  ASSUME TableHolds, NEW i \in Place, NEW a \in Nat, a <= spectrum[i].balance,
         DecreaseEnergy(i, a)
  PROVE  /\ TableHolds'
         /\ TotalNow \in Nat /\ a <= TotalNow /\ TotalNow' = TotalNow - a
         /\ Balances' = [k \in Entity |-> Balances[k] - (IF k = spectrum[i].key THEN a ELSE 0)]
         /\ \A j \in Place : spectrum'[j].key = spectrum[j].key
         /\ spectrumInfo'.numberOfEntities = spectrumInfo.numberOfEntities
<1>1. /\ TableOK(spectrum) /\ BalancesKnown
  BY BalancesAre DEF TableHolds
<1>2. /\ DebitedAt(spectrum, i, a, spectrum')
      /\ spectrumInfo' = [spectrumInfo EXCEPT !.totalAmount = @ - a]
  BY DEF DecreaseEnergy, DebitedAt
<1>3. /\ TableOK(spectrum') /\ Used(spectrum') = Used(spectrum)
      /\ Total(spectrum) \in Nat /\ a <= Total(spectrum)
      /\ Total(spectrum') = Total(spectrum) - a
      /\ \A j \in Entity : BalanceIn(spectrum', j)
                             = BalanceIn(spectrum, j) - (IF j = spectrum[i].key THEN a ELSE 0)
      /\ \A j \in Place : spectrum'[j].key = spectrum[j].key
  BY <1>1, <1>2, Debited DEF BalancesKnown
<1>4. /\ spectrumInfo' = [numberOfEntities |-> Cardinality(Used(spectrum)),
                          totalAmount |-> TotalNow - a]
      /\ TotalNow = Total(spectrum)
  BY <1>1, <1>2 DEF BalancesKnown, TotalNow
<1>5. spectrumInfo' = InfoOf(spectrum')
  BY <1>3, <1>4, InfoIs
<1>6. TotalNow' = TotalNow - a /\ spectrumInfo'.numberOfEntities = spectrumInfo.numberOfEntities
  BY <1>1, <1>4 DEF TotalNow, BalancesKnown
<1>7. TableHolds'
  <2>1. spectrumInfo'.numberOfEntities < SpectrumCapacity
    BY <1>1, <1>6 DEF BalancesKnown
  <2> QED
    BY <1>3, <1>5, <2>1 DEF TableHolds, SpectrumCounted
<1>8. BalancesKnown'
  BY <1>7, BalancesAreNext
<1>9. Balances' = [k \in Entity |-> Balances[k] - (IF k = spectrum[i].key THEN a ELSE 0)]
  BY <1>1, <1>3, <1>8 DEF BalancesKnown
<1> QED
  BY <1>3, <1>4, <1>6, <1>7, <1>9

\* What increaseEnergy does to the table: it may burn dust before.
LEMMA CreditIs ==
  ASSUME TableHolds, NEW k \in Entity, NEW a \in Nat, IncreaseEnergy(k, a)
  PROVE  /\ TableHolds'
         /\ TotalNow \in Nat /\ TotalNow' \in Nat /\ TotalNow' <= TotalNow + a
         /\ \E D \in SUBSET Entity :
              /\ Accounts!MayBurn(Balances, D)
              /\ Balances' = [j \in Entity |-> (IF j \in D THEN 0 ELSE Balances[j])
                                                 + (IF j = k THEN a ELSE 0)]
         /\ ~Full => \A j \in Used(spectrum) : spectrum'[j].key = spectrum[j].key
<1>1. /\ TableOK(spectrum) /\ BalancesKnown
  BY BalancesAre DEF TableHolds
<1> DEFINE sp == IF Full THEN Reorganized(WithoutDust(spectrum)) ELSE spectrum
           i == PlaceOf(sp, k)
           D == IF Full THEN KeysOf(spectrum, Dust(spectrum)) ELSE {}
<1>2. /\ CreditedTo(sp, k, a, spectrum')
      /\ spectrumInfo' =
           [numberOfEntities |-> (IF Full THEN InfoOf(sp) ELSE spectrumInfo).numberOfEntities
                                   + (IF sp[i].key = k THEN 0 ELSE 1),
            totalAmount |-> (IF Full THEN InfoOf(sp) ELSE spectrumInfo).totalAmount + a]
  BY DEF IncreaseEnergy, CreditedTo
<1>3. /\ TableOK(sp) /\ Cardinality(Used(sp)) + 1 < SpectrumCapacity
      /\ Total(sp) <= Total(spectrum) /\ Total(spectrum) \in Nat /\ Total(sp) \in Nat
      /\ \A j \in Entity : BalanceIn(sp, j) = IF j \in D THEN 0 ELSE BalanceIn(spectrum, j)
      /\ (IF Full THEN InfoOf(sp) ELSE spectrumInfo).numberOfEntities = Cardinality(Used(sp))
      /\ (IF Full THEN InfoOf(sp) ELSE spectrumInfo).totalAmount = Total(sp)
  <2>1. CASE Full
    <3>1. sp = Reorganized(WithoutDust(spectrum)) /\ D = KeysOf(spectrum, Dust(spectrum))
      BY <2>1
    <3> HIDE DEF sp, D
    <3>2. /\ TableOK(sp)
          /\ Cardinality(Used(sp)) < Half /\ Cardinality(Used(sp)) \in Nat
          /\ Total(sp) <= Total(spectrum) /\ Total(spectrum) \in Nat /\ Total(sp) \in Nat
          /\ \A j \in Entity : BalanceIn(sp, j) = IF j \in KeysOf(spectrum, Dust(spectrum)) THEN 0
                                                  ELSE BalanceIn(spectrum, j)
      BY <1>1, <3>1, SweptIs DEF BalancesKnown
    <3>3. Cardinality(Used(sp)) + 1 < SpectrumCapacity
      BY <3>2, HalfIs
    <3> QED
      BY <2>1, <3>1, <3>2, <3>3, InfoIs
  <2>2. CASE ~Full
    <3>1. sp = spectrum /\ D = {}
      BY <2>2
    <3>2. Total(spectrum) \in Nat
      <4>1. IsFiniteSet(Records(spectrum)) /\ Records(spectrum) \subseteq AnyRecord
            /\ Total(spectrum) = RecordSum(Records(spectrum))
        BY <1>1, CountedByRecords
      <4> QED
        BY <4>1, FewerRecords
    <3>3. Cardinality(Used(spectrum)) + 1 < SpectrumCapacity
      <4>1. ~(Cardinality(Used(spectrum)) >= Half + SpectrumCapacity \div 4)
        BY <1>1, <2>2 DEF Full, Half, BalancesKnown
      <4>2. \A c, h \in Nat : c > 0 /\ 2 * h = c => h + c \div 4 < c
        OBVIOUS
      <4>3. Half + SpectrumCapacity \div 4 < SpectrumCapacity /\ SpectrumCapacity \div 4 \in Nat
        BY <4>2, HalfIs, SpectrumAssumption
      <4> QED
        BY <1>1, <4>1, <4>3, HalfIs, SpectrumAssumption DEF BalancesKnown
    <3> HIDE DEF sp, D
    <3> QED
      BY <1>1, <2>2, <3>1, <3>2, <3>3 DEF BalancesKnown, TotalNow
  <2> QED
    BY <2>1, <2>2
<1>4. Accounts!MayBurn(Balances, D) /\ D \in SUBSET Entity
  <2>1. CASE Full
    <3>1. Accounts!MayBurn(Balances, KeysOf(spectrum, Dust(spectrum)))
      BY <1>1, DustMayBurn DEF BalancesKnown
    <3>2. Accounts!MayBurn(Balances, KeysOf(spectrum, Dust(spectrum))) =>
            KeysOf(spectrum, Dust(spectrum)) \subseteq Entity
      BY DEF Accounts!MayBurn
    <3> QED
      BY <2>1, <3>1, <3>2
  <2>2. CASE ~Full
    <3>1. Accounts!MayBurn(Balances, {})
      BY DEF Accounts!MayBurn
    <3> QED
      BY <2>2, <3>1
  <2> QED
    BY <2>1, <2>2
<1>5. ~Full => sp = spectrum
  OBVIOUS
<1> HIDE DEF sp, D
<1>6. /\ TableOK(spectrum')
      /\ Cardinality(Used(spectrum')) = Cardinality(Used(sp)) + (IF sp[i].key = k THEN 0 ELSE 1)
      /\ Cardinality(Used(spectrum')) < SpectrumCapacity
      /\ Total(spectrum') = Total(sp) + a
      /\ \A j \in Entity : BalanceIn(spectrum', j)
                             = BalanceIn(sp, j) + (IF j = k THEN a ELSE 0)
      /\ \A j \in Used(sp) : spectrum'[j].key = sp[j].key
  BY <1>2, <1>3, Credited
<1>7. spectrumInfo' = [numberOfEntities |-> Cardinality(Used(spectrum')),
                       totalAmount |-> Total(spectrum')]
  <2> HIDE DEF i
  <2> QED
    BY <1>2, <1>3, <1>6
<1>8. TableHolds'
  <2>1. spectrumInfo' = InfoOf(spectrum')
    BY <1>7, InfoIs
  <2>2. spectrumInfo'.numberOfEntities < SpectrumCapacity
    BY <1>6, <1>7
  <2> QED
    BY <1>6, <2>1, <2>2 DEF TableHolds, SpectrumCounted
<1>9. BalancesKnown'
  BY <1>8, BalancesAreNext
<1>10. TotalNow \in Nat /\ TotalNow' \in Nat /\ TotalNow' <= TotalNow + a
  <2>1. TotalNow = Total(spectrum) /\ TotalNow' = Total(spectrum')
    BY <1>1, <1>9 DEF BalancesKnown
  <2> QED
    BY <1>3, <1>6, <2>1
<1>11. Balances' = [j \in Entity |-> (IF j \in D THEN 0 ELSE Balances[j]) + (IF j = k THEN a ELSE 0)]
  BY <1>1, <1>3, <1>6, <1>9 DEF BalancesKnown
<1> QED
  BY <1>4, <1>5, <1>6, <1>8, <1>10, <1>11

-----------------------------------------------------------------------------
(* The table at the beginning.                                             *)

GenesisRecord(k) == [key |-> k, balance |-> Genesis[k]]

\* It has a record of every entity that has something.
LEMMA GenesisIs ==
  /\ TableOK(GenesisSpectrum)
  /\ Cardinality(Used(GenesisSpectrum)) < SpectrumCapacity
  /\ Total(GenesisSpectrum) = SumOver(Genesis, Entity)
<1> DEFINE n == Cardinality(Entity)
           Ordered(s) == s \in [1 .. n -> Entity] /\ \A k \in Entity : \E i \in 1 .. n : s[i] = k
           order == CHOOSE s \in [1 .. n -> Entity] : \A k \in Entity : \E i \in 1 .. n : s[i] = k
           list == [i \in 1 .. n |-> [key |-> order[i], balance |-> Genesis[order[i]]]]
           rich == {k \in Entity : Genesis[k] > 0}
           all == {GenesisRecord(k) : k \in rich}
<1>1. IsFiniteSet(Entity) /\ n \in Nat /\ Genesis \in [Entity -> Nat]
  BY SpectrumAssumption, FS_CardinalityType
<1>2. Ordered(order)
  <2>1. ExistsBijection(1 .. n, Entity)
    BY <1>1, FS_CardinalityType
  <2>2. PICK s \in Bijection(1 .. n, Entity) : TRUE
    BY <2>1 DEF ExistsBijection
  <2>3. Ordered(s)
    BY <2>2 DEF Bijection, Injection, Surjection
  <2>4. \E t \in [1 .. n -> Entity] : \A k \in Entity : \E i \in 1 .. n : t[i] = k
    BY <2>3
  <2> QED
    BY <2>4
<1>3. GenesisSpectrum = Filled(list, n)
  BY DEF GenesisSpectrum
<1> HIDE DEF order
<1>4. \A i \in 1 .. n : list[i] = GenesisRecord(order[i]) /\ order[i] \in Entity
  BY <1>2 DEF GenesisRecord
<1> HIDE DEF list
<1>5. \A k \in Entity : /\ GenesisRecord(k) \in [key : Entity, balance : Nat]
                        /\ GenesisRecord(k).key = k /\ GenesisRecord(k).balance = Genesis[k]
  BY <1>1 DEF GenesisRecord
<1>6. \A i \in 1 .. n : list[i].balance \in Nat
  BY <1>4, <1>5
<1>7. Given(list, n) = all
  <2>1. ASSUME NEW i \in 1 .. n, list[i].balance > 0 PROVE list[i] \in all
    BY <1>4, <1>5, <2>1
  <2>2. ASSUME NEW k \in rich PROVE GenesisRecord(k) \in Given(list, n)
    <3>1. PICK i \in 1 .. n : order[i] = k
      BY <1>2
    <3>2. list[i] = GenesisRecord(k) /\ list[i].balance > 0
      BY <1>4, <1>5, <3>1
    <3> QED
      BY <3>2 DEF Given
  <2>3. Given(list, n) \subseteq all
    <3> HIDE DEF all
    <3> QED
      BY <2>1 DEF Given
  <2> QED
    BY <2>2, <2>3
<1>8. IsFiniteSet(rich) /\ \A k \in rich : k \in Entity
  BY <1>1, FS_Subset
<1>9. IsFiniteSet(all) /\ Cardinality(all) = Cardinality(rich)
  <2> DEFINE h == [k \in rich |-> GenesisRecord(k)]
  <2>1. /\ h \in [rich -> all]
        /\ \A r \in all : \E k \in rich : h[k] = r
        /\ \A j, k \in rich : h[j] = h[k] => j = k
    BY <1>5
  <2>2. ExistsBijection(rich, all)
    <3> HIDE DEF h, rich, all
    <3> QED
      BY <2>1 DEF ExistsBijection, Bijection, Injection, Surjection, IsInjective
  <2> HIDE DEF rich, all
  <2> QED
    BY <1>8, <2>2, FS_Bijection
<1>10. Cardinality(all) < SpectrumCapacity
  BY <1>9, SpectrumAssumption
<1>11. /\ all \subseteq [key : Entity, balance : Nat]
       /\ \A r, q \in all : r.key = q.key => r = q
  BY <1>5
<1>12. TableOK(GenesisSpectrum) /\ Records(GenesisSpectrum) = all
  <2> HIDE DEF all, n
  <2> QED
    BY <1>1, <1>3, <1>6, <1>7, <1>9, <1>10, <1>11, FilledIs
<1>13. Cardinality(Used(GenesisSpectrum)) = Cardinality(all) /\ Total(GenesisSpectrum) = RecordSum(all)
  BY <1>12, CountedByRecords
<1>14. RecordSum(all) = Summed(Genesis, Entity)
  <2> DEFINE g == [r \in all |-> r.balance]
             h == [k \in rich |-> GenesisRecord(k)]
  <2>1. /\ \A k \in rich : Genesis[k] \in Int /\ g[h[k]] = Genesis[k]
        /\ \A j, k \in rich : h[j] = h[k] => j = k
    BY <1>1, <1>5
  <2>2. {h[k] : k \in rich} = all
    OBVIOUS
  <2>3. Summed(Genesis, rich) = Summed(g, {h[k] : k \in rich})
    <3> HIDE DEF g, h, rich, all
    <3> QED
      BY <1>8, <2>1, SummedRenamed
  <2>4. Summed(Genesis, rich) = RecordSum(all)
    <3> HIDE DEF h, rich, all
    <3> QED
      BY <2>2, <2>3 DEF RecordSum
  <2>5. Summed(Genesis, Entity) = Summed(Genesis, rich)
    <3>1. /\ \A k \in Entity : Genesis[k] \in Int
          /\ rich \in SUBSET Entity /\ \A k \in Entity \ rich : Genesis[k] = 0
      BY <1>1
    <3> HIDE DEF rich
    <3> QED
      BY <1>1, <3>1, SummedOutside
  <2> QED
    BY <2>4, <2>5
<1>15. Summed(Genesis, Entity) = SumOver(Genesis, Entity)
  BY DEF Summed, SumOver
<1> QED
  BY <1>10, <1>12, <1>13, <1>14, <1>15

-----------------------------------------------------------------------------
(* The bids.                                                               *)

Shares == 1 .. ShareCount
AnyBid == [key : Entity \cup {NoEntity}, price : Nat]

PriceSum(bids) == Summed([n \in Shares |-> bids[n].price], Shares)

BidsFine(bids) ==
  /\ bids \in [Shares -> AnyBid]
  /\ \A n \in Shares : bids[n].key = NoEntity => bids[n].price = 0
  /\ \A m, n \in Shares : m <= n => bids[m].price >= bids[n].price

\* There are as many places for bids as shares.
LEMMA SharesAre == IsFiniteSet(Shares) /\ ShareCount \in Shares /\ Cardinality(Shares) = ShareCount
<1>1. ShareCount \in Nat /\ 1 \in Int /\ ShareCount \in Int /\ 1 <= ShareCount
  BY SpectrumAssumption
<1>2. /\ IsFiniteSet(1 .. ShareCount)
      /\ Cardinality(1 .. ShareCount) = IF 1 > ShareCount THEN 0 ELSE ShareCount - 1 + 1
  BY <1>1, FS_Interval, ZenonT(30)
<1> QED
  BY <1>1, <1>2 DEF Shares

\* Prices and their sum are natural numbers.
LEMMA PricesTyped ==
  ASSUME NEW bids, BidsFine(bids)
  PROVE  PriceSum(bids) \in Nat /\ \A n \in Shares : bids[n].price \in Nat
<1> DEFINE f == [n \in Shares |-> bids[n].price]
<1>1. \A n \in Shares : bids[n].price \in Nat
  BY DEF BidsFine, AnyBid
<1>2. \A n \in Shares : f[n] \in Nat
  BY <1>1
<1> HIDE DEF f
<1>3. Summed(f, Shares) \in Nat
  BY <1>2, SharesAre, SummedNat
<1> QED
  BY <1>1, <1>3 DEF PriceSum, f

\* What is released to an entity, or to nobody when it is nothing.
LEMMA ReleasedIs ==
  ASSUME NEW r \in [Entity -> Nat], NEW k \in Entity \cup {NoEntity}, NEW a \in Nat,
         k = NoEntity => a = 0
  PROVE  /\ Released(r, k, a) \in [Entity -> Nat]
         /\ Summed(r, Entity) \in Nat
         /\ Summed(Released(r, k, a), Entity) = Summed(r, Entity) + a
<1>1. IsFiniteSet(Entity) /\ NoEntity \notin Entity
  BY SpectrumAssumption
<1>2. \A j \in Entity : r[j] \in Nat
  OBVIOUS
<1>3. Summed(r, Entity) \in Nat
  BY <1>1, <1>2, SummedNat
<1>4. CASE k \in Entity
  <2> DEFINE q == Released(r, k, a)
  <2>1. q \in [Entity -> Nat] /\ q[k] = r[k] + a /\ \A j \in Entity \ {k} : q[j] = r[j]
    BY <1>4 DEF Released
  <2> HIDE DEF q
  <2>2. Summed(q, Entity) = Summed(r, Entity) + (q[k] - r[k])
    <3>1. \A j \in Entity : r[j] \in Int
      BY <1>2
    <3>2. q[k] \in Int
      BY <1>4, <2>1
    <3> QED
      BY <1>1, <1>4, <2>1, <3>1, <3>2, SummedChange
  <2>3. q[k] - r[k] = a
    BY <1>2, <1>4, <2>1
  <2> QED
    BY <1>3, <2>1, <2>2, <2>3 DEF q
<1>5. CASE k = NoEntity
  <2>1. Released(r, k, a) = r /\ a = 0
    BY <1>1, <1>5 DEF Released
  <2> QED
    BY <1>3, <2>1
<1> QED
  BY <1>4, <1>5

\* A bid of k gets place p: the bids before it are not lower, the ones that were at p or
\* after it are, and they move down by one.
Moved(bids, more, p, k, price) ==
  /\ more \in [Shares -> AnyBid]
  /\ \A j \in 1 .. p - 1 : j \in Shares /\ more[j] = bids[j] /\ bids[j].price >= price
  /\ more[p] = [key |-> k, price |-> price]
  /\ \A j \in p + 1 .. ShareCount :
       j \in Shares /\ j - 1 \in Shares /\ more[j] = bids[j - 1] /\ bids[j - 1].price < price

OfferedAs(bids, r, k, price, after) ==
  after = BidForShare([bids |-> bids, released |-> r], k, price)

\* How many bids are not lower decides where a bid goes.
LEMMA PlaceOfBid ==
  ASSUME NEW bids, BidsFine(bids), NEW price \in Nat, NEW n,
         n = Cardinality({j \in 1 .. ShareCount - 1 : bids[j].price >= price}),
         ~(price <= bids[ShareCount].price)
  PROVE  /\ n \in 0 .. ShareCount - 1
         /\ \A j \in 1 .. n : bids[j].price >= price
         /\ \A j \in n + 1 .. ShareCount : bids[j].price < price
<1> DEFINE above == {j \in 1 .. ShareCount - 1 : bids[j].price >= price}
<1>1. \A m, j \in Shares : m <= j => bids[m].price >= bids[j].price
  BY DEF BidsFine
<1>2. \A j \in Shares : bids[j].price \in Nat
  BY PricesTyped
<1>3. PICK m : m = ShareCount - 1
  OBVIOUS
<1>4. m \in Nat /\ \A j \in 1 .. m : j \in Shares
  BY <1>3, SpectrumAssumption DEF Shares
<1>5. above \in SUBSET (1 .. m)
  BY <1>3
<1>6. \A j \in above : \A i \in 1 .. j : i \in above
  <2> SUFFICES ASSUME NEW j \in above, NEW i \in 1 .. j PROVE i \in above
    OBVIOUS
  <2>1. i \in 1 .. m /\ i \in Shares /\ j \in Shares /\ i <= j
    BY <1>3, <1>4
  <2>2. bids[i].price >= bids[j].price /\ bids[j].price >= price
    BY <1>1, <2>1
  <2>3. bids[i].price \in Nat /\ bids[j].price \in Nat
    BY <1>2, <2>1
  <2>4. bids[i].price >= price
    BY <2>2, <2>3
  <2> QED
    BY <1>3, <2>1, <2>4
<1>7. n = Cardinality(above)
  OBVIOUS
<1>8. n \in 0 .. m /\ above = 1 .. n
  <2> HIDE DEF above
  <2> QED
    BY <1>4, <1>5, <1>6, <1>7, FirstNumbers
<1>9. ASSUME NEW j \in 1 .. n PROVE bids[j].price >= price
  <2>1. j \in above
    BY <1>8
  <2> QED
    BY <2>1
<1>10. ASSUME NEW j \in n + 1 .. ShareCount PROVE bids[j].price < price
  <2>1. j \in Shares
    BY <1>3, <1>8, <1>4 DEF Shares
  <2>2. bids[j].price \in Nat
    BY <1>2, <2>1
  <2>3. CASE j = ShareCount
    BY <2>2, <2>3
  <2>4. CASE j # ShareCount
    <3>1. j \in 1 .. ShareCount - 1 /\ j \notin 1 .. n
      BY <1>3, <1>4, <1>8, <2>1, <2>4, SpectrumAssumption DEF Shares
    <3>2. j \notin above
      BY <1>8, <3>1
    <3>3. ~(bids[j].price >= price)
      BY <3>1, <3>2
    <3> QED
      BY <2>2, <3>3
  <2> QED
    BY <2>3, <2>4
<1>11. n \in 0 .. ShareCount - 1
  BY <1>3, <1>8
<1> QED
  BY <1>9, <1>10, <1>11

\* What an offer does, in the two cases.
LEMMA OfferIs ==
  ASSUME NEW bids, BidsFine(bids), NEW r \in [Entity -> Nat], NEW k \in Entity,
         NEW price \in Nat \ {0}, NEW after, OfferedAs(bids, r, k, price, after)
  PROVE  \/ after.bids = bids /\ after.released = Released(r, k, price)
         \/ /\ after.released = Released(r, bids[ShareCount].key, bids[ShareCount].price)
            /\ \E p \in Shares : Moved(bids, after.bids, p, k, price)
<1> DEFINE n == Cardinality({j \in 1 .. ShareCount - 1 : bids[j].price >= price})
           more == [j \in Shares |-> IF j <= n THEN bids[j]
                                     ELSE IF j = n + 1 THEN [key |-> k, price |-> price]
                                     ELSE bids[j - 1]]
<1>1. /\ price <= bids[ShareCount].price
           => after.bids = bids /\ after.released = Released(r, k, price)
      /\ ~(price <= bids[ShareCount].price)
           => /\ after.bids = more
              /\ after.released = Released(r, bids[ShareCount].key, bids[ShareCount].price)
  BY DEF OfferedAs, BidForShare, Shares
<1>2. ASSUME ~(price <= bids[ShareCount].price)
      PROVE  \E p \in Shares : Moved(bids, more, p, k, price)
  <2>1. /\ n \in 0 .. ShareCount - 1
        /\ \A j \in 1 .. n : bids[j].price >= price
        /\ \A j \in n + 1 .. ShareCount : bids[j].price < price
    BY <1>2, PlaceOfBid
  <2> HIDE DEF n
  <2>2. PICK p : p = n + 1
    OBVIOUS
  <2>3. p \in Shares /\ n \in Nat /\ ShareCount \in Nat
    BY <2>1, <2>2, SpectrumAssumption DEF Shares
  <2>4. \A j \in Shares : more[j] = IF j <= n THEN bids[j]
                                    ELSE IF j = n + 1 THEN [key |-> k, price |-> price]
                                    ELSE bids[j - 1]
    OBVIOUS
  <2>5. more = [j \in Shares |-> more[j]]
    OBVIOUS
  <2> HIDE DEF more
  <2>6. bids \in [Shares -> AnyBid] /\ [key |-> k, price |-> price] \in AnyBid
    BY DEF BidsFine, AnyBid
  <2>7. \A j \in 1 .. p - 1 : j \in Shares /\ more[j] = bids[j] /\ bids[j].price >= price
    <3>1. \A j \in 1 .. p - 1 : j \in Shares /\ j <= n /\ j \in 1 .. n
      BY <2>2, <2>3 DEF Shares
    <3> QED
      BY <2>1, <2>4, <3>1
  <2>8. more[p] = [key |-> k, price |-> price]
    <3>1. ~(p <= n) /\ p = n + 1
      BY <2>2, <2>3
    <3> QED
      BY <2>3, <2>4, <3>1
  <2>9. \A j \in p + 1 .. ShareCount :
          j \in Shares /\ j - 1 \in Shares /\ more[j] = bids[j - 1] /\ bids[j - 1].price < price
    <3>1. \A j \in p + 1 .. ShareCount :
            /\ j \in Shares /\ j - 1 \in Shares /\ ~(j <= n) /\ j # n + 1
            /\ j - 1 \in n + 1 .. ShareCount
      BY <2>2, <2>3 DEF Shares
    <3> QED
      BY <2>1, <2>4, <3>1
  <2>10. \A j \in Shares : j \in 1 .. p - 1 \/ j = p \/ j \in p + 1 .. ShareCount
    BY <2>3 DEF Shares
  <2>11. \A j \in Shares : more[j] \in AnyBid
    BY <2>6, <2>7, <2>8, <2>9, <2>10
  <2>12. more \in [Shares -> AnyBid]
    BY <2>5, <2>11
  <2>13. Moved(bids, more, p, k, price)
    BY <2>7, <2>8, <2>9, <2>12 DEF Moved
  <2> QED
    BY <2>3, <2>13
<1>3. CASE price <= bids[ShareCount].price
  BY <1>1, <1>3
<1>4. CASE ~(price <= bids[ShareCount].price)
  <2>1. after.bids = more
        /\ after.released = Released(r, bids[ShareCount].key, bids[ShareCount].price)
    BY <1>1, <1>4
  <2> HIDE DEF more
  <2> QED
    BY <1>2, <1>4, <2>1
<1> QED
  BY <1>3, <1>4

\* The bids stay sorted when one gets a place.
LEMMA MovedIsFine ==
  ASSUME NEW bids, BidsFine(bids), NEW k \in Entity, NEW price \in Nat \ {0},
         NEW p \in Shares, NEW more, Moved(bids, more, p, k, price)
  PROVE  BidsFine(more)
<1>1. /\ bids \in [Shares -> AnyBid]
      /\ \A j \in Shares : bids[j].key = NoEntity => bids[j].price = 0
      /\ \A m, j \in Shares : m <= j => bids[m].price >= bids[j].price
  BY DEF BidsFine
<1>2. /\ more \in [Shares -> AnyBid]
      /\ \A j \in 1 .. p - 1 : j \in Shares /\ more[j] = bids[j] /\ bids[j].price >= price
      /\ more[p].key = k /\ more[p].price = price
      /\ \A j \in p + 1 .. ShareCount :
           j \in Shares /\ j - 1 \in Shares /\ more[j] = bids[j - 1] /\ bids[j - 1].price < price
  BY DEF Moved
<1>3. \A j \in Shares : j \in 1 .. p - 1 \/ j = p \/ j \in p + 1 .. ShareCount
  BY DEF Shares
<1>4. p \in Int /\ ShareCount \in Int /\ NoEntity \notin Entity /\ \A j \in Shares : j \in Int
  BY SpectrumAssumption DEF Shares
<1>5. \A j \in Shares : bids[j].price \in Nat
  BY PricesTyped
<1>6. ASSUME NEW j \in Shares, more[j].key = NoEntity PROVE more[j].price = 0
  <2>1. CASE j \in 1 .. p - 1
    BY <1>1, <1>2, <1>6, <2>1
  <2>2. CASE j = p
    BY <1>2, <1>4, <1>6, <2>2
  <2>3. CASE j \in p + 1 .. ShareCount
    BY <1>1, <1>2, <1>6, <2>3
  <2> QED
    BY <1>3, <2>1, <2>2, <2>3
<1>7. ASSUME NEW m \in Shares, NEW j \in Shares, m <= j PROVE more[m].price >= more[j].price
  <2>1. CASE m \in 1 .. p - 1 /\ j \in 1 .. p - 1
    BY <1>1, <1>2, <1>7, <2>1
  <2>2. CASE m \in 1 .. p - 1 /\ j = p
    BY <1>2, <2>2
  <2>3. CASE m \in 1 .. p - 1 /\ j \in p + 1 .. ShareCount
    <3>1. /\ more[m].price = bids[m].price /\ more[j].price = bids[j - 1].price
          /\ bids[m].price >= price /\ bids[j - 1].price < price
      BY <1>2, <2>3
    <3>2. bids[m].price \in Nat /\ bids[j - 1].price \in Nat
      BY <1>2, <1>5, <2>3
    <3> QED
      BY <3>1, <3>2
  <2>4. CASE m = p /\ j = p
    BY <1>2, <2>4
  <2>5. CASE m = p /\ j \in p + 1 .. ShareCount
    <3>1. /\ more[m].price = price /\ more[j].price = bids[j - 1].price
          /\ bids[j - 1].price < price
      BY <1>2, <2>5
    <3>2. bids[j - 1].price \in Nat
      BY <1>2, <1>5, <2>5
    <3> QED
      BY <3>1, <3>2
  <2>6. CASE m \in p + 1 .. ShareCount /\ j \in p + 1 .. ShareCount
    <3>1. more[m] = bids[m - 1] /\ more[j] = bids[j - 1] /\ j - 1 \in Shares /\ m - 1 \in Shares
      BY <1>2, <2>6
    <3>2. m - 1 <= j - 1
      BY <1>4, <1>7
    <3> QED
      BY <1>1, <3>1, <3>2
  <2>7. ~(m \in p + 1 .. ShareCount /\ j \in 1 .. p - 1) /\ ~(m = p /\ j \in 1 .. p - 1)
        /\ ~(m \in p + 1 .. ShareCount /\ j = p)
    BY <1>4, <1>7
  <2> QED
    BY <1>3, <2>1, <2>2, <2>3, <2>4, <2>5, <2>6, <2>7
<1> QED
  BY <1>2, <1>6, <1>7 DEF BidsFine

\* The sum of all bids changes by the two prices.
LEMMA MovedSum ==
  ASSUME NEW bids, BidsFine(bids), NEW k \in Entity, NEW price \in Nat \ {0},
         NEW p \in Shares, NEW more, Moved(bids, more, p, k, price)
  PROVE  PriceSum(more) = PriceSum(bids) - bids[ShareCount].price + price
<1> DEFINE f == [j \in Shares |-> bids[j].price]
           g == [j \in Shares |-> more[j].price]
<1>1. BidsFine(more)
  BY MovedIsFine
<1>2. /\ \A j \in 1 .. p - 1 : j \in Shares /\ more[j] = bids[j]
      /\ more[p].price = price
      /\ \A j \in p + 1 .. ShareCount : j \in Shares /\ j - 1 \in Shares /\ more[j] = bids[j - 1]
  BY DEF Moved
<1>3. (\A j \in Shares : bids[j].price \in Nat) /\ (\A j \in Shares : more[j].price \in Nat)
  BY <1>1, PricesTyped
<1>4. \A j \in Shares : f[j] \in Int /\ g[j] \in Int
  BY <1>3
<1>5. \A j \in 1 .. p - 1 : g[j] = f[j]
  BY <1>2
<1>6. \A j \in p + 1 .. ShareCount : g[j] = f[j - 1]
  BY <1>2
<1>7. f[ShareCount] = bids[ShareCount].price /\ g[p] = price
  BY <1>2, SharesAre
<1>8. PriceSum(bids) = Summed(f, Shares) /\ PriceSum(more) = Summed(g, Shares)
  BY DEF PriceSum
<1> HIDE DEF f, g
<1>9. ShareCount \in Nat \ {0} /\ p \in 1 .. ShareCount /\ Shares = 1 .. ShareCount
  BY SpectrumAssumption DEF Shares
<1>10. \A j \in 1 .. ShareCount : f[j] \in Int /\ g[j] \in Int
  BY <1>4, <1>9
<1>11. Summed(g, 1 .. ShareCount) = Summed(f, 1 .. ShareCount) - f[ShareCount] + g[p]
  BY <1>5, <1>6, <1>9, <1>10, SummedShift
<1> QED
  BY <1>7, <1>8, <1>9, <1>11

\* An offer keeps the bids sorted, and what is bid or released grows by its price.
LEMMA Offered ==
  ASSUME NEW bids, BidsFine(bids), NEW r \in [Entity -> Nat], NEW k \in Entity,
         NEW price \in Nat \ {0}, NEW after, OfferedAs(bids, r, k, price, after)
  PROVE  /\ BidsFine(after.bids)
         /\ after.released \in [Entity -> Nat]
         /\ PriceSum(after.bids) + Summed(after.released, Entity)
              = PriceSum(bids) + Summed(r, Entity) + price
<1>1. /\ PriceSum(bids) \in Nat /\ \A j \in Shares : bids[j].price \in Nat
  BY PricesTyped
<1>2. CASE after.bids = bids /\ after.released = Released(r, k, price)
  <2>1. /\ Released(r, k, price) \in [Entity -> Nat] /\ Summed(r, Entity) \in Nat
        /\ Summed(Released(r, k, price), Entity) = Summed(r, Entity) + price
    BY ReleasedIs, SpectrumAssumption
  <2> QED
    BY <1>1, <1>2, <2>1
<1>3. CASE /\ after.released = Released(r, bids[ShareCount].key, bids[ShareCount].price)
           /\ \E p \in Shares : Moved(bids, after.bids, p, k, price)
  <2>1. PICK p \in Shares : Moved(bids, after.bids, p, k, price)
    BY <1>3
  <2>2. /\ BidsFine(after.bids)
        /\ PriceSum(after.bids) = PriceSum(bids) - bids[ShareCount].price + price
    BY <2>1, MovedIsFine, MovedSum
  <2>3. PICK key, was : key = bids[ShareCount].key /\ was = bids[ShareCount].price
    OBVIOUS
  <2>4. key \in Entity \cup {NoEntity} /\ was \in Nat /\ (key = NoEntity => was = 0)
    BY <1>1, <2>3, SharesAre DEF BidsFine, AnyBid
  <2>5. /\ Released(r, key, was) \in [Entity -> Nat] /\ Summed(r, Entity) \in Nat
        /\ Summed(Released(r, key, was), Entity) = Summed(r, Entity) + was
    BY <2>4, ReleasedIs
  <2>6. after.released = Released(r, key, was) /\ PriceSum(after.bids) = PriceSum(bids) - was + price
    BY <1>3, <2>2, <2>3
  <2>7. \A a, b \in Int : (a - was + price) + (b + was) = a + b + price
    BY <2>4
  <2>8. PriceSum(bids) \in Int /\ Summed(r, Entity) \in Int
    BY <1>1, <2>5
  <2>9. PriceSum(after.bids) + Summed(after.released, Entity)
          = (PriceSum(bids) - was + price) + (Summed(r, Entity) + was)
    BY <2>5, <2>6, Zenon
  <2>10. (PriceSum(bids) - was + price) + (Summed(r, Entity) + was)
           = PriceSum(bids) + Summed(r, Entity) + price
    BY <2>7, <2>8
  <2> QED
    BY <2>2, <2>5, <2>6, <2>9, <2>10, Zenon
<1> QED
  BY <1>2, <1>3, OfferIs
RefundedBeyond(bids, final, r) ==
  LET beyond == [n \in 1 .. ShareCount |-> bids[n].price - final]
  IN r = [k \in Entity |-> SumOver(beyond, {n \in 1 .. ShareCount :
                                             bids[n].key = k /\ bids[n].price > final})]

\* What was bid is what the shares cost and what is released to the bidders together.
LEMMA BeyondIsRefunded ==
  ASSUME NEW bids, BidsFine(bids), NEW final \in Nat, \A n \in Shares : final <= bids[n].price,
         NEW r, RefundedBeyond(bids, final, r)
  PROVE  /\ r \in [Entity -> Nat]
         /\ Summed(r, Entity) + final * ShareCount = PriceSum(bids)
<1> DEFINE beyond == [n \in Shares |-> bids[n].price - final]
           Won(T) == {n \in Shares : bids[n].key \in T /\ bids[n].price > final}
           Good == {T \in SUBSET Entity : Summed(r, T) = Summed(beyond, Won(T))}
<1>1. \A n \in Shares : bids[n].price \in Nat
  BY PricesTyped
<1>2. \A n \in Shares : beyond[n] \in Nat /\ beyond[n] \in Int /\ bids[n].price = beyond[n] + final
  BY <1>1
<1>3. \A T : Won(T) \in SUBSET Shares
  OBVIOUS
<1>4. r = [k \in Entity |-> Summed(beyond, Won({k}))]
  <2>1. r = [k \in Entity |-> Summed(beyond, {n \in Shares : bids[n].key = k
                                                             /\ bids[n].price > final})]
    BY DEF RefundedBeyond, SumOver, Summed, Shares
  <2>2. \A k : {n \in Shares : bids[n].key = k /\ bids[n].price > final} = Won({k})
    OBVIOUS
  <2> HIDE DEF Won, beyond
  <2> QED
    BY <2>1, <2>2, Zenon
<1>5. \A x \in Shares \ Won(Entity) : beyond[x] = 0
  <2> SUFFICES ASSUME NEW x \in Shares, x \notin Won(Entity) PROVE beyond[x] = 0
    OBVIOUS
  <2>1. bids[x].key \in Entity \cup {NoEntity} /\ (bids[x].key = NoEntity => bids[x].price = 0)
    BY DEF BidsFine, AnyBid
  <2>2. bids[x].price = 0 \/ ~(bids[x].price > final)
    BY <2>1
  <2> QED
    BY <1>1, <2>2
<1>6. Won({}) = {}
  OBVIOUS
<1>7. \A T \in SUBSET Entity : \A x \in Entity \ T :
        Won(T \cup {x}) = Won(T) \cup Won({x}) /\ Won(T) \cap Won({x}) = {}
  OBVIOUS
<1> HIDE DEF beyond, Won
<1>8. \A k \in Entity : r[k] = Summed(beyond, Won({k}))
  BY <1>4
<1>9. \A T : Summed(beyond, Won(T)) \in Nat
  <2> SUFFICES ASSUME NEW T PROVE Summed(beyond, Won(T)) \in Nat
    OBVIOUS
  <2>1. IsFiniteSet(Won(T)) /\ \A x \in Won(T) : beyond[x] \in Nat
    BY <1>2, <1>3, SharesAre, FS_Subset
  <2> QED
    BY <2>1, SummedNat
<1>10. r \in [Entity -> Nat]
  BY <1>4, <1>9
<1>11. IsFiniteSet(Entity) /\ \A k \in Entity : r[k] \in Int
  BY <1>10, SpectrumAssumption
<1>12. {} \in Good
  <2>1. Summed(r, {}) = 0 /\ Summed(beyond, {}) = 0
    BY SummedEmpty
  <2> QED
    BY <1>6, <2>1
<1>13. ASSUME NEW T \in SUBSET Entity, NEW x \in Entity \ T, T \in Good PROVE T \cup {x} \in Good
  <2>1. Summed(r, T \cup {x}) = r[x] + Summed(r, T)
    BY <1>11, SummedInsert
  <2>2. Summed(beyond, Won(T) \cup Won({x})) = Summed(beyond, Won(T)) + Summed(beyond, Won({x}))
    <3>1. \A n \in Shares : beyond[n] \in Int
      BY <1>2
    <3>2. PICK A, B : A = Won(T) /\ B = Won({x})
      OBVIOUS
    <3>3. A \in SUBSET Shares /\ B \in SUBSET Shares /\ A \cap B = {}
      BY <1>3, <1>7, <3>2
    <3>4. Summed(beyond, A \cup B) = Summed(beyond, A) + Summed(beyond, B)
      BY <3>1, <3>3, SharesAre, SummedDisjoint
    <3> QED
      BY <3>2, <3>4
  <2>3. Summed(r, T) = Summed(beyond, Won(T)) /\ r[x] = Summed(beyond, Won({x}))
    BY <1>8, <1>13
  <2>4. Summed(beyond, Won(T \cup {x})) = Summed(beyond, Won(T)) + Summed(beyond, Won({x}))
    BY <1>7, <2>2
  <2>5. Summed(beyond, Won(T)) \in Int /\ Summed(beyond, Won({x})) \in Int
    BY <1>9
  <2>6. Summed(r, T \cup {x}) = Summed(beyond, Won(T \cup {x}))
    BY <2>1, <2>3, <2>4, <2>5
  <2> QED
    BY <2>6
<1>14. Entity \in Good
  <2> HIDE DEF Good
  <2> QED
    BY <1>11, <1>12, <1>13, FiniteSetInduction
<1>15. Summed(r, Entity) = Summed(beyond, Won(Entity))
  BY <1>14
<1>16. Summed(beyond, Shares) = Summed(beyond, Won(Entity))
  <2>1. \A n \in Shares : beyond[n] \in Int
    BY <1>2
  <2> QED
    BY <1>3, <1>5, <2>1, SharesAre, SummedOutside
<1>17. PriceSum(bids) = Summed(beyond, Shares) + final * ShareCount
  <2> DEFINE f == [n \in Shares |-> bids[n].price]
             c == [n \in Shares |-> final]
  <2>1. \A n \in Shares : beyond[n] \in Int /\ c[n] \in Int /\ f[n] = beyond[n] + c[n]
    BY <1>2
  <2>2. \A n \in Shares : c[n] = final
    OBVIOUS
  <2>3. PriceSum(bids) = Summed(f, Shares)
    BY DEF PriceSum
  <2> HIDE DEF f, c
  <2>4. Summed(f, Shares) = Summed(beyond, Shares) + Summed(c, Shares)
    BY <2>1, SharesAre, SummedPlus
  <2>5. Summed(c, Shares) = final * Cardinality(Shares)
    <3>1. final \in Int
      OBVIOUS
    <3> QED
      BY <2>2, <3>1, SharesAre, SummedConstant
  <2> QED
    BY <2>3, <2>4, <2>5, SharesAre
<1> QED
  BY <1>10, <1>15, <1>16, <1>17

-----------------------------------------------------------------------------
(* Steps of the system.                                                    *)

GenesisSum == SumOver(Genesis, Entity)

InFlight == IF job.step = "credit" THEN job.amount ELSE 0
OnOffer  == IF job.step = "offer" THEN job.left * job.price ELSE 0

FeeOK   == feeReserve \in Nat /\ (~ipoOver => feeReserve = 0)
MoneyOK == spectrumInfo.totalAmount + Held <= GenesisSum

\* What a step of the ledger is for the spectrum.
LedgerStep == (Accounts!LedgerNext /\ PaidBySource) \/ UNCHANGED <<Balances, Held>>

\* The parts of the invariant.
LEMMA InvIs == SpectrumInv <=> TableHolds /\ JobOK /\ BidsOK /\ BidderKnown /\ FeeOK /\ MoneyOK
BY DEF SpectrumInv, TableHolds, FeeOK, MoneyOK, GenesisSum

\* The same after a step.
LEMMA InvIsNext ==
  SpectrumInv' <=> TableHolds' /\ JobOK' /\ BidsOK' /\ BidderKnown' /\ FeeOK' /\ MoneyOK'
BY InvIs, PTL

\* The parts of what is held.
HeldIs == Held = InFlight + OnOffer + PriceSum(ipo) + Summed(refunds, Entity) + feeReserve

\* Held is the sum of its parts, before and after a step.
LEMMA HeldSplits == HeldIs /\ HeldIs'
<1>1. HeldIs
  BY DEF HeldIs, Held, InFlight, OnOffer, PriceSum, Shares, SumOver, Summed
<1> QED
  BY <1>1, PTL

\* The job is what its step says.
LEMMA JobIs ==
  ASSUME JobOK
  PROVE  /\ job.step \in {"idle", "credit", "bid", "offer", "refund", "finish"}
         /\ job.step \in {"credit", "bid"} =>
              /\ job.source \in Entity /\ job.destination \in Entity /\ job.amount \in Nat
              /\ job.index \in Place /\ job.bid \in [price : Nat, quantity : Nat]
              /\ job.moved \in BOOLEAN /\ (job.moved => job.step = "bid")
              /\ job = [step |-> job.step, source |-> job.source,
                        destination |-> job.destination, amount |-> job.amount,
                        index |-> job.index, bid |-> job.bid, moved |-> job.moved]
              /\ job.bid = NoBid => job.step = "credit"
              /\ job.bid # NoBid => job.bid.price > 0 /\ job.bid.quantity > 0
         /\ job.step = "offer" =>
              /\ job.source \in Entity /\ job.price \in Nat \ {0} /\ job.left \in Nat \ {0}
              /\ job = [step |-> "offer", source |-> job.source, price |-> job.price,
                        left |-> job.left]
<1>1. CASE job = Idle
  BY <1>1 DEF Idle
<1>2. CASE /\ job \in [step : {"credit", "bid"}, source : Entity, destination : Entity,
                       amount : Nat, index : Place, bid : [price : Nat, quantity : Nat],
                       moved : BOOLEAN]
           /\ job.bid = NoBid => job.step = "credit"
           /\ job.bid # NoBid => job.bid.price > 0 /\ job.bid.quantity > 0
           /\ job.moved => job.step = "bid"
  BY <1>2
<1>3. CASE job \in [step : {"offer"}, source : Entity, price : Nat \ {0}, left : Nat \ {0}]
  BY <1>3
<1>4. CASE job \in [step : {"refund", "finish"}]
  BY <1>4
<1> QED
  BY <1>1, <1>2, <1>3, <1>4 DEF JobOK

\* What is held is a natural number, and so is each of its parts.
HeldKnown ==
  /\ InFlight \in Nat /\ OnOffer \in Nat /\ PriceSum(ipo) \in Nat
  /\ Summed(refunds, Entity) \in Nat /\ feeReserve \in Nat /\ Held \in Nat

\* Bids and refunds have their types.
LEMMA BidsSplit == BidsOK => BidsFine(ipo) /\ refunds \in [Entity -> Nat]
BY DEF BidsOK, BidsFine, Shares, AnyBid

\* The types follow from the parts of the invariant.
LEMMA HeldTyped == JobOK /\ BidsOK /\ FeeOK => HeldKnown
<1> SUFFICES ASSUME JobOK, BidsOK, FeeOK PROVE HeldKnown
  OBVIOUS
<1>1. InFlight \in Nat
  BY JobIs DEF InFlight
<1>2. OnOffer \in Nat
  <2>1. \A a, b \in Nat : a * b \in Nat
    OBVIOUS
  <2> QED
    BY <2>1, JobIs DEF OnOffer
<1>3. PriceSum(ipo) \in Nat
  BY BidsSplit, PricesTyped
<1>4. Summed(refunds, Entity) \in Nat
  <2>1. IsFiniteSet(Entity) /\ \A k \in Entity : refunds[k] \in Nat
    BY BidsSplit, SpectrumAssumption
  <2> QED
    BY <2>1, SummedNat
<1>5. feeReserve \in Nat
  BY DEF FeeOK
<1>6. Held \in Nat
  BY <1>1, <1>2, <1>3, <1>4, <1>5, HeldSplits DEF HeldIs
<1> QED
  BY <1>1, <1>2, <1>3, <1>4, <1>5, <1>6 DEF HeldKnown

\* Bounds for a step of the ledger.
LEMMA MoneyBounded ==
  ASSUME SpectrumInv
  PROVE  /\ TotalNow \in Nat /\ Held \in Nat /\ GenesisSum \in Nat
         /\ TotalNow + Held <= GenesisSum
<1>1. Held \in Nat
  BY InvIs, HeldTyped DEF HeldKnown
<1>2. TotalNow \in Nat
  <2>1. TableOK(spectrum) /\ TotalNow = Total(spectrum)
    BY InvIs, BalancesAre DEF TableHolds, BalancesKnown
  <2> QED
    BY <2>1, CountedByRecords, FewerRecords
<1>3. GenesisSum \in Nat
  <2>1. IsFiniteSet(Entity) /\ \A k \in Entity : Genesis[k] \in Nat
    BY SpectrumAssumption
  <2>2. Summed(Genesis, Entity) \in Nat
    BY <2>1, SummedNat
  <2> QED
    BY <2>2 DEF GenesisSum, SumOver, Summed
<1> QED
  BY <1>1, <1>2, <1>3, InvIs DEF MoneyOK, TotalNow

\* A debit whose amount is held afterwards is a debit of the ledger.
LEMMA DebitStep ==
  ASSUME SpectrumInv, NEW i \in Place, spectrum[i].key \in Entity, NEW a \in Nat,
         a <= spectrum[i].balance, DecreaseEnergy(i, a), Held' = Held + a
  PROVE  /\ TableHolds' /\ MoneyOK' /\ Accounts!LedgerNext
         /\ \A j \in Place : spectrum'[j].key = spectrum[j].key
         /\ \A k \in Entity : Balances'[k] < Balances[k] => k = spectrum[i].key
<1>1. TableHolds
  BY InvIs
<1>2. /\ TableHolds'
      /\ TotalNow \in Nat /\ a <= TotalNow /\ TotalNow' = TotalNow - a
      /\ Balances' = [k \in Entity |-> Balances[k] - (IF k = spectrum[i].key THEN a ELSE 0)]
      /\ \A j \in Place : spectrum'[j].key = spectrum[j].key
      /\ spectrumInfo'.numberOfEntities = spectrumInfo.numberOfEntities
  BY <1>1, DebitIs
<1>3. /\ TotalNow \in Nat /\ Held \in Nat /\ GenesisSum \in Nat
      /\ TotalNow + Held <= GenesisSum
  BY MoneyBounded
<1>4. MoneyOK'
  <2>1. TotalNow' + Held' <= GenesisSum
    BY <1>2, <1>3
  <2> QED
    BY <2>1 DEF MoneyOK, TotalNow, GenesisSum
<1>5. a \in 0 .. GenesisSum
  BY <1>2, <1>3
<1> DEFINE key == spectrum[i].key
<1>6. Balances[key] = spectrum[i].balance
  <2>1. BalancesKnown /\ TableOK(spectrum)
    BY <1>1, BalancesAre DEF TableHolds
  <2>2. HasRoom(spectrum)
    BY <2>1, RoomCounted DEF BalancesKnown
  <2>3. PlaceOf(spectrum, key) = i
    BY <2>1, <2>2, SlotOf
  <2> QED
    BY <2>1, <2>3 DEF BalancesKnown, BalanceIn
<1>7. \A k \in Entity : Balances[k] \in Nat
  <2>1. BalancesKnown /\ TableOK(spectrum)
    BY <1>1, BalancesAre DEF TableHolds
  <2> QED
    BY <2>1 DEF BalancesKnown, BalanceIn, TableOK
<1>8. Balances' = [Balances EXCEPT ![key] = @ - a]
  <2>1. Balances = [k \in Entity |-> Balances[k]]
    BY DEF Balances
  <2>2. \A k \in Entity : Balances[k] - (IF k = key THEN a ELSE 0)
                            = IF k = key THEN Balances[key] - a ELSE Balances[k]
    BY <1>7
  <2> HIDE DEF key
  <2>3. Balances' = [k \in Entity |-> Balances[k] - (IF k = key THEN a ELSE 0)]
    BY <1>2 DEF key
  <2>4. Balances' = [k \in Entity |-> IF k = key THEN Balances[key] - a ELSE Balances[k]]
    BY <2>2, <2>3
  <2> QED
    BY <2>1, <2>4
<1>9. Accounts!Debit
  BY <1>5, <1>6, <1>8 DEF Accounts!Debit, GenesisSum
<1>10. ASSUME NEW k \in Entity, k # key PROVE ~(Balances'[k] < Balances[k])
  <2>1. Balances'[k] = Balances[k]
    BY <1>8, <1>10 DEF Balances
  <2> QED
    BY <1>7, <2>1
<1> QED
  BY <1>2, <1>4, <1>9, <1>10 DEF Accounts!LedgerNext

\* A credit of what was held is a credit of the ledger.
LEMMA CreditStep ==
  ASSUME SpectrumInv, NEW k \in Entity, NEW a \in Nat, a <= Held, IncreaseEnergy(k, a),
         Held' = Held - a, job.step \in {"credit", "refund", "finish"}
  PROVE  /\ TableHolds' /\ MoneyOK' /\ LedgerStep
         /\ ~Full => \A j \in Used(spectrum) : spectrum'[j].key = spectrum[j].key
<1>1. TableHolds
  BY InvIs
<1>2. /\ TableHolds'
      /\ TotalNow \in Nat /\ TotalNow' \in Nat /\ TotalNow' <= TotalNow + a
      /\ \E D \in SUBSET Entity :
           /\ Accounts!MayBurn(Balances, D)
           /\ Balances' = [j \in Entity |-> (IF j \in D THEN 0 ELSE Balances[j])
                                              + (IF j = k THEN a ELSE 0)]
      /\ ~Full => \A j \in Used(spectrum) : spectrum'[j].key = spectrum[j].key
  BY <1>1, CreditIs
<1>3. /\ Held \in Nat /\ GenesisSum \in Nat /\ TotalNow + Held <= GenesisSum
  BY MoneyBounded
<1>4. MoneyOK'
  <2>1. TotalNow' + Held' <= GenesisSum
    BY <1>2, <1>3
  <2> QED
    BY <2>1 DEF MoneyOK, TotalNow, GenesisSum
<1>5. a \in 0 .. GenesisSum
  BY <1>2, <1>3
<1>6. Accounts!Credit
  BY <1>2, <1>5 DEF Accounts!Credit, GenesisSum
<1> QED
  BY <1>2, <1>4, <1>6 DEF LedgerStep, Accounts!LedgerNext, PaidBySource

\* A step that leaves the table alone and holds as much as before.
LEMMA StillStep ==
  ASSUME SpectrumInv, UNCHANGED <<spectrum, spectrumInfo>>, Held' = Held
  PROVE  TableHolds' /\ MoneyOK' /\ LedgerStep
<1>1. Balances' = Balances
  BY DEF Balances, BalanceOf, SpectrumIndex
<1> QED
  BY <1>1, InvIs DEF TableHolds, SpectrumCounted, MoneyOK, LedgerStep, GenesisSum

-----------------------------------------------------------------------------
(* The invariant: one lemma for each action.                               *)

\* Nothing is to be given back, as a function and as a sum.
LEMMA NothingReleased ==
  /\ NoRefunds \in [Entity -> Nat]
  /\ Summed(NoRefunds, Entity) = 0
<1>1. \A k \in Entity : NoRefunds[k] = 0
  BY DEF NoRefunds
<1> QED
  BY <1>1, SpectrumAssumption, SummedZero DEF NoRefunds

\* The bids are not touched.
LEMMA SameBids ==
  ASSUME BidsOK, ipo' = ipo, refunds' = refunds,
         job'.step \in {"idle", "credit", "bid"} => refunds = NoRefunds
  PROVE  BidsOK'
BY DEF BidsOK, NoRefunds

\* A transaction begins: the source is found and debited.
LEMMA StartKeeps ==
  ASSUME SpectrumInv, NEW src \in Entity, NEW dst \in Entity, NEW a \in Nat,
         NEW bid \in [price : Nat, quantity : Nat],
         bid # NoBid => bid.price > 0 /\ bid.quantity > 0,
         StartTransaction(src, dst, a, bid)
  PROVE  SpectrumInv' /\ LedgerStep
<1> DEFINE i == SpectrumIndex(src)
<1>1. /\ job = Idle /\ i >= 0 /\ spectrum[i].balance >= a /\ DecreaseEnergy(i, a)
      /\ job' = [step |-> "credit", source |-> src, destination |-> dst, amount |-> a,
                 index |-> i, bid |-> bid, moved |-> FALSE]
      /\ ipo' = ipo /\ ipoOver' = ipoOver /\ feeReserve' = feeReserve /\ refunds' = refunds
  BY DEF StartTransaction
<1>2. TableHolds /\ JobOK /\ BidsOK /\ FeeOK
  BY InvIs
<1>3. i \in Place /\ spectrum[i].key = src
  BY <1>1, <1>2, BalancesAre DEF BalancesKnown
<1> HIDE DEF i
<1>4. job.step = "idle"
  BY <1>1 DEF Idle
<1>5. /\ job'.step = "credit" /\ job'.source = src /\ job'.amount = a /\ job'.index = i
      /\ job'.bid = bid /\ job'.moved = FALSE
  BY <1>1
<1>6. a <= spectrum[i].balance
  <2>1. spectrum[i].balance \in Nat
    BY <1>2, <1>3 DEF TableHolds, TableOK
  <2> QED
    BY <1>1, <2>1
<1>7. Held' = Held + a
  <2>1. InFlight = 0 /\ OnOffer = 0 /\ InFlight' = a /\ OnOffer' = 0
    BY <1>4, <1>5 DEF InFlight, OnOffer
  <2>2. PriceSum(ipo') = PriceSum(ipo) /\ Summed(refunds', Entity) = Summed(refunds, Entity)
    BY <1>1
  <2> QED
    BY <1>1, <1>2, <2>1, <2>2, HeldSplits, HeldTyped DEF HeldIs, HeldKnown
<1>8. /\ TableHolds' /\ MoneyOK' /\ LedgerStep
      /\ \A j \in Place : spectrum'[j].key = spectrum[j].key
  <2>1. /\ TableHolds' /\ MoneyOK' /\ Accounts!LedgerNext
        /\ \A j \in Place : spectrum'[j].key = spectrum[j].key
        /\ \A k \in Entity : Balances'[k] < Balances[k] => k = spectrum[i].key
    BY <1>1, <1>3, <1>6, <1>7, DebitStep
  <2>2. PaidBySource
    BY <1>3, <1>5, <2>1 DEF PaidBySource
  <2> QED
    BY <2>1, <2>2 DEF LedgerStep
<1>9. JobOK'
  <2>1. job' \in [step : {"credit", "bid"}, source : Entity, destination : Entity, amount : Nat,
                  index : Place, bid : [price : Nat, quantity : Nat], moved : BOOLEAN]
    BY <1>1, <1>3
  <2> QED
    BY <1>5, <2>1 DEF JobOK
<1>10. BidsOK'
  <2>1. refunds = NoRefunds
    BY <1>2, <1>4 DEF BidsOK
  <2> QED
    BY <1>1, <1>2, <2>1, SameBids
<1>11. BidderKnown'
  BY <1>3, <1>5, <1>8 DEF BidderKnown
<1>12. FeeOK'
  BY <1>1, <1>2 DEF FeeOK
<1> QED
  BY <1>8, <1>9, <1>10, <1>11, <1>12, InvIsNext

\* Transactions with and without a bid.
LEMMA TransferKeeps == ASSUME SpectrumInv, Transfer PROVE SpectrumInv' /\ LedgerStep
<1>1. PICK src \in Entity, dst \in Entity, a \in Amounts : StartTransaction(src, dst, a, NoBid)
  BY DEF Transfer
<1>2. a \in Nat /\ NoBid \in [price : Nat, quantity : Nat]
  BY SpectrumAssumption DEF NoBid, Bid
<1> QED
  BY <1>1, <1>2, StartKeeps

\* The same with a bid.
LEMMA SendBidKeeps == ASSUME SpectrumInv, SendBid PROVE SpectrumInv' /\ LedgerStep
<1>1. PICK src \in Entity, price \in 1 .. MaxPrice, quantity \in 1 .. ShareCount :
        StartTransaction(src, IpoContract, 0, Bid(price, quantity))
  BY DEF SendBid
<1>2. PICK bid : bid = Bid(price, quantity)
  OBVIOUS
<1>3. /\ bid \in [price : Nat, quantity : Nat] /\ bid.price > 0 /\ bid.quantity > 0
      /\ 0 \in Nat /\ IpoContract \in Entity
  BY <1>2, SpectrumAssumption DEF Bid
<1> QED
  BY <1>1, <1>2, <1>3, StartKeeps

\* The destination is credited.
LEMMA CreditDestinationKeeps ==
  ASSUME SpectrumInv, CreditDestination PROVE SpectrumInv' /\ LedgerStep
<1>1. /\ job.step = "credit" /\ IncreaseEnergy(job.destination, job.amount)
      /\ job.bid = NoBid => job' = Idle
      /\ job.bid # NoBid => job' = [job EXCEPT !.step = "bid", !.moved = Full]
      /\ ipo' = ipo /\ ipoOver' = ipoOver /\ feeReserve' = feeReserve /\ refunds' = refunds
  BY DEF CreditDestination
<1>2. TableHolds /\ JobOK /\ BidsOK /\ BidderKnown /\ FeeOK
  BY InvIs
<1> DEFINE Transaction == [step : {"credit", "bid"}, source : Entity, destination : Entity,
                           amount : Nat, index : Place, bid : [price : Nat, quantity : Nat],
                           moved : BOOLEAN]
<1>3. /\ job.source \in Entity /\ job.destination \in Entity /\ job.amount \in Nat
      /\ job.index \in Place /\ job.bid \in [price : Nat, quantity : Nat]
      /\ job \in Transaction
      /\ job.bid # NoBid => job.bid.price > 0 /\ job.bid.quantity > 0
      /\ ~job.moved
  <2>1. job \in Transaction
    BY <1>1, <1>2 DEF JobOK, Idle
  <2> QED
    BY <1>1, <1>2, <2>1, JobIs
<1>4. \/ job' = Idle
      \/ /\ job.bid # NoBid /\ job' \in Transaction
         /\ job'.step = "bid" /\ job'.bid = job.bid /\ job'.moved = Full
         /\ job'.index = job.index /\ job'.source = job.source
  <2>1. Full \in BOOLEAN
    BY DEF Full
  <2>2. ASSUME NEW full \in BOOLEAN, NEW next, next = [job EXCEPT !.step = "bid", !.moved = full]
        PROVE  /\ next \in Transaction
               /\ next.step = "bid" /\ next.bid = job.bid /\ next.moved = full
               /\ next.index = job.index /\ next.source = job.source
    BY <1>3, <2>2
  <2> HIDE DEF Transaction
  <2> QED
    BY <1>1, <2>1, <2>2
<1>5. job'.step \in {"idle", "bid"}
  BY <1>4 DEF Idle
<1>6. Held' = Held - job.amount /\ job.amount <= Held
  <2>1. InFlight = job.amount /\ OnOffer = 0 /\ InFlight' = 0 /\ OnOffer' = 0
    BY <1>1, <1>5 DEF InFlight, OnOffer
  <2>2. PriceSum(ipo') = PriceSum(ipo) /\ Summed(refunds', Entity) = Summed(refunds, Entity)
    BY <1>1
  <2> QED
    BY <1>1, <1>2, <2>1, <2>2, HeldSplits, HeldTyped DEF HeldIs, HeldKnown
<1>7. /\ TableHolds' /\ MoneyOK' /\ LedgerStep
      /\ ~Full => \A j \in Used(spectrum) : spectrum'[j].key = spectrum[j].key
  BY <1>1, <1>3, <1>6, CreditStep
<1>8. JobOK'
  <2>1. CASE job' = Idle
    BY <2>1 DEF JobOK
  <2>2. CASE job.bid # NoBid /\ job' \in Transaction /\ job'.step = "bid" /\ job'.bid = job.bid
    BY <1>3, <2>2 DEF JobOK
  <2> QED
    BY <1>4, <2>1, <2>2
<1>9. BidsOK'
  <2>1. refunds = NoRefunds
    BY <1>1, <1>2 DEF BidsOK
  <2> QED
    BY <1>1, <1>2, <2>1, SameBids
<1>10. BidderKnown'
  <2> SUFFICES ASSUME job'.step = "bid", ~job'.moved
      PROVE  spectrum'[job'.index].key = job'.source
    BY <1>5 DEF BidderKnown
  <2>1. /\ job.bid # NoBid /\ job'.index = job.index /\ job'.source = job.source
        /\ job'.moved = Full
    BY <1>4 DEF Idle
  <2>2. spectrum[job.index].key = job.source /\ ~Full
    BY <1>1, <1>2, <1>3, <2>1 DEF BidderKnown
  <2>3. job.index \in Used(spectrum)
    BY <1>3, <2>2, SpectrumAssumption DEF Used
  <2> QED
    BY <1>7, <2>1, <2>2, <2>3
<1>11. FeeOK'
  BY <1>1, <1>2 DEF FeeOK
<1> QED
  BY <1>7, <1>8, <1>9, <1>10, <1>11, InvIsNext

\* A bid is paid, or it is not.
LEMMA BidInContractIPOKeeps ==
  ASSUME SpectrumInv, BidInContractIPO PROVE SpectrumInv' /\ LedgerStep
<1> DEFINE cost == job.bid.price * job.bid.quantity
<1>1. /\ job.step = "bid" /\ ipo' = ipo /\ ipoOver' = ipoOver /\ feeReserve' = feeReserve
      /\ \/ /\ spectrum[job.index].balance >= cost /\ DecreaseEnergy(job.index, cost)
            /\ job' = [step |-> "offer", source |-> job.source, price |-> job.bid.price,
                       left |-> job.bid.quantity]
            /\ refunds' = NoRefunds
         \/ /\ job' = Idle /\ spectrum' = spectrum /\ spectrumInfo' = spectrumInfo
            /\ refunds' = refunds
  BY DEF BidInContractIPO
<1>2. TableHolds /\ JobOK /\ BidsOK /\ FeeOK /\ BidderKnown
  BY InvIs
<1>3. /\ job.source \in Entity /\ job.index \in Place
      /\ job.bid \in [price : Nat, quantity : Nat]
      /\ job.bid.price > 0 /\ job.bid.quantity > 0
  BY <1>1, <1>2, JobIs
<1>4. cost \in Nat /\ cost > 0 /\ cost = job.bid.quantity * job.bid.price
  <2>1. \A p, q \in Nat : p > 0 /\ q > 0 => p * q \in Nat /\ p * q > 0 /\ p * q = q * p
    BY SMTT(30)
  <2>2. job.bid.price \in Nat /\ job.bid.quantity \in Nat
    BY <1>3
  <2> QED
    BY <1>3, <2>1, <2>2
<1>5. refunds = NoRefunds /\ refunds' = NoRefunds
  BY <1>1, <1>2 DEF BidsOK
<1> HIDE DEF cost
<1>6. BidsOK'
  BY <1>1, <1>2, <1>5, SameBids
<1>7. FeeOK'
  BY <1>1, <1>2 DEF FeeOK
<1>8. InFlight = 0 /\ OnOffer = 0
  BY <1>1 DEF InFlight, OnOffer
<1>9. PriceSum(ipo') = PriceSum(ipo) /\ Summed(refunds', Entity) = Summed(refunds, Entity)
  BY <1>1, <1>5
<1>10. CASE /\ spectrum[job.index].balance >= cost /\ DecreaseEnergy(job.index, cost)
            /\ job' = [step |-> "offer", source |-> job.source, price |-> job.bid.price,
                       left |-> job.bid.quantity]
  <2>1. /\ job'.step = "offer" /\ job'.price = job.bid.price /\ job'.left = job.bid.quantity
    BY <1>10
  <2>2. InFlight' = 0 /\ OnOffer' = cost
    BY <1>4, <2>1 DEF InFlight, OnOffer
  <2>3. Held' = Held + cost
    BY <1>1, <1>2, <1>4, <1>8, <1>9, <2>2, HeldSplits, HeldTyped DEF HeldIs, HeldKnown
  <2>4. cost <= spectrum[job.index].balance /\ spectrum[job.index].key \in Entity
    <3>1. /\ spectrum[job.index].key \in Entity \cup {NoEntity}
          /\ spectrum[job.index].balance \in Nat
          /\ spectrum[job.index].key = NoEntity => spectrum[job.index].balance = 0
      BY <1>2, <1>3 DEF TableHolds, TableOK
    <3>2. cost <= spectrum[job.index].balance /\ spectrum[job.index].balance # 0
      BY <1>4, <1>10, <3>1
    <3> QED
      BY <3>1, <3>2
  <2>5. /\ TableHolds' /\ MoneyOK' /\ Accounts!LedgerNext
        /\ \A k \in Entity : Balances'[k] < Balances[k] => k = spectrum[job.index].key
    BY <1>3, <1>4, <1>10, <2>3, <2>4, DebitStep
  <2>8. LedgerStep
    <3>1. ~job.moved => spectrum[job.index].key = job.source
      BY <1>1, <1>2, JobIs DEF BidderKnown
    <3>2. job'.source = job.source
      BY <1>10
    <3>3. PaidBySource
      BY <1>1, <2>5, <3>1, <3>2 DEF PaidBySource
    <3> QED
      BY <2>5, <3>3 DEF LedgerStep
  <2>6. JobOK'
    <3>1. job' \in [step : {"offer"}, source : Entity, price : Nat \ {0}, left : Nat \ {0}]
      BY <1>3, <1>10
    <3> QED
      BY <3>1 DEF JobOK
  <2>7. BidderKnown'
    BY <2>1 DEF BidderKnown
  <2> QED
    BY <1>6, <1>7, <2>5, <2>6, <2>7, <2>8, InvIsNext
<1>11. CASE job' = Idle /\ spectrum' = spectrum /\ spectrumInfo' = spectrumInfo
  <2>1. job'.step = "idle"
    BY <1>11 DEF Idle
  <2>2. InFlight' = 0 /\ OnOffer' = 0
    BY <2>1 DEF InFlight, OnOffer
  <2>3. Held' = Held
    BY <1>1, <1>8, <1>9, <2>2, HeldSplits DEF HeldIs
  <2>4. TableHolds' /\ MoneyOK' /\ LedgerStep
    BY <1>11, <2>3, StillStep
  <2>5. JobOK' /\ BidderKnown'
    BY <1>11, <2>1 DEF JobOK, BidderKnown
  <2> QED
    BY <1>6, <1>7, <2>4, <2>5, InvIsNext
<1> QED
  BY <1>1, <1>10, <1>11

\* A share is offered: what is bid or released grows as what is on offer falls.
LEMMA OfferShareKeeps == ASSUME SpectrumInv, OfferShare PROVE SpectrumInv' /\ LedgerStep
<1>1. PICK after : OfferedAs(ipo, refunds, job.source, job.price, after)
  BY DEF OfferedAs
<1>2. /\ job.step = "offer" /\ ipo' = after.bids /\ refunds' = after.released
      /\ job.left = 1 => job' = [step |-> "refund"]
      /\ job.left # 1 => job' = [job EXCEPT !.left = @ - 1]
      /\ spectrum' = spectrum /\ spectrumInfo' = spectrumInfo
      /\ ipoOver' = ipoOver /\ feeReserve' = feeReserve
  BY <1>1 DEF OfferShare, OfferedAs
<1>3. JobOK /\ BidsOK /\ FeeOK
  BY InvIs
<1>4. /\ job.source \in Entity /\ job.price \in Nat \ {0} /\ job.left \in Nat \ {0}
      /\ job = [step |-> "offer", source |-> job.source, price |-> job.price,
                left |-> job.left]
  BY <1>2, <1>3, JobIs
<1>5. BidsFine(ipo) /\ refunds \in [Entity -> Nat]
  BY <1>3, BidsSplit
<1>6. /\ BidsFine(after.bids) /\ after.released \in [Entity -> Nat]
      /\ PriceSum(after.bids) + Summed(after.released, Entity)
           = PriceSum(ipo) + Summed(refunds, Entity) + job.price
  BY <1>1, <1>4, <1>5, Offered
<1>7. \/ job.left = 1 /\ job' = [step |-> "refund"]
      \/ /\ job.left - 1 \in Nat \ {0}
         /\ job' = [step |-> "offer", source |-> job.source, price |-> job.price,
                    left |-> job.left - 1]
  <2>1. [job EXCEPT !.left = @ - 1] = [step |-> "offer", source |-> job.source,
                                       price |-> job.price, left |-> job.left - 1]
    BY <1>4
  <2>2. job.left # 1 => job.left - 1 \in Nat \ {0}
    BY <1>4
  <2> QED
    BY <1>2, <2>1, <2>2
<1>8. job'.step \in {"offer", "refund"}
  BY <1>7
<1>9. OnOffer = job.left * job.price /\ OnOffer' = job.left * job.price - job.price
  <2>1. CASE job.left = 1 /\ job' = [step |-> "refund"]
    <3>1. OnOffer' = 0
      BY <2>1 DEF OnOffer
    <3>2. job.left * job.price = job.price
      BY <1>4, <2>1
    <3> QED
      BY <1>2, <1>4, <3>1, <3>2 DEF OnOffer
  <2>2. CASE job' = [step |-> "offer", source |-> job.source, price |-> job.price,
                     left |-> job.left - 1]
    <3>1. OnOffer' = (job.left - 1) * job.price
      BY <2>2 DEF OnOffer
    <3>2. \A l, p \in Int : (l - 1) * p = l * p - p
      OBVIOUS
    <3>3. (job.left - 1) * job.price = job.left * job.price - job.price
      BY <1>4, <3>2
    <3> QED
      BY <1>2, <3>1, <3>3 DEF OnOffer
  <2> QED
    BY <1>7, <2>1, <2>2
<1>10. Held' = Held
  <2>1. InFlight = 0 /\ InFlight' = 0
    BY <1>2, <1>8 DEF InFlight
  <2>2. PriceSum(ipo') = PriceSum(after.bids) /\ Summed(refunds', Entity) = Summed(after.released, Entity)
    BY <1>2
  <2>3. PriceSum(ipo') \in Nat /\ Summed(refunds', Entity) \in Nat
    <3>1. PriceSum(after.bids) \in Nat
      BY <1>6, PricesTyped
    <3>2. IsFiniteSet(Entity) /\ \A k \in Entity : after.released[k] \in Nat
      BY <1>6, SpectrumAssumption
    <3>3. Summed(after.released, Entity) \in Nat
      BY <3>2, SummedNat
    <3> QED
      BY <2>2, <3>1, <3>3
  <2>4. HeldKnown
    BY <1>3, HeldTyped
  <2>5. job.price \in Int /\ job.left * job.price \in Int
    BY <1>4, <1>9, <2>4 DEF HeldKnown
  <2>6. \A o, p, r, q, s, f \in Int : q + s = p + r + job.price =>
           0 + (o - job.price) + q + s + f = 0 + o + p + r + f
    BY <2>5
  <2>7. PriceSum(ipo') + Summed(refunds', Entity)
          = PriceSum(ipo) + Summed(refunds, Entity) + job.price
    BY <1>6, <2>2
  <2>8. 0 + (job.left * job.price - job.price) + PriceSum(ipo') + Summed(refunds', Entity) + feeReserve
          = 0 + job.left * job.price + PriceSum(ipo) + Summed(refunds, Entity) + feeReserve
    BY <2>3, <2>4, <2>5, <2>6, <2>7 DEF HeldKnown
  <2> QED
    BY <1>2, <1>9, <2>1, <2>8, HeldSplits DEF HeldIs
<1>11. TableHolds' /\ MoneyOK' /\ LedgerStep
  BY <1>2, <1>10, StillStep
<1>12. JobOK'
  <2>1. CASE job' = [step |-> "refund"]
    <3>1. job' \in [step : {"refund", "finish"}]
      BY <2>1
    <3> QED
      BY <3>1 DEF JobOK
  <2>2. CASE job.left - 1 \in Nat \ {0}
             /\ job' = [step |-> "offer", source |-> job.source, price |-> job.price,
                        left |-> job.left - 1]
    <3>1. job' \in [step : {"offer"}, source : Entity, price : Nat \ {0}, left : Nat \ {0}]
      BY <1>4, <2>2
    <3> QED
      BY <3>1 DEF JobOK
  <2> QED
    BY <1>7, <2>1, <2>2
<1>13. BidsOK'
  <2>1. BidsFine(ipo') /\ refunds' \in [Entity -> Nat]
    BY <1>2, <1>6
  <2> QED
    BY <1>8, <2>1 DEF BidsOK, BidsFine, Shares, AnyBid
<1>14. BidderKnown' /\ FeeOK'
  BY <1>2, <1>3, <1>8 DEF BidderKnown, FeeOK
<1> QED
  BY <1>11, <1>12, <1>13, <1>14, InvIsNext

\* What was released to one entity is paid.
LEMMA RefundKeeps == ASSUME SpectrumInv, Refund PROVE SpectrumInv' /\ LedgerStep
<1>1. PICK k \in Entity : /\ IncreaseEnergy(k, refunds[k])
                          /\ refunds' = [refunds EXCEPT ![k] = 0]
  BY DEF Refund
<1>2. /\ job.step \in {"refund", "finish"} /\ job' = job /\ ipo' = ipo
      /\ ipoOver' = ipoOver /\ feeReserve' = feeReserve
  BY DEF Refund
<1>3. JobOK /\ BidsOK /\ FeeOK
  BY InvIs
<1>4. refunds \in [Entity -> Nat]
  BY <1>3, BidsSplit
<1>5. refunds' \in [Entity -> Nat] /\ refunds'[k] = 0
      /\ \A j \in Entity \ {k} : refunds'[j] = refunds[j]
  BY <1>1, <1>4
<1>6. /\ Summed(refunds', Entity) = Summed(refunds, Entity) - refunds[k]
      /\ refunds[k] <= Summed(refunds, Entity)
  <2>1. IsFiniteSet(Entity) /\ (\A j \in Entity : refunds[j] \in Nat) /\ \A j \in Entity : refunds[j] \in Int
    BY <1>4, SpectrumAssumption
  <2>2. PICK q : q = refunds'
    OBVIOUS
  <2>3. q[k] \in Int /\ q[k] = 0 /\ \A j \in Entity \ {k} : q[j] = refunds[j]
    BY <1>5, <2>2
  <2>4. Summed(q, Entity) = Summed(refunds, Entity) + (q[k] - refunds[k])
    BY <2>1, <2>3, SummedChange
  <2>5. Summed(refunds, Entity) \in Nat /\ refunds[k] <= Summed(refunds, Entity)
    BY <2>1, SummedNat
  <2> QED
    BY <1>4, <2>2, <2>3, <2>4, <2>5
<1>7. Held' = Held - refunds[k] /\ refunds[k] <= Held
  <2>1. InFlight = 0 /\ OnOffer = 0 /\ InFlight' = 0 /\ OnOffer' = 0
    BY <1>2 DEF InFlight, OnOffer
  <2>2. PriceSum(ipo') = PriceSum(ipo)
    BY <1>2
  <2>3. refunds[k] \in Nat
    BY <1>4
  <2> QED
    BY <1>2, <1>3, <1>6, <2>1, <2>2, <2>3, HeldSplits, HeldTyped DEF HeldIs, HeldKnown
<1>8. TableHolds' /\ MoneyOK' /\ LedgerStep
  <2>1. PICK a \in Nat : a = refunds[k]
    BY <1>4
  <2>2. a <= Held /\ IncreaseEnergy(k, a) /\ Held' = Held - a
    BY <1>1, <1>7, <2>1
  <2> QED
    BY <1>2, <2>2, CreditStep
<1>9. JobOK'
  BY <1>2, <1>3 DEF JobOK, NoBid, Idle
<1>10. BidsOK'
  BY <1>2, <1>3, <1>5 DEF BidsOK
<1>11. BidderKnown' /\ FeeOK'
  BY <1>2, <1>3 DEF BidderKnown, FeeOK
<1> QED
  BY <1>8, <1>9, <1>10, <1>11, InvIsNext

\* The bid is done.
LEMMA EndBidKeeps == ASSUME SpectrumInv, EndBid PROVE SpectrumInv' /\ LedgerStep
<1>1. /\ job.step = "refund" /\ refunds = NoRefunds /\ job' = Idle
      /\ spectrum' = spectrum /\ spectrumInfo' = spectrumInfo /\ ipo' = ipo
      /\ ipoOver' = ipoOver /\ feeReserve' = feeReserve /\ refunds' = refunds
  BY DEF EndBid
<1>2. job'.step = "idle"
  BY <1>1 DEF Idle
<1>3. JobOK /\ BidsOK /\ FeeOK
  BY InvIs
<1>4. Held' = Held
  <2>1. InFlight = 0 /\ OnOffer = 0 /\ InFlight' = 0 /\ OnOffer' = 0
    BY <1>1, <1>2 DEF InFlight, OnOffer
  <2>2. PriceSum(ipo') = PriceSum(ipo) /\ Summed(refunds', Entity) = Summed(refunds, Entity)
    BY <1>1
  <2> QED
    BY <1>1, <2>1, <2>2, HeldSplits DEF HeldIs
<1>5. TableHolds' /\ MoneyOK' /\ LedgerStep
  BY <1>1, <1>4, StillStep
<1>6. JobOK' /\ BidderKnown' /\ FeeOK'
  BY <1>1, <1>2, <1>3 DEF JobOK, BidderKnown, FeeOK
<1>7. BidsOK'
  BY <1>1, <1>3, SameBids
<1> QED
  BY <1>5, <1>6, <1>7, InvIsNext

\* No bids at all.
LEMMA NoBids ==
  ASSUME NEW bids, bids = [n \in 1 .. ShareCount |-> NoBidder]
  PROVE  BidsFine(bids) /\ PriceSum(bids) = 0
<1>1. \A n \in Shares : bids[n] = NoBidder
  BY DEF Shares
<1>2. NoBidder \in AnyBid /\ NoBidder.price = 0
  BY DEF NoBidder, AnyBid
<1>3. bids \in [Shares -> AnyBid]
  BY <1>1, <1>2 DEF Shares
<1>4. BidsFine(bids)
  <2>1. \A n \in Shares : bids[n].price = 0
    BY <1>1, <1>2
  <2>2. ASSUME NEW m \in Shares, NEW n \in Shares PROVE bids[m].price >= bids[n].price
    <3>1. bids[m].price = 0 /\ bids[n].price = 0
      BY <2>1
    <3>2. 0 >= 0
      OBVIOUS
    <3> QED
      BY <3>1, <3>2, Zenon
  <2> QED
    BY <1>3, <2>1, <2>2 DEF BidsFine
<1>5. PriceSum(bids) = 0
  <2> DEFINE f == [n \in Shares |-> bids[n].price]
  <2>1. \A n \in Shares : f[n] = 0
    BY <1>1, <1>2
  <2> HIDE DEF f
  <2>2. Summed(f, Shares) = 0
    BY <2>1, SharesAre, SummedZero
  <2> QED
    BY <2>2 DEF PriceSum, f
<1> QED
  BY <1>4, <1>5

\* The shares are sold or the IPO fails: what was bid is kept or released.
LEMMA FinishIPOKeeps == ASSUME SpectrumInv, FinishIPO PROVE SpectrumInv' /\ LedgerStep
<1>1. /\ job = Idle /\ ~ipoOver /\ ipoOver' = TRUE /\ job' = [step |-> "finish"]
      /\ ipo' = [n \in 1 .. ShareCount |-> NoBidder]
      /\ spectrum' = spectrum /\ spectrumInfo' = spectrumInfo
  BY DEF FinishIPO
<1>2. PICK final : /\ final = ipo[ShareCount].price \/ final = 0
                   /\ RefundedBeyond(ipo, final, refunds')
                   /\ feeReserve' = final * ShareCount
  BY DEF FinishIPO, RefundedBeyond
<1>3. JobOK /\ BidsOK /\ FeeOK
  BY InvIs
<1>4. job.step = "idle" /\ job'.step = "finish"
  BY <1>1 DEF Idle
<1>5. BidsFine(ipo) /\ refunds = NoRefunds /\ feeReserve = 0
  BY <1>1, <1>3, <1>4, BidsSplit DEF BidsOK, FeeOK
<1>6. final \in Nat /\ \A n \in Shares : final <= ipo[n].price
  <2>1. \A n \in Shares : ipo[n].price \in Nat
    BY <1>5, PricesTyped
  <2>2. \A n \in Shares : n <= ShareCount /\ ipo[n].price >= ipo[ShareCount].price
    <3>1. \A n \in Shares : n <= ShareCount
      BY DEF Shares
    <3> QED
      BY <1>5, <3>1, SharesAre DEF BidsFine
  <2>3. ipo[ShareCount].price \in Nat
    BY <2>1, SharesAre
  <2> QED
    BY <1>2, <2>1, <2>2, <2>3
<1>7. /\ refunds' \in [Entity -> Nat]
      /\ Summed(refunds', Entity) + final * ShareCount = PriceSum(ipo)
  BY <1>2, <1>5, <1>6, BeyondIsRefunded
<1>8. final * ShareCount \in Nat
  <2>1. \A p, q \in Nat : p * q \in Nat
    OBVIOUS
  <2> QED
    BY <1>6, <2>1, SpectrumAssumption
<1>9. BidsFine(ipo') /\ PriceSum(ipo') = 0
  BY <1>1, NoBids
<1>10. Held' = Held
  <2>1. InFlight = 0 /\ OnOffer = 0 /\ InFlight' = 0 /\ OnOffer' = 0
    BY <1>4 DEF InFlight, OnOffer
  <2>2. Summed(refunds, Entity) = 0
    BY <1>5, NothingReleased
  <2>3. Summed(refunds', Entity) \in Nat
    <3>1. PICK q : q = refunds'
      OBVIOUS
    <3>2. IsFiniteSet(Entity) /\ \A k \in Entity : q[k] \in Nat
      BY <1>7, <3>1, SpectrumAssumption
    <3> QED
      BY <3>1, <3>2, SummedNat
  <2>4. PriceSum(ipo) \in Nat
    BY <1>5, PricesTyped
  <2>5. Held = PriceSum(ipo)
    BY <1>5, <2>1, <2>2, <2>4, HeldSplits DEF HeldIs
  <2>6. Held' = Summed(refunds', Entity) + final * ShareCount
    BY <1>2, <1>8, <1>9, <2>1, <2>3, HeldSplits DEF HeldIs
  <2> QED
    BY <1>7, <2>5, <2>6
<1>11. TableHolds' /\ MoneyOK' /\ LedgerStep
  BY <1>1, <1>10, StillStep
<1>12. JobOK'
  <2>1. job' \in [step : {"refund", "finish"}]
    BY <1>1
  <2> QED
    BY <2>1 DEF JobOK
<1>13. BidsOK'
  BY <1>4, <1>7, <1>9 DEF BidsOK, BidsFine, Shares, AnyBid
<1>14. BidderKnown' /\ FeeOK'
  BY <1>1, <1>2, <1>4, <1>8 DEF BidderKnown, FeeOK
<1> QED
  BY <1>11, <1>12, <1>13, <1>14, InvIsNext

\* The end of the epoch moves entities to other slots, and no balance changes.
LEMMA ReorganizeSpectrumKeeps ==
  ASSUME SpectrumInv, ReorganizeSpectrum PROVE SpectrumInv' /\ LedgerStep
<1>1. /\ job.step = "finish" /\ refunds = NoRefunds /\ job' = Idle
      /\ spectrum' = Reorganized(spectrum) /\ spectrumInfo' = InfoOf(spectrum')
      /\ ipo' = ipo /\ ipoOver' = ipoOver /\ feeReserve' = feeReserve /\ refunds' = refunds
  BY DEF ReorganizeSpectrum
<1>2. job'.step = "idle"
  BY <1>1 DEF Idle
<1>3. TableHolds /\ JobOK /\ BidsOK /\ FeeOK /\ MoneyOK
  BY InvIs
<1>4. BalancesKnown /\ TableOK(spectrum)
  BY <1>3, BalancesAre DEF TableHolds
<1>5. /\ TableOK(spectrum') /\ Cardinality(Used(spectrum')) < SpectrumCapacity
      /\ Total(spectrum') = Total(spectrum)
      /\ \A k \in Entity : BalanceIn(spectrum', k) = BalanceIn(spectrum, k)
  <2>1. PICK tp : tp = spectrum'
    OBVIOUS
  <2>2. tp = Reorganized(spectrum)
    BY <1>1, <2>1
  <2>3. /\ TableOK(tp) /\ Cardinality(Used(tp)) < SpectrumCapacity
        /\ Total(tp) = Total(spectrum)
        /\ \A k \in Entity : BalanceIn(tp, k) = BalanceIn(spectrum, k)
    BY <1>4, <2>2, ReorganizingKeeps DEF BalancesKnown
  <2> QED
    BY <2>1, <2>3
<1>6. TableHolds'
  BY <1>1, <1>5, InfoIs DEF TableHolds, SpectrumCounted
<1>7. BalancesKnown'
  BY <1>6, BalancesAreNext
<1>8. Balances' = Balances /\ TotalNow' = TotalNow
  BY <1>4, <1>5, <1>7 DEF BalancesKnown
<1>9. Held' = Held
  <2>1. InFlight = 0 /\ OnOffer = 0 /\ InFlight' = 0 /\ OnOffer' = 0
    BY <1>1, <1>2 DEF InFlight, OnOffer
  <2>2. PriceSum(ipo') = PriceSum(ipo) /\ Summed(refunds', Entity) = Summed(refunds, Entity)
    BY <1>1
  <2> QED
    BY <1>1, <2>1, <2>2, HeldSplits DEF HeldIs
<1>10. MoneyOK' /\ LedgerStep
  BY <1>3, <1>8, <1>9 DEF MoneyOK, LedgerStep, TotalNow, GenesisSum
<1>11. JobOK' /\ BidderKnown' /\ FeeOK'
  BY <1>1, <1>2, <1>3 DEF JobOK, BidderKnown, FeeOK
<1>12. BidsOK'
  BY <1>1, <1>3, SameBids
<1> QED
  BY <1>6, <1>10, <1>11, <1>12, InvIsNext

\* The invariant holds at the beginning, when all money is in the table.
LEMMA InvHoldsInit == SpectrumInit => SpectrumInv
<1> SUFFICES ASSUME SpectrumInit PROVE SpectrumInv
  OBVIOUS
<1>1. /\ spectrum = GenesisSpectrum /\ spectrumInfo = InfoOf(spectrum)
      /\ ipo = [n \in 1 .. ShareCount |-> NoBidder] /\ ipoOver = FALSE /\ feeReserve = 0
      /\ job = Idle /\ refunds = NoRefunds
  BY DEF SpectrumInit
<1>2. job.step = "idle"
  BY <1>1 DEF Idle
<1>3. /\ TableOK(spectrum) /\ Cardinality(Used(spectrum)) < SpectrumCapacity
      /\ Total(spectrum) = GenesisSum
  BY <1>1, GenesisIs DEF GenesisSum
<1>4. TableHolds /\ TotalNow = GenesisSum
  BY <1>1, <1>3, InfoIs DEF TableHolds, SpectrumCounted, TotalNow
<1>5. BidsFine(ipo) /\ PriceSum(ipo) = 0 /\ refunds \in [Entity -> Nat]
      /\ Summed(refunds, Entity) = 0
  BY <1>1, NoBids, NothingReleased
<1>6. Held = 0
  <2>1. InFlight = 0 /\ OnOffer = 0
    BY <1>2 DEF InFlight, OnOffer
  <2> QED
    BY <1>1, <1>5, <2>1, HeldSplits DEF HeldIs
<1>7. MoneyOK
  <2>1. GenesisSum \in Nat
    <3>1. IsFiniteSet(Records(spectrum)) /\ Records(spectrum) \subseteq AnyRecord
          /\ Total(spectrum) = RecordSum(Records(spectrum))
      BY <1>3, CountedByRecords
    <3> QED
      BY <1>3, <3>1, FewerRecords
  <2> QED
    BY <1>4, <1>6, <2>1 DEF MoneyOK, TotalNow
<1>8. JobOK /\ BidderKnown /\ FeeOK
  BY <1>1, <1>2 DEF JobOK, BidderKnown, FeeOK
<1>9. BidsOK
  BY <1>1, <1>5 DEF BidsOK, BidsFine, Shares, AnyBid
<1> QED
  BY <1>4, <1>7, <1>8, <1>9, InvIs

\* Each step keeps the invariant and is a step of the ledger, or none.
LEMMA NextKeeps ==
  SpectrumInv /\ [SpectrumNext]_spectrumVars =>
    /\ SpectrumInv'
    /\ [UNCHANGED spectrumVars \/ (Accounts!LedgerNext /\ PaidBySource)]_<<Balances, Held>>
<1> SUFFICES ASSUME SpectrumInv, [SpectrumNext]_spectrumVars
    PROVE  /\ SpectrumInv'
           /\ [UNCHANGED spectrumVars \/ (Accounts!LedgerNext /\ PaidBySource)]_<<Balances, Held>>
  OBVIOUS
<1>1. CASE SpectrumNext
  <2>1. SpectrumInv' /\ LedgerStep
    BY <1>1, TransferKeeps, SendBidKeeps, CreditDestinationKeeps, BidInContractIPOKeeps,
       OfferShareKeeps, RefundKeeps, EndBidKeeps, FinishIPOKeeps, ReorganizeSpectrumKeeps
       DEF SpectrumNext
  <2> QED
    BY <2>1 DEF LedgerStep
<1>2. CASE UNCHANGED spectrumVars
  <2>1. /\ spectrum' = spectrum /\ spectrumInfo' = spectrumInfo /\ ipo' = ipo
        /\ ipoOver' = ipoOver /\ feeReserve' = feeReserve /\ job' = job /\ refunds' = refunds
    BY <1>2 DEF spectrumVars
  <2>2. Held' = Held
    BY <2>1, HeldSplits DEF HeldIs, InFlight, OnOffer
  <2>3. TableHolds' /\ MoneyOK' /\ LedgerStep
    BY <2>1, <2>2, StillStep
  <2>4. JobOK /\ BidsOK /\ BidderKnown /\ FeeOK
    BY InvIs
  <2>5. JobOK' /\ BidderKnown' /\ FeeOK' /\ BidsOK'
    BY <2>1, <2>4 DEF JobOK, Idle, NoBid, Bid, BidderKnown, Full, FeeOK, BidsOK, NoRefunds
  <2> QED
    BY <1>2, <2>3, <2>5, InvIsNext
<1> QED
  BY <1>1, <1>2

-----------------------------------------------------------------------------
(* The theorems.                                                           *)

\* The inductive invariant: searches for entities end at them whatever was reorganised or
\* burned (spectrum.h), bids stay sorted (ipo.h), and no money appears.
THEOREM SpectrumInvariance == SpectrumSpec => []SpectrumInv
<1>1. SpectrumInv /\ [SpectrumNext]_spectrumVars => SpectrumInv'
  BY NextKeeps
<1> QED
  BY <1>1, InvHoldsInit, PTL DEF SpectrumSpec

\* numberOfEntities and totalAmount are those of the table, which never fills up: a search
\* for an entity that is not there ends at a free slot (spectrumIndex, increaseEnergy).
THEOREM TotalsCounted == SpectrumSpec => []SpectrumCounted
<1>1. SpectrumInv => SpectrumCounted
  BY DEF SpectrumInv
<1> QED
  BY <1>1, SpectrumInvariance, PTL

\* The table, the transactions and the IPO with its refunds implement the ledger, and nobody is
\* debited for a transaction of another one, unless the credit of a bid has reorganised the table.
THEOREM SpectrumIsLedger == SpectrumSpec => ImplementsLedger
<1>1. SpectrumInv /\ [SpectrumNext]_spectrumVars
        => [UNCHANGED spectrumVars \/ (Accounts!LedgerNext /\ PaidBySource)]_<<Balances, Held>>
  BY NextKeeps
<1> QED
  BY <1>1, SpectrumInvariance, PTL DEF SpectrumSpec, ImplementsLedger

\* The slot that bidInContractIPO debits is that of the bidder in every run, whatever transfers,
\* refunds and burnings came before, as long as the credit of the same transaction has not
\* reorganised the table.  (When it has, the ASSERT of ipo.h fails: BidPaidByBidder.)
THEOREM BidsPaidByBidders == SpectrumSpec => []PaidUnlessMoved
<1>1. ASSUME SpectrumInv PROVE PaidUnlessMoved
  <2> SUFFICES ASSUME job.step = "bid", ~job.moved PROVE SpectrumIndex(job.source) = job.index
    BY DEF PaidUnlessMoved
  <2>1. TableHolds /\ JobOK /\ BidderKnown
    BY <1>1, InvIs
  <2>2. job.source \in Entity /\ job.index \in Place /\ job.bid # NoBid
    BY <2>1, JobIs
  <2>3. spectrum[job.index].key = job.source
    BY <2>1, <2>2 DEF BidderKnown
  <2>4. TableOK(spectrum) /\ HasRoom(spectrum)
    BY <2>1, BalancesAre, RoomCounted DEF TableHolds, BalancesKnown
  <2>5. PlaceOf(spectrum, job.source) = job.index
    BY <2>2, <2>3, <2>4, SlotOf
  <2> QED
    BY <2>3, <2>5 DEF SpectrumIndex
<1>2. SpectrumInv => PaidUnlessMoved
  BY <1>1
<1> QED
  BY <1>2, SpectrumInvariance, PTL
===============================================================================

------------------------------ MODULE SumTheorems ------------------------------
(***************************************************************************)
(* What the proofs need of numbers, finite sets and sums: a set of natural *)
(* numbers has a least one, induction up to a bound and over a finite set, *)
(* how the sum over a finite set changes with what is summed, and what     *)
(* division yields.                                                        *)
(***************************************************************************)
EXTENDS Integers, FiniteSetsExt, FiniteSetTheorems, WellFoundedInduction, TLAPS

-----------------------------------------------------------------------------
(* Least numbers and induction.                                            *)

Below == {p \in Nat \X Nat : p[1] < p[2]}

\* The natural numbers are well-founded.
LEMMA BelowWellFounded == IsWellFoundedOn(Below, Nat)
<1>1. OpToRel(<, Nat) = Below
  BY DEF OpToRel, Below
<1> QED
  BY <1>1, NatLessThanWellFounded

\* A set of natural numbers has a least one.
LEMMA LeastNumber ==
  ASSUME NEW S, S \subseteq Nat, S # {}
  PROVE  \E n \in S : \A m \in S : n <= m
<1>1. PICK n \in S : \A m \in S : ~(<<m, n>> \in Below)
  BY BelowWellFounded, WFMin
<1>2. \A m, l \in Nat : m < l => <<m, l>> \in Below
  BY DEF Below
<1>3. ASSUME NEW m \in S PROVE n <= m
  <2>1. n \in Nat /\ m \in Nat
    OBVIOUS
  <2>2. ~(m < n)
    BY <2>1, <1>1, <1>2
  <2> QED
    BY <2>1, <2>2
<1> QED
  BY <1>3

\* Induction up to a bound, for the members of a set.
LEMMA BoundedInduction ==
  ASSUME NEW N \in Nat, NEW S, 0 \in S,
         \A n \in 1 .. N : n - 1 \in S => n \in S
  PROVE  0 .. N \subseteq S
<1> DEFINE Missing == {n \in 0 .. N : n \notin S}
<1>1. SUFFICES ASSUME Missing # {} PROVE FALSE
  OBVIOUS
<1>2. Missing \subseteq Nat
  OBVIOUS
<1>3. PICK n \in Missing : \A m \in Missing : n <= m
  <2> HIDE DEF Missing
  <2> QED
    BY <1>1, <1>2, LeastNumber
<1>4. n \in 1 .. N /\ n \notin S
  <2>1. n \in 0 .. N /\ n \notin S
    OBVIOUS
  <2> QED
    BY <2>1
<1>5. n - 1 \in 0 .. N /\ ~(n <= n - 1)
  BY <1>4
<1>6. n - 1 \in S
  BY <1>3, <1>5
<1> QED
  BY <1>4, <1>6

\* Induction over the subsets of a finite set, for the members of Good.
LEMMA FiniteSetInduction ==
  ASSUME NEW S, IsFiniteSet(S), NEW Good, {} \in Good,
         \A T \in SUBSET S : \A x \in S \ T : T \in Good => T \cup {x} \in Good
  PROVE  S \in Good
<1> DEFINE Sizes == {n \in 0 .. Cardinality(S) : \A T \in SUBSET S : Cardinality(T) = n => T \in Good}
<1>1. Cardinality(S) \in Nat
  BY FS_CardinalityType
<1>2. \A T \in SUBSET S : IsFiniteSet(T) /\ Cardinality(T) \in Nat
  BY FS_Subset, FS_CardinalityType
<1>3. 0 \in Sizes
  <2> SUFFICES ASSUME NEW T \in SUBSET S, Cardinality(T) = 0 PROVE T \in Good
    BY <1>1
  <2>1. T = {}
    BY <1>2, FS_EmptySet
  <2> QED
    BY <2>1
<1>4. ASSUME NEW n \in 1 .. Cardinality(S), n - 1 \in Sizes PROVE n \in Sizes
  <2> SUFFICES ASSUME NEW T \in SUBSET S, Cardinality(T) = n PROVE T \in Good
    BY <1>1
  <2>1. T # {}
    BY <1>2, FS_EmptySet
  <2>2. PICK x \in T : TRUE
    BY <2>1
  <2>3. Cardinality(T \ {x}) = n - 1 /\ T \ {x} \in SUBSET S
    BY <1>2, <2>2, FS_RemoveElement
  <2>4. T \ {x} \in Good
    BY <1>4, <2>3
  <2>5. (T \ {x}) \cup {x} = T /\ x \in S \ (T \ {x})
    BY <2>2
  <2> QED
    BY <2>3, <2>4, <2>5
<1>5. Cardinality(S) \in Sizes
  <2> HIDE DEF Sizes
  <2> QED
    BY <1>1, <1>3, <1>4, BoundedInduction
<1> QED
  BY <1>5

-----------------------------------------------------------------------------
(* Sums.                                                                   *)

\* The sum of f[x] over the elements x of S, as the models write it.
Summed(f, S) == MapThenSumSet(LAMBDA x : f[x], S)

AnyOf(s) == CHOOSE x \in s : TRUE

SumStep(f, sum, s) == IF s = {} THEN 0 ELSE f[AnyOf(s)] + sum[s \ {AnyOf(s)}]

\* The sums over all subsets of S.
Sums(f, S) == CHOOSE sum : sum = [s \in SUBSET S |-> SumStep(f, sum, s)]

\* The fold is the last of these sums.
LEMMA SummedIs ==
  ASSUME NEW f, NEW S
  PROVE  Summed(f, S) = Sums(f, S)[S]
BY DEF Summed, MapThenSumSet, MapThenFoldSet, Sums, SumStep, AnyOf

\* A finite set has such sums, each one step further than that of a smaller subset.
LEMMA SumsStep ==
  ASSUME NEW f, NEW S, IsFiniteSet(S)
  PROVE  \A s \in SUBSET S : Sums(f, S)[s] = SumStep(f, Sums(f, S), s)
<1> DEFINE Upto(n) == {s \in SUBSET S : Cardinality(s) <= n}
           Defines(sum, n) == sum = [s \in Upto(n) |-> SumStep(f, sum, s)]
           N == {n \in 0 .. Cardinality(S) : \E sum : Defines(sum, n)}
<1>1. Cardinality(S) \in Nat /\ \A s \in SUBSET S : IsFiniteSet(s) /\ Cardinality(s) \in Nat
  BY FS_Subset, FS_CardinalityType
<1>2. \A s \in SUBSET S : s # {} => /\ AnyOf(s) \in s /\ s \ {AnyOf(s)} \in SUBSET S
                                    /\ Cardinality(s \ {AnyOf(s)}) = Cardinality(s) - 1
  BY <1>1, FS_RemoveElement DEF AnyOf
<1>3. 0 \in N
  <2> DEFINE sum == [s \in Upto(0) |-> 0]
  <2>1. \A s \in Upto(0) : s = {}
    BY <1>1, FS_EmptySet
  <2>2. Defines(sum, 0)
    BY <2>1 DEF SumStep
  <2> HIDE DEF sum, Defines
  <2> QED
    BY <1>1, <2>2
<1>4. ASSUME NEW n \in 1 .. Cardinality(S), n - 1 \in N PROVE n \in N
  <2>1. PICK sum : Defines(sum, n - 1)
    BY <1>4
  <2> DEFINE next == [s \in Upto(n) |-> SumStep(f, sum, s)]
  <2>2. \A s \in Upto(n - 1) : sum[s] = SumStep(f, sum, s)
    BY <2>1
  <2>3. Upto(n - 1) \subseteq Upto(n)
    BY <1>1
  <2>4. \A s \in Upto(n - 1) : next[s] = sum[s]
    BY <2>2, <2>3
  <2>5. \A s \in Upto(n) : SumStep(f, next, s) = SumStep(f, sum, s)
    <3> SUFFICES ASSUME NEW s \in Upto(n) PROVE SumStep(f, next, s) = SumStep(f, sum, s)
      OBVIOUS
    <3>1. CASE s = {}
      BY <3>1 DEF SumStep
    <3>2. CASE s # {}
      <4>1. s \ {AnyOf(s)} \in Upto(n - 1)
        BY <1>1, <1>2, <3>2
      <4>2. next[s \ {AnyOf(s)}] = sum[s \ {AnyOf(s)}]
        BY <2>4, <4>1
      <4> HIDE DEF next
      <4> QED
        BY <3>2, <4>2 DEF SumStep
    <3> QED
      BY <3>1, <3>2
  <2>6. Defines(next, n)
    BY <2>5
  <2> HIDE DEF next, Defines
  <2> QED
    BY <1>1, <2>6
<1>5. Cardinality(S) \in N
  <2> HIDE DEF N
  <2> QED
    BY <1>1, <1>3, <1>4, BoundedInduction
<1>6. Upto(Cardinality(S)) = SUBSET S
  BY FS_Subset
<1>7. \E sum : sum = [s \in SUBSET S |-> SumStep(f, sum, s)]
  BY <1>5, <1>6
<1>8. Sums(f, S) = [s \in SUBSET S |-> SumStep(f, Sums(f, S), s)]
  BY <1>7 DEF Sums
<1>9. ASSUME NEW sum, sum = [s \in SUBSET S |-> SumStep(f, sum, s)]
      PROVE  \A s \in SUBSET S : sum[s] = SumStep(f, sum, s)
  <2> DEFINE step(s) == SumStep(f, sum, s)
  <2>1. sum = [s \in SUBSET S |-> step(s)]
    BY <1>9
  <2> HIDE DEF step
  <2>2. \A s \in SUBSET S : sum[s] = step(s)
    BY <2>1
  <2> QED
    BY <2>2 DEF step
<1> QED
  BY <1>8, <1>9

\* The sums over the subsets of a subset are the same.
LEMMA SumsAgree ==
  ASSUME NEW f, NEW S, IsFiniteSet(S), NEW T \in SUBSET S
  PROVE  \A s \in SUBSET T : Sums(f, T)[s] = Sums(f, S)[s]
<1> DEFINE N == {n \in 0 .. Cardinality(T) :
                   \A s \in SUBSET T : Cardinality(s) = n => Sums(f, T)[s] = Sums(f, S)[s]}
<1>1. IsFiniteSet(T) /\ SUBSET T \subseteq SUBSET S
  BY FS_Subset
<1>2. /\ Cardinality(T) \in Nat
      /\ \A s \in SUBSET T : /\ IsFiniteSet(s) /\ Cardinality(s) \in Nat
                             /\ Cardinality(s) <= Cardinality(T)
  BY <1>1, FS_Subset, FS_CardinalityType
<1>3. \A s \in SUBSET T : /\ Sums(f, T)[s] = SumStep(f, Sums(f, T), s)
                          /\ Sums(f, S)[s] = SumStep(f, Sums(f, S), s)
  BY <1>1, SumsStep
<1>4. 0 \in N
  <2> SUFFICES ASSUME NEW s \in SUBSET T, Cardinality(s) = 0
      PROVE Sums(f, T)[s] = Sums(f, S)[s]
    BY <1>2
  <2>1. s = {}
    BY <1>2, FS_EmptySet
  <2> QED
    BY <1>3, <2>1 DEF SumStep
<1>5. ASSUME NEW n \in 1 .. Cardinality(T), n - 1 \in N PROVE n \in N
  <2> SUFFICES ASSUME NEW s \in SUBSET T, Cardinality(s) = n
      PROVE Sums(f, T)[s] = Sums(f, S)[s]
    BY <1>2
  <2>1. s # {}
    BY <1>2, FS_EmptySet
  <2>2. AnyOf(s) \in s
    BY <2>1 DEF AnyOf
  <2>3. s \ {AnyOf(s)} \in SUBSET T /\ Cardinality(s \ {AnyOf(s)}) = n - 1
    BY <1>2, <2>2, FS_RemoveElement
  <2>4. Sums(f, T)[s \ {AnyOf(s)}] = Sums(f, S)[s \ {AnyOf(s)}]
    BY <1>5, <2>3
  <2> QED
    BY <1>3, <2>1, <2>4 DEF SumStep
<1>6. 0 .. Cardinality(T) \subseteq N
  <2> HIDE DEF N
  <2> QED
    BY <1>2, <1>4, <1>5, BoundedInduction
<1> QED
  BY <1>2, <1>6

\* The sum over no element is 0, and that over more splits off the one that is chosen.
LEMMA SummedStep ==
  ASSUME NEW f, NEW S, IsFiniteSet(S)
  PROVE  Summed(f, S) = IF S = {} THEN 0 ELSE f[AnyOf(S)] + Summed(f, S \ {AnyOf(S)})
<1>1. Sums(f, S)[S] = SumStep(f, Sums(f, S), S)
  <2>1. \A s \in SUBSET S : Sums(f, S)[s] = SumStep(f, Sums(f, S), s)
    BY SumsStep
  <2> QED
    BY <2>1
<1>2. S \ {AnyOf(S)} \in SUBSET S
  OBVIOUS
<1>3. Sums(f, S \ {AnyOf(S)})[S \ {AnyOf(S)}] = Sums(f, S)[S \ {AnyOf(S)}]
  BY <1>2, SumsAgree
<1> QED
  BY <1>1, <1>3, SummedIs DEF SumStep

\* The sum over no element.
LEMMA SummedEmpty ==
  ASSUME NEW f
  PROVE  Summed(f, {}) = 0
<1>1. IsFiniteSet({})
  BY FS_EmptySet
<1> QED
  BY <1>1, SummedStep

\* A sum of numbers is a number.
LEMMA SummedTyped ==
  ASSUME NEW S, IsFiniteSet(S), NEW f, \A x \in S : f[x] \in Int
  PROVE  \A T \in SUBSET S : Summed(f, T) \in Int
<1> DEFINE N == {n \in 0 .. Cardinality(S) :
                   \A T \in SUBSET S : Cardinality(T) = n => Summed(f, T) \in Int}
<1>1. /\ Cardinality(S) \in Nat
      /\ \A T \in SUBSET S : /\ IsFiniteSet(T) /\ Cardinality(T) \in Nat
                             /\ Cardinality(T) <= Cardinality(S)
  BY FS_Subset, FS_CardinalityType
<1>2. 0 \in N
  BY <1>1, FS_EmptySet, SummedStep
<1>3. ASSUME NEW n \in 1 .. Cardinality(S), n - 1 \in N PROVE n \in N
  <2> SUFFICES ASSUME NEW T \in SUBSET S, Cardinality(T) = n PROVE Summed(f, T) \in Int
    BY <1>1
  <2>1. T # {}
    BY <1>1, FS_EmptySet
  <2>2. AnyOf(T) \in T
    BY <2>1 DEF AnyOf
  <2>3. T \ {AnyOf(T)} \in SUBSET S /\ Cardinality(T \ {AnyOf(T)}) = n - 1
    BY <1>1, <2>2, FS_RemoveElement
  <2>4. Summed(f, T \ {AnyOf(T)}) \in Int
    BY <1>3, <2>3
  <2> QED
    BY <1>1, <2>1, <2>2, <2>4, SummedStep
<1>4. 0 .. Cardinality(S) \subseteq N
  <2> HIDE DEF N
  <2> QED
    BY <1>1, <1>2, <1>3, BoundedInduction
<1> QED
  BY <1>1, <1>4

\* It does not depend on the element that is split off.
LEMMA SummedAdd ==
  ASSUME NEW S, IsFiniteSet(S), NEW f, \A x \in S : f[x] \in Int
  PROVE  /\ Summed(f, {}) = 0
         /\ Summed(f, S) \in Int
         /\ \A x \in S : Summed(f, S) = f[x] + Summed(f, S \ {x})
<1> DEFINE Fine(T) == /\ Summed(f, T) \in Int
                      /\ \A x \in T : Summed(f, T) = f[x] + Summed(f, T \ {x})
           N == {n \in 0 .. Cardinality(S) : \A T \in SUBSET S : Cardinality(T) = n => Fine(T)}
<1>1. Summed(f, {}) = 0
  BY SummedEmpty
<1>2. /\ Cardinality(S) \in Nat
      /\ \A T \in SUBSET S : IsFiniteSet(T) /\ Cardinality(T) \in Nat
  BY FS_Subset, FS_CardinalityType
<1>3. 0 \in N
  <2> SUFFICES ASSUME NEW T \in SUBSET S, Cardinality(T) = 0 PROVE Fine(T)
    BY <1>2
  <2>1. T = {}
    BY <1>2, FS_EmptySet
  <2> QED
    BY <1>1, <2>1
<1>4. ASSUME NEW n \in 1 .. Cardinality(S), n - 1 \in N PROVE n \in N
  <2> SUFFICES ASSUME NEW T \in SUBSET S, Cardinality(T) = n PROVE Fine(T)
    BY <1>2
  <2>1. T # {} /\ IsFiniteSet(T)
    BY <1>2, FS_EmptySet
  <2> DEFINE c == AnyOf(T)
  <2>2. c \in T
    BY <2>1 DEF AnyOf
  <2>3. \A x \in T : T \ {x} \in SUBSET S /\ Cardinality(T \ {x}) = n - 1
    BY <1>2, FS_RemoveElement
  <2>4. \A x \in T : Fine(T \ {x})
    BY <1>4, <2>3
  <2>5. Summed(f, T) = f[c] + Summed(f, T \ {c})
    BY <2>1, SummedStep
  <2> HIDE DEF c
  <2>6. Summed(f, T) \in Int
    BY <2>2, <2>4, <2>5
  <2>7. ASSUME NEW x \in T, x # c PROVE Summed(f, T) = f[x] + Summed(f, T \ {x})
    <3>1. Summed(f, T \ {c}) = f[x] + Summed(f, (T \ {c}) \ {x})
      BY <2>2, <2>4, <2>7
    <3>2. Summed(f, T \ {x}) = f[c] + Summed(f, (T \ {x}) \ {c})
      BY <2>2, <2>4, <2>7
    <3>3. (T \ {c}) \ {x} = (T \ {x}) \ {c}
      OBVIOUS
    <3>4. Summed(f, (T \ {x}) \ {c}) \in Int
      BY SummedTyped
    <3>5. f[x] \in Int /\ f[c] \in Int
      BY <2>2
    <3>6. Summed(f, (T \ {c}) \ {x}) = Summed(f, (T \ {x}) \ {c})
      BY <3>3
    <3> QED
      BY <2>5, <3>1, <3>2, <3>4, <3>5, <3>6
  <2> QED
    BY <2>5, <2>6, <2>7
<1>5. Cardinality(S) \in N
  <2> HIDE DEF N
  <2> QED
    BY <1>2, <1>3, <1>4, BoundedInduction
<1> QED
  BY <1>1, <1>5

\* An element is added to what is summed over.
LEMMA SummedInsert ==
  ASSUME NEW S, IsFiniteSet(S), NEW f, \A x \in S : f[x] \in Int,
         NEW T \in SUBSET S, NEW x \in S \ T
  PROVE  /\ Summed(f, T) \in Int
         /\ Summed(f, T \cup {x}) = f[x] + Summed(f, T)
<1>1. IsFiniteSet(T \cup {x}) /\ \A y \in T \cup {x} : f[y] \in Int
  BY FS_Subset
<1>2. (T \cup {x}) \ {x} = T
  OBVIOUS
<1> QED
  BY <1>1, <1>2, SummedAdd, SummedTyped

\* The sum of natural numbers is one, and each of them, and each two, are within it.
LEMMA SummedNat ==
  ASSUME NEW S, IsFiniteSet(S), NEW f, \A x \in S : f[x] \in Nat
  PROVE  /\ Summed(f, S) \in Nat
         /\ \A x \in S : f[x] <= Summed(f, S)
         /\ \A x, y \in S : x # y => f[x] + f[y] <= Summed(f, S)
<1>1. \A x \in S : f[x] \in Int
  OBVIOUS
<1> DEFINE Good == {T \in SUBSET S : Summed(f, T) \in Nat}
<1>2. {} \in Good
  BY SummedEmpty
<1>3. \A T \in SUBSET S : \A x \in S \ T : T \in Good => T \cup {x} \in Good
  BY <1>1, SummedInsert
<1>4. \A T \in SUBSET S : Summed(f, T) \in Nat
  <2> SUFFICES ASSUME NEW T \in SUBSET S PROVE Summed(f, T) \in Nat
    OBVIOUS
  <2> DEFINE Within == {U \in SUBSET T : Summed(f, U) \in Nat}
  <2>1. {} \in Within
    BY SummedEmpty
  <2>2. \A U \in SUBSET T : \A x \in T \ U : U \in Within => U \cup {x} \in Within
    BY <1>1, SummedInsert
  <2>3. T \in Within
    <3>1. IsFiniteSet(T)
      BY FS_Subset
    <3> HIDE DEF Within
    <3> QED
      BY <2>1, <2>2, <3>1, FiniteSetInduction
  <2> QED
    BY <2>3
<1>5. ASSUME NEW x \in S PROVE f[x] <= Summed(f, S)
  <2>1. Summed(f, S) = f[x] + Summed(f, S \ {x})
    BY <1>1, SummedAdd
  <2> QED
    BY <1>4, <2>1
<1>6. ASSUME NEW x \in S, NEW y \in S, x # y PROVE f[x] + f[y] <= Summed(f, S)
  <2>1. Summed(f, S) = f[x] + Summed(f, S \ {x})
    BY <1>1, SummedAdd
  <2>2. /\ S \ {x} = ((S \ {x}) \ {y}) \cup {y}
        /\ (S \ {x}) \ {y} \in SUBSET S /\ y \in S \ ((S \ {x}) \ {y})
    BY <1>6
  <2>3. Summed(f, S \ {x}) = f[y] + Summed(f, (S \ {x}) \ {y})
    BY <1>1, <2>2, SummedInsert
  <2>4. Summed(f, (S \ {x}) \ {y}) \in Nat
    BY <1>4
  <2> QED
    BY <2>1, <2>3, <2>4
<1> QED
  BY <1>4, <1>5, <1>6

\* What is summed differs by g, on each element.
LEMMA SummedPlus ==
  ASSUME NEW S, IsFiniteSet(S), NEW f, NEW g, NEW h,
         \A x \in S : f[x] \in Int /\ g[x] \in Int /\ h[x] = f[x] + g[x]
  PROVE  Summed(h, S) = Summed(f, S) + Summed(g, S)
<1> DEFINE Good == {T \in SUBSET S : Summed(h, T) = Summed(f, T) + Summed(g, T)}
<1>1. /\ \A x \in S : f[x] \in Int
      /\ \A x \in S : g[x] \in Int
      /\ \A x \in S : h[x] \in Int
  OBVIOUS
<1>2. {} \in Good
  BY SummedEmpty
<1>3. ASSUME NEW T \in SUBSET S, NEW x \in S \ T, T \in Good PROVE T \cup {x} \in Good
  <2>1. Summed(f, T) \in Int /\ Summed(f, T \cup {x}) = f[x] + Summed(f, T)
    BY <1>1, SummedInsert
  <2>2. Summed(g, T) \in Int /\ Summed(g, T \cup {x}) = g[x] + Summed(g, T)
    BY <1>1, SummedInsert
  <2>3. Summed(h, T) \in Int /\ Summed(h, T \cup {x}) = h[x] + Summed(h, T)
    BY <1>1, SummedInsert
  <2>4. f[x] \in Int /\ g[x] \in Int /\ h[x] = f[x] + g[x]
    OBVIOUS
  <2>5. Summed(h, T) = Summed(f, T) + Summed(g, T)
    BY <1>3
  <2>6. Summed(h, T \cup {x}) = Summed(f, T \cup {x}) + Summed(g, T \cup {x})
    BY <2>1, <2>2, <2>3, <2>4, <2>5
  <2> QED
    BY <2>6
<1>4. S \in Good
  <2> HIDE DEF Good
  <2> QED
    BY <1>2, <1>3, FiniteSetInduction
<1> QED
  BY <1>4

\* Nothing is summed.
LEMMA SummedZero ==
  ASSUME NEW S, IsFiniteSet(S), NEW f, \A x \in S : f[x] = 0
  PROVE  Summed(f, S) = 0
<1>1. Summed(f, S) = Summed(f, S) + Summed(f, S)
  BY SummedPlus
<1>2. Summed(f, S) \in Int
  BY SummedAdd
<1>3. \A n \in Int : n = n + n => n = 0
  OBVIOUS
<1> QED
  BY <1>1, <1>2, <1>3

\* What is summed changes at one element only.
LEMMA SummedChange ==
  ASSUME NEW S, IsFiniteSet(S), NEW f, NEW g, NEW x \in S,
         \A y \in S : f[y] \in Int, g[x] \in Int,
         \A y \in S \ {x} : g[y] = f[y]
  PROVE  /\ Summed(f, S) \in Int
         /\ Summed(g, S) = Summed(f, S) + (g[x] - f[x])
<1> DEFINE z == [y \in S |-> 0]
<1>1. IsFiniteSet(S \ {x}) /\ \A y \in S : g[y] \in Int
  BY FS_RemoveElement
<1>2. Summed(g, S \ {x}) = Summed(f, S \ {x}) + Summed(z, S \ {x})
  BY <1>1, SummedPlus
<1>3. Summed(z, S \ {x}) = 0
  BY <1>1, SummedZero
<1>4. Summed(f, S) = f[x] + Summed(f, S \ {x}) /\ Summed(g, S) = g[x] + Summed(g, S \ {x})
  BY <1>1, SummedAdd
<1>5. Summed(f, S \ {x}) \in Int /\ Summed(f, S) \in Int
  BY SummedTyped
<1> QED
  BY <1>2, <1>3, <1>4, <1>5

\* Something moves from one element to another: the sum stays.
LEMMA SummedMove ==
  ASSUME NEW S, IsFiniteSet(S), NEW f, NEW g, NEW x \in S, NEW y \in S, x # y, NEW n \in Int,
         \A w \in S : f[w] \in Int, g[x] = f[x] - n, g[y] = f[y] + n,
         \A w \in S \ {x, y} : g[w] = f[w]
  PROVE  Summed(g, S) = Summed(f, S)
<1> DEFINE h == [w \in S |-> IF w = x THEN f[x] - n ELSE f[w]]
<1>1. /\ h[x] = f[x] - n /\ \A w \in S : h[w] \in Int
      /\ \A w \in S \ {x} : h[w] = f[w]
  OBVIOUS
<1>2. g[y] = h[y] + n /\ \A w \in S \ {y} : g[w] = h[w]
  BY <1>1
<1> HIDE DEF h
<1>3. Summed(f, S) \in Int /\ Summed(h, S) = Summed(f, S) + (h[x] - f[x])
  BY <1>1, SummedChange
<1>4. Summed(h, S) \in Int /\ Summed(g, S) = Summed(h, S) + (g[y] - h[y])
  <2>1. \A w \in S : h[w] \in Int
    BY <1>1
  <2>2. g[y] \in Int
    BY <1>2, <2>1
  <2> QED
    BY <1>2, <2>1, <2>2, SummedChange
<1>5. f[x] \in Int /\ h[y] \in Int
  BY <1>1
<1> QED
  BY <1>1, <1>2, <1>3, <1>4, <1>5

\* Shares of a total, each rounded down, are together not above the same share of the total.
LEMMA SummedShares ==
  ASSUME NEW S, IsFiniteSet(S), NEW f, NEW g, NEW m \in Nat, NEW n \in Nat,
         \A x \in S : f[x] \in Int /\ g[x] \in Int /\ m * f[x] <= n * g[x]
  PROVE  m * Summed(f, S) <= n * Summed(g, S)
<1> DEFINE Good == {T \in SUBSET S : m * Summed(f, T) <= n * Summed(g, T)}
<1>1. /\ \A x \in S : f[x] \in Int
      /\ \A x \in S : g[x] \in Int
  OBVIOUS
<1>2. {} \in Good
  BY SummedEmpty
<1>3. ASSUME NEW T \in SUBSET S, NEW x \in S \ T, T \in Good PROVE T \cup {x} \in Good
  <2>1. Summed(f, T) \in Int /\ Summed(f, T \cup {x}) = f[x] + Summed(f, T)
    BY <1>1, SummedInsert
  <2>2. Summed(g, T) \in Int /\ Summed(g, T \cup {x}) = g[x] + Summed(g, T)
    BY <1>1, SummedInsert
  <2>3. f[x] \in Int /\ g[x] \in Int /\ m * f[x] <= n * g[x]
    OBVIOUS
  <2>4. m * Summed(f, T) <= n * Summed(g, T)
    BY <1>3
  <2>5. \A k, a, b \in Int : k * (a + b) = k * a + k * b /\ k * a \in Int
    OBVIOUS
  <2>6. /\ m * Summed(f, T \cup {x}) = m * f[x] + m * Summed(f, T)
        /\ n * Summed(g, T \cup {x}) = n * g[x] + n * Summed(g, T)
        /\ {m * f[x], m * Summed(f, T), n * g[x], n * Summed(g, T)} \subseteq Int
    BY <2>1, <2>2, <2>3, <2>5
  <2>7. m * Summed(f, T \cup {x}) <= n * Summed(g, T \cup {x})
    BY <2>3, <2>4, <2>6
  <2> QED
    BY <2>7
<1>4. S \in Good
  <2> HIDE DEF Good
  <2> QED
    BY <1>2, <1>3, FiniteSetInduction
<1> QED
  BY <1>4

-----------------------------------------------------------------------------
(* Counting and renaming.                                                  *)

\* A set has as many elements as numbers, when each number stands for one and no two for the same.
LEMMA ValuesCounted ==
  ASSUME NEW n \in Nat, NEW S, NEW f,
         \A i \in 1 .. n : f[i] \in S,
         \A x \in S : \E i \in 1 .. n : f[i] = x,
         \A i, j \in 1 .. n : f[i] = f[j] => i = j
  PROVE  IsFiniteSet(S) /\ Cardinality(S) = n
<1> DEFINE g == [i \in 1 .. n |-> f[i]]
<1>1. g \in [1 .. n -> S]
  OBVIOUS
<1>2. \A i, j \in 1 .. n : g[i] = g[j] => i = j
  OBVIOUS
<1>3. \A x \in S : \E i \in 1 .. n : g[i] = x
  OBVIOUS
<1>4. ExistsBijection(1 .. n, S)
  <2> HIDE DEF g
  <2> QED
    BY <1>1, <1>2, <1>3 DEF ExistsBijection, Bijection, Injection, Surjection, IsInjective
<1>5. IsFiniteSet(1 .. n) /\ Cardinality(1 .. n) = n
  BY FS_Interval
<1> QED
  BY <1>4, <1>5, FS_Bijection

\* The elements are renamed.
LEMMA SummedRenamed ==
  ASSUME NEW S, IsFiniteSet(S), NEW f, NEW h, NEW g,
         \A x \in S : f[x] \in Int /\ g[h[x]] = f[x],
         \A x, y \in S : h[x] = h[y] => x = y
  PROVE  Summed(f, S) = Summed(g, {h[x] : x \in S})
<1> DEFINE Renamed(T) == {h[x] : x \in T}
           Good == {T \in SUBSET S : Summed(f, T) = Summed(g, Renamed(T))}
<1>1. {} \in Good
  <2>1. Renamed({}) = {}
    OBVIOUS
  <2> QED
    BY <2>1, SummedEmpty
<1>2. IsFiniteSet(Renamed(S)) /\ \A y \in Renamed(S) : g[y] \in Int
  <2> DEFINE k == [x \in S |-> h[x]]
  <2>1. k \in [S -> Renamed(S)] /\ \A y \in Renamed(S) : \E x \in S : k[x] = y
    OBVIOUS
  <2>2. k \in Surjection(S, Renamed(S))
    <3> HIDE DEF k, Renamed
    <3> QED
      BY <2>1 DEF Surjection
  <2>3. IsFiniteSet(Renamed(S))
    <3> HIDE DEF k, Renamed
    <3> QED
      BY <2>2, FS_Surjection
  <2> QED
    BY <2>3
<1>3. ASSUME NEW T \in SUBSET S, NEW x \in S \ T, T \in Good PROVE T \cup {x} \in Good
  <2>1. Renamed(T) \in SUBSET Renamed(S) /\ h[x] \in Renamed(S) \ Renamed(T)
    OBVIOUS
  <2>2. Renamed(T \cup {x}) = Renamed(T) \cup {h[x]}
    OBVIOUS
  <2>3. Summed(f, T \cup {x}) = f[x] + Summed(f, T)
    BY SummedInsert
  <2>4. Summed(g, Renamed(T) \cup {h[x]}) = g[h[x]] + Summed(g, Renamed(T))
    <3> HIDE DEF Renamed
    <3> QED
      BY <1>2, <2>1, SummedInsert
  <2>5. Summed(f, T) = Summed(g, Renamed(T)) /\ g[h[x]] = f[x]
    BY <1>3
  <2>6. Summed(f, T \cup {x}) = Summed(g, Renamed(T \cup {x}))
    BY <2>2, <2>3, <2>4, <2>5
  <2> QED
    BY <2>6
<1>4. S \in Good
  <2> HIDE DEF Good
  <2> QED
    BY <1>1, <1>3, FiniteSetInduction
<1> QED
  BY <1>4

\* A set of the first numbers has as many as its last one says.
LEMMA FirstNumbers ==
  ASSUME NEW n \in Nat, NEW S \in SUBSET (1 .. n), \A i \in S : \A j \in 1 .. i : j \in S
  PROVE  Cardinality(S) \in 0 .. n /\ S = 1 .. Cardinality(S)
<1> DEFINE Rest == (1 .. n) \ S
<1>1. \E m \in 0 .. n : S = 1 .. m
  <2>1. CASE Rest = {}
    <3>1. S = 1 .. n
      BY <2>1
    <3>2. n \in 0 .. n
      OBVIOUS
    <3> QED
      BY <3>1, <3>2
  <2>2. CASE Rest # {}
    <3>1. PICK l \in Rest : \A i \in Rest : l <= i
      <4>1. Rest \subseteq Nat
        OBVIOUS
      <4> HIDE DEF Rest
      <4> QED
        BY <2>2, <4>1, LeastNumber
    <3>2. l \in 1 .. n /\ l \notin S
      OBVIOUS
    <3>3. ASSUME NEW i \in 1 .. l - 1 PROVE i \in S
      BY <3>1, <3>2
    <3>4. ASSUME NEW i \in S PROVE i \in 1 .. l - 1
      BY <3>2
    <3>5. S = 1 .. l - 1
      BY <3>3, <3>4
    <3>6. l - 1 \in 0 .. n
      BY <3>2
    <3> QED
      BY <3>5, <3>6
  <2> QED
    BY <2>1, <2>2
<1>2. PICK m \in 0 .. n : S = 1 .. m
  BY <1>1
<1>3. Cardinality(1 .. m) = m
  BY FS_Interval
<1> QED
  BY <1>2, <1>3

\* A bounded set of natural numbers has a greatest one.
LEMMA GreatestNumber ==
  ASSUME NEW N \in Nat, NEW S, S \subseteq 0 .. N, S # {}
  PROVE  \E n \in S : \A m \in S : m <= n
<1> DEFINE T == {j \in 0 .. N : N - j \in S}
<1>1. T \subseteq Nat
  OBVIOUS
<1>2. \A m \in S : m \in Int /\ N - m \in T
  <2> SUFFICES ASSUME NEW m \in S PROVE m \in Int /\ N - m \in T
    OBVIOUS
  <2>1. m \in 0 .. N
    OBVIOUS
  <2>2. N - m \in 0 .. N /\ N - (N - m) = m
    BY <2>1
  <2> QED
    BY <2>1, <2>2
<1>3. PICK j \in T : \A i \in T : j <= i
  <2>1. T # {}
    BY <1>2
  <2> HIDE DEF T
  <2> QED
    BY <1>1, <2>1, LeastNumber
<1>4. j \in Int /\ N - j \in S
  OBVIOUS
<1>5. ASSUME NEW m \in S PROVE m <= N - j
  <2>1. m \in Int /\ j <= N - m
    BY <1>2, <1>3
  <2> QED
    BY <1>4, <2>1
<1> QED
  BY <1>4, <1>5

\* The sum over two sets without a common element.
LEMMA SummedDisjoint ==
  ASSUME NEW S, IsFiniteSet(S), NEW f, \A x \in S : f[x] \in Int,
         NEW A \in SUBSET S, NEW B \in SUBSET S, A \cap B = {}
  PROVE  Summed(f, A \cup B) = Summed(f, A) + Summed(f, B)
<1> DEFINE Good == {T \in SUBSET B : Summed(f, A \cup T) = Summed(f, A) + Summed(f, T)}
<1>1. {} \in Good
  <2>1. Summed(f, A) \in Int /\ A \cup {} = A
    BY SummedTyped
  <2> QED
    BY <2>1, SummedEmpty
<1>2. ASSUME NEW T \in SUBSET B, NEW x \in B \ T, T \in Good PROVE T \cup {x} \in Good
  <2>1. /\ A \cup T \in SUBSET S /\ x \in S \ (A \cup T) /\ T \in SUBSET S /\ x \in S \ T
        /\ A \cup (T \cup {x}) = (A \cup T) \cup {x}
    OBVIOUS
  <2>2. Summed(f, (A \cup T) \cup {x}) = f[x] + Summed(f, A \cup T)
    BY <2>1, SummedInsert
  <2>3. Summed(f, T \cup {x}) = f[x] + Summed(f, T)
    BY <2>1, SummedInsert
  <2>4. Summed(f, A \cup T) = Summed(f, A) + Summed(f, T)
    BY <1>2
  <2>5. f[x] \in Int /\ Summed(f, A) \in Int /\ Summed(f, T) \in Int
    BY <2>1, SummedTyped
  <2>6. \A a, b, c \in Int : a + (b + c) = b + (a + c)
    OBVIOUS
  <2>7. Summed(f, A \cup (T \cup {x})) = f[x] + (Summed(f, A) + Summed(f, T))
    BY <2>1, <2>2, <2>4, Zenon
  <2>8. Summed(f, A \cup (T \cup {x})) = Summed(f, A) + Summed(f, T \cup {x})
    <3>1. f[x] + (Summed(f, A) + Summed(f, T)) = Summed(f, A) + (f[x] + Summed(f, T))
      BY <2>5, <2>6
    <3> QED
      BY <2>3, <2>7, <3>1, Zenon
  <2> QED
    BY <2>8
<1>3. B \in Good
  <2>1. IsFiniteSet(B)
    BY FS_Subset
  <2> HIDE DEF Good
  <2> QED
    BY <1>1, <1>2, <2>1, FiniteSetInduction
<1> QED
  BY <1>3

\* Elements for which nothing is summed can be left out.
LEMMA SummedOutside ==
  ASSUME NEW S, IsFiniteSet(S), NEW f, \A x \in S : f[x] \in Int,
         NEW T \in SUBSET S, \A x \in S \ T : f[x] = 0
  PROVE  Summed(f, S) = Summed(f, T)
<1>1. Summed(f, T \cup (S \ T)) = Summed(f, T) + Summed(f, S \ T)
  <2>1. S \ T \in SUBSET S /\ T \cap (S \ T) = {}
    OBVIOUS
  <2> QED
    BY <2>1, SummedDisjoint
<1>2. Summed(f, S \ T) = 0
  <2>1. IsFiniteSet(S \ T)
    BY FS_Subset
  <2> QED
    BY <2>1, SummedZero
<1>3. T \cup (S \ T) = S
  OBVIOUS
<1>4. Summed(f, T) + 0 = Summed(f, T)
  <2>1. Summed(f, T) \in Int
    BY SummedTyped
  <2> QED
    BY <2>1
<1> QED
  BY <1>1, <1>2, <1>3, <1>4, Zenon

\* The same is summed for every element.
LEMMA SummedConstant ==
  ASSUME NEW S, IsFiniteSet(S), NEW c \in Int, NEW f, \A x \in S : f[x] = c
  PROVE  Summed(f, S) = c * Cardinality(S)
<1> DEFINE Good == {T \in SUBSET S : Summed(f, T) = c * Cardinality(T)}
<1>1. \A x \in S : f[x] \in Int
  OBVIOUS
<1>2. {} \in Good
  BY SummedEmpty, FS_EmptySet
<1>3. ASSUME NEW T \in SUBSET S, NEW x \in S \ T, T \in Good PROVE T \cup {x} \in Good
  <2>1. Summed(f, T \cup {x}) = f[x] + Summed(f, T)
    BY <1>1, SummedInsert
  <2>2. IsFiniteSet(T) /\ Cardinality(T) \in Nat /\ Cardinality(T \cup {x}) = Cardinality(T) + 1
    BY FS_Subset, FS_CardinalityType, FS_AddElement
  <2>3. Summed(f, T) = c * Cardinality(T) /\ f[x] = c
    BY <1>3
  <2>4. \A n \in Nat : c * (n + 1) = c + c * n
    OBVIOUS
  <2>5. Summed(f, T \cup {x}) = c * Cardinality(T \cup {x})
    BY <2>1, <2>2, <2>3, <2>4
  <2> QED
    BY <2>5
<1>4. S \in Good
  <2> HIDE DEF Good
  <2> QED
    BY <1>2, <1>3, FiniteSetInduction
<1> QED
  BY <1>4

\* In a list of n numbers the last is dropped, and one is put at the place m.
LEMMA SummedShift ==
  ASSUME NEW n \in Nat \ {0}, NEW f, NEW g, NEW m \in 1 .. n,
         \A i \in 1 .. n : f[i] \in Int /\ g[i] \in Int,
         \A i \in 1 .. m - 1 : g[i] = f[i],
         \A i \in m + 1 .. n : g[i] = f[i - 1]
  PROVE  Summed(g, 1 .. n) = Summed(f, 1 .. n) - f[n] + g[m]
<1> DEFINE h == [i \in 1 .. n - 1 |-> IF i < m THEN i ELSE i + 1]
<1>1. IsFiniteSet(1 .. n) /\ IsFiniteSet(1 .. n - 1)
  BY FS_Interval
<1>2. /\ \A i \in 1 .. n : f[i] \in Int
      /\ \A i \in 1 .. n : g[i] \in Int
  OBVIOUS
<1>3. /\ \A i \in 1 .. n - 1 : f[i] \in Int /\ g[h[i]] = f[i]
      /\ \A i, j \in 1 .. n - 1 : h[i] = h[j] => i = j
  <2>1. ASSUME NEW i \in 1 .. n - 1 PROVE g[h[i]] = f[i]
    <3>1. CASE i < m
      BY <3>1
    <3>2. CASE ~(i < m)
      <4>1. h[i] = i + 1 /\ i + 1 \in m + 1 .. n /\ (i + 1) - 1 = i
        BY <3>2
      <4> HIDE DEF h
      <4> QED
        BY <4>1
    <3> QED
      BY <3>1, <3>2
  <2> QED
    BY <2>1
<1>4. {h[i] : i \in 1 .. n - 1} = (1 .. n) \ {m}
  <2>1. ASSUME NEW i \in 1 .. n - 1 PROVE h[i] \in (1 .. n) \ {m}
    OBVIOUS
  <2>2. ASSUME NEW j \in (1 .. n) \ {m} PROVE \E i \in 1 .. n - 1 : h[i] = j
    <3>1. CASE j < m
      <4>1. j \in 1 .. n - 1 /\ h[j] = j
        BY <3>1
      <4> QED
        BY <4>1
    <3>2. CASE j > m
      <4>1. j - 1 \in 1 .. n - 1 /\ h[j - 1] = j
        BY <3>2
      <4> QED
        BY <4>1
    <3> QED
      BY <3>1, <3>2
  <2> HIDE DEF h
  <2> QED
    BY <2>1, <2>2
<1>5. Summed(f, 1 .. n - 1) = Summed(g, (1 .. n) \ {m})
  <2>1. Summed(f, 1 .. n - 1) = Summed(g, {h[i] : i \in 1 .. n - 1})
    <3> DEFINE S == 1 .. n - 1
    <3>1. /\ IsFiniteSet(S) /\ \A i \in S : f[i] \in Int /\ g[h[i]] = f[i]
          /\ \A i, j \in S : h[i] = h[j] => i = j
      BY <1>1, <1>3
    <3>2. Summed(f, S) = Summed(g, {h[i] : i \in S})
      <4> HIDE DEF h, S
      <4> QED
        BY <3>1, SummedRenamed
    <3> QED
      BY <3>2
  <2> QED
    BY <1>4, <2>1, Zenon
<1>6. Summed(g, 1 .. n) = g[m] + Summed(g, (1 .. n) \ {m})
  <2> DEFINE S == 1 .. n
  <2>1. IsFiniteSet(S) /\ m \in S /\ \A i \in S : g[i] \in Int
    BY <1>1, <1>2
  <2>2. Summed(g, S) = g[m] + Summed(g, S \ {m})
    <3> HIDE DEF S
    <3> QED
      BY <2>1, SummedAdd
  <2> QED
    BY <2>2
<1>7. Summed(f, 1 .. n) = f[n] + Summed(f, 1 .. n - 1)
  <2> DEFINE S == 1 .. n
  <2>1. IsFiniteSet(S) /\ n \in S /\ \A i \in S : f[i] \in Int
    BY <1>1, <1>2
  <2>2. Summed(f, S) = f[n] + Summed(f, S \ {n})
    <3> HIDE DEF S
    <3> QED
      BY <2>1, SummedAdd
  <2>3. S \ {n} = 1 .. n - 1
    OBVIOUS
  <2> QED
    BY <2>2, <2>3, Zenon
<1>8. Summed(f, 1 .. n - 1) \in Int /\ f[n] \in Int /\ g[m] \in Int
  BY <1>1, <1>2, SummedTyped
<1>9. \A a, b, c \in Int : c + a = (b + a) - b + c
  OBVIOUS
<1>10. g[m] + Summed(f, 1 .. n - 1) = (f[n] + Summed(f, 1 .. n - 1)) - f[n] + g[m]
  <2> DEFINE rest == Summed(f, 1 .. n - 1)
  <2>1. rest \in Int
    BY <1>8
  <2> HIDE DEF rest
  <2> QED
    BY <1>8, <1>9, <2>1
<1> QED
  BY <1>5, <1>6, <1>7, <1>10, Zenon

-----------------------------------------------------------------------------
(* Division, and the least and the greatest of a set.                      *)

\* What \div and % yield.
LEMMA Divided ==
  ASSUME NEW n \in Nat \ {0}, NEW a \in Int
  PROVE  /\ a \div n \in Int /\ a % n \in 0 .. n - 1
         /\ a = n * (a \div n) + (a % n)
OBVIOUS

\* A multiple of n that is not 0 is at least n away from it.
LEMMA Multiples ==
  ASSUME NEW n \in Nat \ {0}, NEW q \in Int
  PROVE  /\ q >= 1 => n * q >= n
         /\ q <= -1 => n * q <= -n
<1>1. q >= 1 => n * (q - 1) >= 0
  OBVIOUS
<1>2. q <= -1 => n * (q + 1) <= 0
  OBVIOUS
<1>3. n * (q - 1) = n * q - n /\ n * (q + 1) = n * q + n
  OBVIOUS
<1> QED
  BY <1>1, <1>2, <1>3

\* Quotient and remainder are the only ones.
LEMMA Quotient ==
  ASSUME NEW n \in Nat \ {0}, NEW q \in Int, NEW r \in 0 .. n - 1, NEW a \in Int, a = n * q + r
  PROVE  a \div n = q /\ a % n = r
<1> DEFINE p == a \div n
           s == a % n
<1>1. p \in Int /\ s \in 0 .. n - 1 /\ a = n * p + s
  BY Divided
<1> HIDE DEF p, s
<1>2. n * (p - q) = r - s
  <2>1. n * (p - q) = n * p - n * q
    BY <1>1
  <2>2. n * p \in Int /\ n * q \in Int
    BY <1>1
  <2> QED
    BY <1>1, <2>1, <2>2
<1>3. /\ p - q >= 1 => n * (p - q) >= n
      /\ p - q <= -1 => n * (p - q) <= -n
  <2>1. p - q \in Int
    BY <1>1
  <2> QED
    BY <2>1, Multiples
<1>4. p - q = 0
  BY <1>1, <1>2, <1>3
<1>5. p = q /\ s = r
  BY <1>1, <1>2, <1>4
<1> QED
  BY <1>5 DEF p, s

\* A finite set of numbers has a least and a greatest one, which Min and Max choose.
LEMMA Extremes ==
  ASSUME NEW S, IsFiniteSet(S), S # {}, S \subseteq Int
  PROVE  /\ Max(S) \in S /\ \A x \in S : x <= Max(S)
         /\ Min(S) \in S /\ \A x \in S : Min(S) <= x
<1> DEFINE Sound == {T \in SUBSET S : T # {} => /\ \E m \in T : \A x \in T : x <= m
                                               /\ \E m \in T : \A x \in T : m <= x}
<1>1. {} \in Sound
  OBVIOUS
<1>2. ASSUME NEW T \in SUBSET S, T \in Sound, NEW y \in S \ T PROVE T \cup {y} \in Sound
  <2>1. CASE T = {}
    <3>1. T \cup {y} = {y} /\ y \in Int
      BY <2>1
    <3>2. \A x \in {y} : x <= y /\ y <= x
      BY <3>1
    <3> QED
      BY <3>1, <3>2
  <2>2. CASE T # {}
    <3>1. PICK high \in T : \A x \in T : x <= high
      BY <1>2, <2>2
    <3>2. PICK low \in T : \A x \in T : low <= x
      BY <1>2, <2>2
    <3>3. y \in Int /\ high \in Int /\ low \in Int /\ \A x \in T : x \in Int
      OBVIOUS
    <3>4. \E m \in T \cup {y} : \A x \in T \cup {y} : x <= m
      <4>1. CASE y <= high
        BY <3>1, <3>3, <4>1
      <4>2. CASE ~(y <= high)
        <5>1. \A x \in T \cup {y} : x <= y
          BY <3>1, <3>3, <4>2
        <5> QED
          BY <5>1
      <4> QED
        BY <4>1, <4>2
    <3>5. \E m \in T \cup {y} : \A x \in T \cup {y} : m <= x
      <4>1. CASE low <= y
        BY <3>2, <3>3, <4>1
      <4>2. CASE ~(low <= y)
        <5>1. \A x \in T \cup {y} : y <= x
          BY <3>2, <3>3, <4>2
        <5> QED
          BY <5>1
      <4> QED
        BY <4>1, <4>2
    <3> QED
      BY <3>4, <3>5
  <2> QED
    BY <2>1, <2>2
<1> HIDE DEF Sound
<1>3. S \in Sound
  BY <1>1, <1>2, FiniteSetInduction
<1>4. \E m \in S : \A x \in S : x <= m
  BY <1>3 DEF Sound
<1>5. \E m \in S : \A x \in S : m <= x
  BY <1>3 DEF Sound
<1>6. Max(S) \in S /\ \A x \in S : Max(S) >= x
  BY <1>4 DEF Max
<1>7. Min(S) \in S /\ \A x \in S : Min(S) <= x
  BY <1>5 DEF Min
<1> QED
  BY <1>6, <1>7
================================================================================

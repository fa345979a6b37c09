------------------------------ MODULE QswapProofs ------------------------------
(***************************************************************************)
(* Proofs about Qswap, for any accounts, assets, fees and amounts: what    *)
(* the contract owes is covered, pools and liquidity agree, and no step    *)
(* takes value from those who provide liquidity.                           *)
(***************************************************************************)
EXTENDS Qswap, SumTheorems, TLAPS

-----------------------------------------------------------------------------
(***************************************************************************)
(* Arithmetic                                                              *)
(***************************************************************************)

\* What \div yields.
LEMMA Division ==
  ASSUME NEW m \in Nat, NEW n \in Nat \ {0}
  PROVE  /\ m \div n \in Nat
         /\ (m \div n) * n <= m
         /\ m < (m \div n) * n + n
<1>1. m \div n \in Nat
  OBVIOUS
<1>2. m % n \in 0 .. n - 1 /\ m = (m \div n) * n + (m % n)
  OBVIOUS
<1> QED
  BY <1>1, <1>2

\* Products of numbers that are not negative.
LEMMA Products ==
  /\ \A x, y, z \in Int : x * y \in Int /\ x * y = y * x
  /\ \A x, y, z \in Int : x * (y + z) = x * y + x * z /\ x * (y - z) = x * y - x * z
  /\ \A x, y, z \in Int : (x * y) * z = x * (y * z)
  /\ \A x, y \in Nat : x * y \in Nat
OBVIOUS

\* A larger factor gives a product at least as large.
LEMMA ProductsGrow ==
  ASSUME NEW x \in Int, NEW y \in Int, NEW z \in Nat, x <= y
  PROVE  x * z <= y * z
<1>1. (y - x) * z \in Nat
  BY Products
<1>2. (y - x) * z = y * z - x * z
  BY Products
<1>3. x * z \in Int /\ y * z \in Int
  BY Products
<1> QED
  BY <1>1, <1>2, <1>3

\* ... and a positive factor can be cancelled.
LEMMA ProductsCancel ==
  ASSUME NEW x \in Int, NEW y \in Int, NEW z \in Nat \ {0}, x * z <= y * z
  PROVE  x <= y
<1> SUFFICES ASSUME y + 1 <= x PROVE FALSE
  OBVIOUS
<1>1. (y + 1) * z <= x * z
  BY ProductsGrow
<1>2. (y + 1) * z = y * z + z /\ y * z \in Int /\ x * z \in Int
  BY Products
<1> QED
  BY <1>1, <1>2

\* Reserves q and s become x and y: their product does not shrink.
LEMMA ProductKept ==
  ASSUME NEW q \in Nat, NEW s \in Nat, NEW x \in Int, NEW y \in Nat,
         NEW b \in Nat \ {0}, NEW d \in Int,
         d <= b * x, b * (q * s) <= d * y
  PROVE  q * s <= x * y
<1>1. q * s \in Nat /\ x * y \in Int /\ b * x \in Int
  BY Products
<1>2. d * y <= (b * x) * y
  BY <1>1, ProductsGrow
<1>3. (b * x) * y = (x * y) * b /\ b * (q * s) = (q * s) * b
  BY <1>1, Products
<1>4. (q * s) * b \in Int /\ (x * y) * b \in Int /\ d * y \in Int
  BY <1>1, Products
<1>5. (q * s) * b <= (x * y) * b
  BY <1>2, <1>3, <1>4
<1> QED
  BY <1>1, <1>5, ProductsCancel

\* Reserves q and s of liquidity t become x and y of liquidity u: in relation to the square of the
\* liquidity their product does not shrink.
LEMMA RelationKept ==
  ASSUME NEW q \in Nat, NEW s \in Nat, NEW t \in Nat, NEW x \in Nat, NEW y \in Nat, NEW u \in Nat,
         q * u <= x * t, s * u <= y * t
  PROVE  q * s * u * u <= x * y * t * t
<1>1. q * u \in Nat /\ s * u \in Nat /\ x * t \in Nat /\ y * t \in Nat
  BY Products
<1>2. (q * u) * (s * u) <= (x * t) * (s * u)
  BY <1>1, ProductsGrow
<1>3. (s * u) * (x * t) <= (y * t) * (x * t)
  BY <1>1, ProductsGrow
<1>4. (x * t) * (s * u) = (s * u) * (x * t)
  BY <1>1, Products
<1>5. \A i, j, k \in Nat : (i * k) * (j * k) = i * j * k * k
  OBVIOUS
<1>6. (q * u) * (s * u) = q * s * u * u /\ (y * t) * (x * t) = x * y * t * t
  BY <1>5, Products
<1>7. (q * u) * (s * u) \in Int /\ (x * t) * (s * u) \in Int /\ (y * t) * (x * t) \in Int
  BY <1>1, Products
<1> QED
  BY <1>2, <1>3, <1>4, <1>6, <1>7

\* What is paid with the fee from it: the fee that is taken does not reach what was to go.
LEMMA FeeFromIn ==
  ASSUME NEW B \in Nat \ {0}, NEW R \in 0 .. B - 1, NEW q \in Nat, NEW n \in Nat
  PROVE  B * q + n * (B - R) <= B * (q + n - (n * R) \div B)
<1> DEFINE fee == (n * R) \div B
<1>1. n * R \in Nat /\ R \in Nat /\ B \in Nat
  BY Products
<1>2. fee \in Nat /\ fee * B <= n * R
  BY <1>1, Division
<1> HIDE DEF fee
<1>3. /\ B * (q + n - fee) = B * q + B * n - fee * B
      /\ n * (B - R) = B * n - n * R
  BY <1>1, <1>2, Products
<1>4. {B * q, B * n, fee * B, n * R} \subseteq Int
  BY <1>1, <1>2, Products
<1> QED
  BY <1>2, <1>3, <1>4 DEF fee

\* SwapExactQuForAsset
LEMMA OutFeeFromInKept ==
  ASSUME NEW B \in Nat \ {0}, NEW R \in 0 .. B - 1, NEW q \in Nat, NEW s \in Nat, NEW n \in Nat \ {0}
  PROVE  LET paid == n * (B - R)
             out == (s * paid) \div (q * B + paid)
         IN out \in Nat /\ B * (q * s) <= (B * q + paid) * (s - out)
<1> DEFINE paid == n * (B - R)
           d == q * B + paid
           out == (s * paid) \div d
<1>1. paid \in Nat /\ q * B \in Nat /\ q * B = B * q
  BY Products
<1>2. paid # 0
  <2>1. (B - R) \in Nat \ {0}
    OBVIOUS
  <2>2. 1 * (B - R) <= n * (B - R)
    BY <2>1, ProductsGrow
  <2> QED
    BY <2>1, <2>2
<1>3. d \in Nat \ {0} /\ s * paid \in Nat
  BY <1>1, <1>2, Products
<1>4. out \in Nat /\ out * d <= s * paid
  BY <1>3, Division
<1> HIDE DEF paid, out
<1>5. d * (s - out) = d * s - out * d /\ d * s = B * (q * s) + s * paid
  BY <1>1, <1>3, <1>4, Products
<1>6. {d * s, out * d, s * paid, B * (q * s)} \subseteq Int
  BY <1>1, <1>3, <1>4, Products
<1>7. B * (q * s) <= d * (s - out)
  BY <1>4, <1>5, <1>6
<1>8. d = B * q + paid
  BY <1>1
<1> QED
  BY <1>4, <1>7, <1>8 DEF paid, out

\* SwapQuForExactAsset
LEMMA InFeeFromInKept ==
  ASSUME NEW B \in Nat \ {0}, NEW R \in 0 .. B - 1, NEW q \in Nat, NEW s \in Nat, NEW n \in Nat, n < s
  PROVE  LET in == (q * n * B) \div ((s - n) * (B - R)) + 1
         IN in \in Nat \ {0} /\ B * (q * s) <= (B * q + in * (B - R)) * (s - n)
<1> DEFINE y == s - n
           c == B - R
           k == (q * n * B) \div (y * c)
<1>1. y \in Nat \ {0} /\ c \in Nat \ {0}
  OBVIOUS
<1>2. q * n * B \in Nat
  BY Products
<1>3. y * c \in Nat \ {0}
  <2>1. 1 * c <= y * c
    BY <1>1, ProductsGrow
  <2> HIDE DEF y, c
  <2> QED
    BY <1>1, <2>1, Products
<1>4. k \in Nat /\ q * n * B <= k * (y * c) + y * c
  <2> DEFINE e == y * c
             m == q * n * B
  <2>1. e \in Nat \ {0} /\ m \in Nat
    BY <1>2, <1>3
  <2> HIDE DEF e, m
  <2>2. m \div e \in Nat /\ m < (m \div e) * e + e /\ (m \div e) * e \in Int
    BY <2>1, Division, Products
  <2>3. m <= (m \div e) * e + e
    BY <2>1, <2>2
  <2> QED
    BY <2>2, <2>3 DEF e, m
<1> HIDE DEF k, c
<1>5. k * (y * c) + y * c = ((k + 1) * c) * y
  BY <1>1, <1>4, Products
<1>6. (B * q + (k + 1) * c) * y = (B * q) * y + ((k + 1) * c) * y
  BY <1>1, <1>4, Products
<1>7. (B * q) * y = B * (q * s) - q * n * B
  BY Products
<1>8. {(B * q) * y, ((k + 1) * c) * y, B * (q * s), q * n * B} \subseteq Int
  BY <1>1, <1>2, <1>4, Products
<1>9. B * (q * s) <= (B * q + (k + 1) * c) * y
  BY <1>4, <1>5, <1>6, <1>7, <1>8
<1> QED
  BY <1>4, <1>9 DEF k, c

\* SwapExactAssetForQu
LEMMA OutFeeFromOutKept ==
  ASSUME NEW B \in Nat \ {0}, NEW R \in 0 .. B - 1, NEW q \in Nat, NEW s \in Nat, NEW n \in Nat \ {0}
  PROVE  LET before == (q * n) \div (s + n)
             out == (before * (B - R)) \div B
             fee == (before * R) \div B
         IN /\ before \in Nat /\ out \in Nat /\ fee \in Nat
            /\ out + fee <= before
            /\ q * s <= (q - before) * (s + n)
<1> DEFINE before == (q * n) \div (s + n)
           out == (before * (B - R)) \div B
           fee == (before * R) \div B
<1>1. q * n \in Nat /\ s + n \in Nat \ {0}
  BY Products
<1>2. before \in Nat /\ before * (s + n) <= q * n
  BY <1>1, Division
<1> HIDE DEF before
<1>3. before * (B - R) \in Nat /\ before * R \in Nat
  BY <1>2, Products
<1>4. out \in Nat /\ out * B <= before * (B - R)
  BY <1>3, Division
<1>5. fee \in Nat /\ fee * B <= before * R
  BY <1>3, Division
<1> HIDE DEF out, fee
<1>6. out + fee <= before
  <2>1. /\ (out + fee) * B = out * B + fee * B
        /\ before * B = before * (B - R) + before * R
    BY <1>2, <1>4, <1>5, Products
  <2>2. {out * B, fee * B} \subseteq Int
    BY <1>4, <1>5, Products
  <2>3. (out + fee) * B <= before * B
    BY <1>3, <1>4, <1>5, <2>1, <2>2
  <2> QED
    BY <1>2, <1>4, <1>5, <2>3, ProductsCancel
<1>7. q * s <= (q - before) * (s + n)
  <2>1. (q - before) * (s + n) = q * s + q * n - before * (s + n)
    BY <1>2, Products
  <2>2. {q * s, q * n, before * (s + n)} \subseteq Int
    BY <1>2, Products
  <2> QED
    BY <1>2, <2>1, <2>2
<1> QED
  BY <1>2, <1>4, <1>5, <1>6, <1>7 DEF before, out, fee

\* SwapAssetForExactQu
LEMMA InFeeFromOutKept ==
  ASSUME NEW B \in Nat \ {0}, NEW R \in 0 .. B - 1, NEW q \in Nat, NEW s \in Nat, NEW n \in Nat,
         q * (B - R) > n * B
  PROVE  LET d == q * (B - R) - n * B
             in == (s * n * B) \div d + 1
             fee == (n * R) \div (B - R)
         IN /\ in \in Nat \ {0} /\ fee \in Nat
            /\ d <= (B - R) * (q - n - fee)
            /\ (B - R) * (q * s) <= d * (s + in)
<1> DEFINE c == B - R
           d == q * c - n * B
           k == (s * n * B) \div d
           fee == (n * R) \div c
<1>1. c \in Nat \ {0} /\ n * R \in Nat /\ R \in Nat
  BY Products
<1>2. fee \in Nat /\ fee * c <= n * R
  BY <1>1, Division
<1> HIDE DEF fee
<1>3. d \in Nat \ {0} /\ s * n * B \in Nat
  <2>1. q * (B - R) \in Int /\ n * B \in Int /\ s * n * B \in Nat
    BY Products
  <2> QED
    BY <2>1
<1>4. k \in Nat /\ s * n * B <= k * d + d
  <2> DEFINE m == s * n * B
  <2>1. d \in Nat \ {0} /\ m \in Nat
    BY <1>3
  <2> HIDE DEF d, m
  <2>2. m \div d \in Nat /\ m < (m \div d) * d + d /\ (m \div d) * d \in Int
    BY <2>1, Division, Products
  <2>3. m <= (m \div d) * d + d
    BY <2>1, <2>2
  <2> QED
    BY <2>2, <2>3 DEF m
<1> HIDE DEF k
<1>5. d <= c * (q - n - fee)
  <2>1. c * (q - n - fee) = c * q - c * n - fee * c /\ c * n = n * B - n * R /\ c * q = q * c
    BY <1>1, <1>2, Products
  <2>2. {c * q, n * B, fee * c} \subseteq Int
    BY <1>1, <1>2, Products
  <2> HIDE DEF c
  <2> QED
    BY <1>1, <1>2, <2>1, <2>2
<1>6. c * (q * s) <= d * (s + (k + 1))
  <2>1. d * (s + (k + 1)) = d * s + k * d + d
    BY <1>3, <1>4, Products
  <2>2. d * s = c * (q * s) - s * n * B
    BY <1>1, Products
  <2>3. {c * (q * s), s * n * B, k * d, d} \subseteq Int
    BY <1>1, <1>3, <1>4, Products
  <2> HIDE DEF c, d
  <2> QED
    BY <1>4, <2>1, <2>2, <2>3
<1> QED
  BY <1>2, <1>4, <1>5, <1>6 DEF k, fee

-----------------------------------------------------------------------------
(***************************************************************************)
(* The contract                                                            *)
(***************************************************************************)

\* The kinds of fees, and those who hold shares and liquidity.
LEMMA Parties ==
  /\ Kinds = {"shareholders", "invest", "qx", "burn"}
  /\ IsFiniteSet(Kinds) /\ IsFiniteSet(SwapAsset) /\ IsFiniteSet(SwapHolder)
  /\ SwapSelf \in SwapHolder /\ SwapSelf \notin Account /\ Account \subseteq SwapHolder
  /\ MinLiquidity \in Nat \ {0} /\ SwapFeeBase \in Nat \ {0} /\ SwapFeeRate \in 0 .. SwapFeeBase - 1
  /\ Computors \in Nat \ {0}
<1>1. Kinds = {"shareholders", "invest", "qx", "burn"}
  BY SwapAssumption DEF Kinds
<1>2. IsFiniteSet({})
  BY FS_EmptySet
<1>3. \A S : \A x : IsFiniteSet(S) => IsFiniteSet(S \cup {x})
  BY FS_AddElement
<1>4. Kinds = ((({} \cup {"shareholders"}) \cup {"invest"}) \cup {"qx"}) \cup {"burn"}
  BY <1>1
<1>5. IsFiniteSet(Kinds)
  BY <1>2, <1>3, <1>4
<1>6. IsFiniteSet(SwapHolder)
  BY <1>3, SwapAssumption DEF SwapHolder
<1> QED
  BY <1>1, <1>5, <1>6, SwapAssumption, QpiAssumption DEF SwapHolder

\* The sum over the kinds of fees.
LEMMA FourKinds ==
  ASSUME NEW f, \A k \in Kinds : f[k] \in Int
  PROVE  Summed(f, Kinds) = f["shareholders"] + f["invest"] + f["qx"] + f["burn"]
<1>1. /\ "shareholders" \in Kinds
      /\ "invest" \in Kinds \ {"shareholders"}
      /\ "qx" \in (Kinds \ {"shareholders"}) \ {"invest"}
      /\ "burn" \in ((Kinds \ {"shareholders"}) \ {"invest"}) \ {"qx"}
      /\ (((Kinds \ {"shareholders"}) \ {"invest"}) \ {"qx"}) \ {"burn"} = {}
  BY Parties
<1>2. /\ IsFiniteSet(Kinds)
      /\ IsFiniteSet(Kinds \ {"shareholders"})
      /\ IsFiniteSet((Kinds \ {"shareholders"}) \ {"invest"})
      /\ IsFiniteSet(((Kinds \ {"shareholders"}) \ {"invest"}) \ {"qx"})
  BY Parties, FS_RemoveElement
<1>3. \A S, x : IsFiniteSet(S) /\ S \subseteq Kinds /\ x \in S =>
                  Summed(f, S) = f[x] + Summed(f, S \ {x})
  BY SummedAdd
<1>4. Summed(f, Kinds) = f["shareholders"] + Summed(f, Kinds \ {"shareholders"})
  BY <1>1, <1>2, <1>3
<1>5. Summed(f, Kinds \ {"shareholders"})
        = f["invest"] + Summed(f, (Kinds \ {"shareholders"}) \ {"invest"})
  BY <1>1, <1>2, <1>3
<1>6. Summed(f, (Kinds \ {"shareholders"}) \ {"invest"})
        = f["qx"] + Summed(f, ((Kinds \ {"shareholders"}) \ {"invest"}) \ {"qx"})
  BY <1>1, <1>2, <1>3
<1>7. Summed(f, ((Kinds \ {"shareholders"}) \ {"invest"}) \ {"qx"})
        = f["burn"] + Summed(f, (((Kinds \ {"shareholders"}) \ {"invest"}) \ {"qx"}) \ {"burn"})
  BY <1>1, <1>2, <1>3
<1>8. Summed(f, (((Kinds \ {"shareholders"}) \ {"invest"}) \ {"qx"}) \ {"burn"}) = 0
  BY <1>1, SummedEmpty
<1>9. /\ f["shareholders"] \in Int /\ f["invest"] \in Int
      /\ f["qx"] \in Int /\ f["burn"] \in Int
  BY <1>1
<1> QED
  BY <1>4, <1>5, <1>6, <1>7, <1>8, <1>9

\* What leaves a pool of a fee is not more than the fee, and is what is owed more.
LEMMA PartsWithin ==
  ASSUME NEW fee \in Nat, swapOwed \in [Kinds -> Nat]
  PROVE  /\ PartsSum(fee) \in 0 .. fee
         /\ Owed(Parts(fee)) \in [Kinds -> Nat]
         /\ Summed(Owed(Parts(fee)), Kinds) = Summed(swapOwed, Kinds) + PartsSum(fee)
         /\ Summed(swapOwed, Kinds) \in Nat
<1> DEFINE parts == Parts(fee)
<1>1. PartsSum(fee) = Summed(parts, Kinds)
  BY DEF PartsSum, SumOf, Summed
<1>2. SumOf(Kinds, LAMBDA k : SwapFeeShare[k]) = Summed(SwapFeeShare, Kinds)
  BY DEF SumOf, Summed
<1>3. \A k \in Kinds : SwapFeeShare[k] \in Nat
  BY SwapAssumption, Parties
<1>4. \A k \in Kinds : parts[k] = (fee * SwapFeeShare[k]) \div 100
  BY DEF Parts
<1>5. \A k \in Kinds : parts[k] \in Nat /\ 100 * parts[k] <= fee * SwapFeeShare[k]
  <2> SUFFICES ASSUME NEW k \in Kinds
               PROVE  parts[k] \in Nat /\ 100 * parts[k] <= fee * SwapFeeShare[k]
    OBVIOUS
  <2>1. fee * SwapFeeShare[k] \in Nat
    BY <1>3, Products
  <2> QED
    BY <1>4, <2>1, Division
<1> HIDE DEF parts
<1>6. 100 * Summed(parts, Kinds) <= fee * Summed(SwapFeeShare, Kinds)
  BY <1>3, <1>5, SummedShares, Parties
<1>7. Summed(parts, Kinds) \in Nat /\ Summed(SwapFeeShare, Kinds) \in Nat
  BY <1>3, <1>5, SummedNat, Parties
<1>8. Summed(SwapFeeShare, Kinds) <= 100
  BY <1>2, SwapAssumption
<1>9. Summed(parts, Kinds) <= fee
  <2>1. Summed(SwapFeeShare, Kinds) * fee <= 100 * fee
    BY <1>7, <1>8, ProductsGrow
  <2>2. Summed(SwapFeeShare, Kinds) * fee = fee * Summed(SwapFeeShare, Kinds)
    BY <1>7, Products
  <2>3. fee * Summed(SwapFeeShare, Kinds) \in Int
    BY <1>7, Products
  <2> QED
    BY <1>6, <1>7, <2>1, <2>2, <2>3
<1>10. \A k \in Kinds : Owed(parts)[k] = swapOwed[k] + parts[k]
  BY DEF Owed
<1>11. Owed(parts) \in [Kinds -> Nat]
  BY <1>5 DEF Owed
<1>12. Summed(Owed(parts), Kinds) = Summed(swapOwed, Kinds) + Summed(parts, Kinds)
  <2>1. \A k \in Kinds : swapOwed[k] \in Int /\ parts[k] \in Int /\ Owed(parts)[k] = swapOwed[k] + parts[k]
    BY <1>5, <1>10
  <2> QED
    BY <2>1, SummedPlus, Parties
<1>13. Summed(swapOwed, Kinds) \in Nat
  BY SummedNat, Parties
<1> QED
  BY <1>1, <1>7, <1>9, <1>11, <1>12, <1>13 DEF parts

\* A fee is owed to the shareholders.
LEMMA OwedMore ==
  ASSUME swapOwed \in [Kinds -> Nat], NEW n \in Nat
  PROVE  /\ OwedTo("shareholders", n) \in [Kinds -> Nat]
         /\ Summed(OwedTo("shareholders", n), Kinds) = Summed(swapOwed, Kinds) + n
         /\ Summed(swapOwed, Kinds) \in Nat
<1> DEFINE more == OwedTo("shareholders", n)
<1>1. "shareholders" \in Kinds
  BY Parties
<1>2. /\ more \in [Kinds -> Nat]
      /\ more["shareholders"] = swapOwed["shareholders"] + n
      /\ \A k \in Kinds \ {"shareholders"} : more[k] = swapOwed[k]
  BY <1>1 DEF OwedTo
<1> HIDE DEF more
<1>3. Summed(more, Kinds) = Summed(swapOwed, Kinds) + (more["shareholders"] - swapOwed["shareholders"])
  BY <1>1, <1>2, SummedChange, Parties
<1>4. Summed(swapOwed, Kinds) \in Nat /\ swapOwed["shareholders"] \in Nat
  BY <1>1, SummedNat, Parties
<1> QED
  BY <1>2, <1>3, <1>4 DEF more

\* The properties that sum, written with Summed.
Covered == funds >= Summed(PoolQus, SwapAsset) + Summed(swapOwed, Kinds)
Provided ==
  \A a \in SwapAsset : HasPool(a) =>
    /\ Pool(a).total = Summed(liquidity[a], SwapHolder)
    /\ Pool(a).total > 0 => Pool(a).qu > 0 /\ Pool(a).asset > 0

\* They say the same, before and after a step.
LEMMA SumsOfTheProperties == (SwapSolvent <=> Covered) /\ (LiquidityAdds <=> Provided)
<1>1. SwapSolvent <=> Covered
  BY DEF Covered, SwapSolvent, SumOf, Summed
<1>2. LiquidityAdds <=> Provided
  BY DEF Provided, LiquidityAdds, SumOf, Summed
<1> QED
  BY <1>1, <1>2

\* The same in the next state.
LEMMA SumsOfThePropertiesNext == (SwapSolvent' <=> Covered') /\ (LiquidityAdds' <=> Provided')
BY SumsOfTheProperties, PTL

\* The reserves of a pool, and the sum of the qus of all pools.
LEMMA PoolTyped ==
  ASSUME SwapTypeOK
  PROVE  /\ \A a \in SwapAsset : HasPool(a) =>
              Pool(a) \in [qu : Nat, asset : Nat, total : Nat] /\ pools[a] = {Pool(a)}
         /\ \A a \in SwapAsset : PoolQus[a] \in Nat
         /\ Summed(PoolQus, SwapAsset) \in Nat
         /\ \A a \in SwapAsset : PoolQus[a] <= Summed(PoolQus, SwapAsset)
         /\ Summed(swapOwed, Kinds) \in Nat
<1>1. \A a \in SwapAsset : HasPool(a) =>
        Pool(a) \in [qu : Nat, asset : Nat, total : Nat] /\ pools[a] = {Pool(a)}
  <2> SUFFICES ASSUME NEW a \in SwapAsset, HasPool(a)
               PROVE  Pool(a) \in [qu : Nat, asset : Nat, total : Nat] /\ pools[a] = {Pool(a)}
    OBVIOUS
  <2>1. Pool(a) \in pools[a]
    BY DEF HasPool, Pool
  <2> QED
    BY <2>1 DEF SwapTypeOK
<1>2. \A a \in SwapAsset : PoolQus[a] \in Nat
  BY <1>1 DEF PoolQus
<1>3. \A k \in Kinds : swapOwed[k] \in Nat
  BY DEF SwapTypeOK
<1> QED
  BY <1>1, <1>2, <1>3, SummedNat, Parties

\* A pool gets the record r: the others are as before.
LEMMA PoolChanges ==
  ASSUME SwapTypeOK, NEW a \in SwapAsset, NEW r \in [qu : Nat, asset : Nat, total : Nat],
         pools' = [pools EXCEPT ![a] = {r}]
  PROVE  /\ pools' \in [SwapAsset -> SUBSET [qu : Nat, asset : Nat, total : Nat]]
         /\ \A b \in SwapAsset : \A p, q \in pools'[b] : p = q
         /\ HasPool(a)' /\ Pool(a)' = r
         /\ \A b \in SwapAsset \ {a} : HasPool(b)' = HasPool(b) /\ Pool(b)' = Pool(b)
         /\ Summed(PoolQus', SwapAsset) = Summed(PoolQus, SwapAsset) + (r.qu - PoolQus[a])
<1>1. /\ pools'[a] = {r} /\ \A b \in SwapAsset \ {a} : pools'[b] = pools[b]
      /\ pools' \in [SwapAsset -> SUBSET [qu : Nat, asset : Nat, total : Nat]]
  BY DEF SwapTypeOK
<1>2. \A b \in SwapAsset : \A p, q \in pools'[b] : p = q
  BY <1>1 DEF SwapTypeOK
<1>3. HasPool(a)' /\ Pool(a)' = r
  BY <1>1 DEF HasPool, Pool
<1>4. \A b \in SwapAsset \ {a} : HasPool(b)' = HasPool(b) /\ Pool(b)' = Pool(b)
  BY <1>1 DEF HasPool, Pool
<1>5. PoolQus'[a] = r.qu /\ \A b \in SwapAsset \ {a} : PoolQus'[b] = PoolQus[b]
  BY <1>3, <1>4 DEF PoolQus
<1>6. \A b \in SwapAsset : PoolQus[b] \in Int
  BY PoolTyped
<1>7. Summed(PoolQus', SwapAsset) = Summed(PoolQus, SwapAsset) + (PoolQus'[a] - PoolQus[a])
  <2>1. ASSUME NEW f, NEW g, \A b \in SwapAsset : f[b] \in Int, g[a] \in Int,
               \A b \in SwapAsset \ {a} : g[b] = f[b]
        PROVE  Summed(g, SwapAsset) = Summed(f, SwapAsset) + (g[a] - f[a])
    <3>1. IsFiniteSet(SwapAsset)
      BY Parties
    <3> QED
      BY <2>1, <3>1, SummedChange
  <2>2. PoolQus'[a] \in Int
    BY <1>5
  <2> QED
    BY <1>5, <1>6, <2>1, <2>2
<1> QED
  BY <1>1, <1>2, <1>3, <1>4, <1>5, <1>7

\* The invariant, when a pool gets the record r and its shares and liquidity with it.
LEMMA ReservesChange ==
  ASSUME SwapInv, NEW a \in SwapAsset, NEW r \in [qu : Nat, asset : Nat, total : Nat],
         pools' = [pools EXCEPT ![a] = {r}],
         funds' \in Nat, swapOwed' \in [Kinds -> Nat],
         liquidity' \in [SwapAsset -> [SwapHolder -> Nat]],
         swapShares' \in [SwapAsset -> [SwapHolder -> Nat]],
         \A b \in SwapAsset \ {a} : liquidity'[b] = liquidity[b] /\ swapShares'[b] = swapShares[b],
         r.qu - PoolQus[a] + Summed(swapOwed', Kinds) - Summed(swapOwed, Kinds) <= funds' - funds,
         swapShares'[a][SwapSelf] = r.asset,
         r.total = Summed(liquidity'[a], SwapHolder),
         r.total > 0 => r.qu > 0 /\ r.asset > 0 /\ liquidity'[a][SwapSelf] >= MinLiquidity
  PROVE  SwapInv'
<1>1. SwapTypeOK /\ funds \in Nat
  BY DEF SwapInv, SwapTypeOK
<1>2. /\ pools' \in [SwapAsset -> SUBSET [qu : Nat, asset : Nat, total : Nat]]
      /\ \A b \in SwapAsset : \A p, q \in pools'[b] : p = q
      /\ HasPool(a)' /\ Pool(a)' = r
      /\ \A b \in SwapAsset \ {a} : HasPool(b)' = HasPool(b) /\ Pool(b)' = Pool(b)
      /\ Summed(PoolQus', SwapAsset) = Summed(PoolQus, SwapAsset) + (r.qu - PoolQus[a])
  BY <1>1, PoolChanges
<1>3. SwapTypeOK'
  BY <1>2 DEF SwapTypeOK
<1>4. SwapSolvent'
  <2>1. funds >= Summed(PoolQus, SwapAsset) + Summed(swapOwed, Kinds)
    BY SumsOfTheProperties DEF SwapInv, Covered
  <2>2. /\ Summed(PoolQus, SwapAsset) \in Nat /\ PoolQus[a] \in Nat
        /\ Summed(swapOwed, Kinds) \in Nat
    BY <1>1, PoolTyped
  <2>3. Summed(swapOwed', Kinds) \in Nat
    <3>1. \A k \in Kinds : swapOwed'[k] \in Nat
      OBVIOUS
    <3> QED
      BY <3>1, SummedNat, Parties
  <2>4. funds' >= Summed(PoolQus', SwapAsset) + Summed(swapOwed', Kinds)
    BY <1>1, <1>2, <2>1, <2>2, <2>3
  <2> QED
    BY <2>4, SumsOfThePropertiesNext DEF Covered
<1>5. PoolSharesHeld'
  BY <1>2 DEF SwapInv, PoolSharesHeld
<1>6. LiquidityAdds'
  <2> SUFFICES ASSUME NEW b \in SwapAsset, HasPool(b)'
               PROVE  /\ Pool(b)'.total = Summed(liquidity'[b], SwapHolder)
                      /\ Pool(b)'.total > 0 => Pool(b)'.qu > 0 /\ Pool(b)'.asset > 0
    BY SumsOfThePropertiesNext DEF Provided
  <2>1. CASE b = a
    BY <1>2, <2>1
  <2>2. CASE b # a
    <3>1. /\ HasPool(b)
          /\ Pool(b)' = Pool(b) /\ liquidity'[b] = liquidity[b]
      BY <1>2, <2>2
    <3>2. /\ Pool(b).total = Summed(liquidity[b], SwapHolder)
          /\ Pool(b).total > 0 => Pool(b).qu > 0 /\ Pool(b).asset > 0
      BY <3>1, SumsOfTheProperties DEF SwapInv, Provided
    <3> QED
      BY <3>1, <3>2
  <2> QED
    BY <2>1, <2>2
<1>7. LiquidityStays'
  <2> SUFFICES ASSUME NEW b \in SwapAsset
               PROVE  /\ ~HasPool(b)' => \A h \in SwapHolder : liquidity'[b][h] = 0
                      /\ HasPool(b)' /\ Pool(b)'.total > 0 => liquidity'[b][SwapSelf] >= MinLiquidity
    BY DEF LiquidityStays, Traded
  <2>1. CASE b = a
    BY <1>2, <2>1
  <2>2. CASE b # a
    BY <1>2, <2>2 DEF SwapInv, LiquidityStays, Traded
  <2> QED
    BY <2>1, <2>2
<1> QED
  BY <1>3, <1>4, <1>5, <1>6, <1>7 DEF SwapInv

\* The relation of reserves and liquidity, when a pool gets the record r.
LEMMA RelationOfPool ==
  ASSUME SwapInv, NEW a \in SwapAsset, NEW r \in [qu : Nat, asset : Nat, total : Nat],
         pools' = [pools EXCEPT ![a] = {r}],
         Traded(a) => /\ r.total > 0
                      /\ Pool(a).qu * Pool(a).asset * r.total * r.total
                           <= r.qu * r.asset * Pool(a).total * Pool(a).total
  PROVE  NoDilution
<1>1. SwapTypeOK
  BY DEF SwapInv
<1>2. /\ HasPool(a)' /\ Pool(a)' = r
      /\ \A b \in SwapAsset \ {a} : HasPool(b)' = HasPool(b) /\ Pool(b)' = Pool(b)
  BY <1>1, PoolChanges
<1>3. \A i, j, k \in Nat : i * j * k * k \in Int
  BY Products
<1> SUFFICES ASSUME NEW b \in SwapAsset, Traded(b)
             PROVE  /\ Pool(b)'.total > 0
                    /\ Pool(b)'.qu * Pool(b)'.asset * Pool(b).total * Pool(b).total
                         >= Pool(b).qu * Pool(b).asset * Pool(b)'.total * Pool(b)'.total
  BY DEF NoDilution
<1>4. Pool(b) \in [qu : Nat, asset : Nat, total : Nat] /\ Pool(b).total > 0
  BY <1>1, PoolTyped DEF Traded
<1>5. CASE b = a
  <2>1. /\ {r.qu, r.asset, r.total} \subseteq Nat
        /\ {Pool(a).qu, Pool(a).asset, Pool(a).total} \subseteq Nat
    BY <1>4, <1>5
  <2>2. /\ Pool(a).qu * Pool(a).asset * r.total * r.total \in Int
        /\ r.qu * r.asset * Pool(a).total * Pool(a).total \in Int
    BY <1>3, <2>1
  <2>3. r.total > 0 /\ r.qu * r.asset * Pool(a).total * Pool(a).total
                         >= Pool(a).qu * Pool(a).asset * r.total * r.total
    BY <1>5, <2>2
  <2> QED
    BY <1>2, <1>5, <2>3
<1>6. CASE b # a
  <2>1. Pool(b)' = Pool(b) /\ {Pool(b).qu, Pool(b).asset, Pool(b).total} \subseteq Nat
    BY <1>2, <1>4, <1>6
  <2>2. Pool(b).qu * Pool(b).asset * Pool(b).total * Pool(b).total \in Int
    BY <1>3, <2>1
  <2> QED
    BY <1>4, <2>1, <2>2
<1> QED
  BY <1>5, <1>6

\* The invariant and the relation, when the pools and their liquidity stay.
LEMMA ReservesStay ==
  ASSUME SwapInv, UNCHANGED <<pools, liquidity>>,
         funds' \in Nat, swapOwed' \in [Kinds -> Nat],
         swapShares' \in [SwapAsset -> [SwapHolder -> Nat]],
         \A b \in SwapAsset : swapShares'[b][SwapSelf] = swapShares[b][SwapSelf],
         Summed(swapOwed', Kinds) - Summed(swapOwed, Kinds) <= funds' - funds
  PROVE  SwapInv' /\ NoDilution
<1>1. SwapTypeOK /\ funds \in Nat
  BY DEF SwapInv, SwapTypeOK
<1>2. \A b \in SwapAsset : HasPool(b)' = HasPool(b) /\ Pool(b)' = Pool(b)
  BY DEF HasPool, Pool
<1>3. PoolQus' = PoolQus
  BY <1>2 DEF PoolQus
<1>4. SwapTypeOK'
  BY <1>1 DEF SwapTypeOK
<1>5. SwapSolvent'
  <2>1. funds >= Summed(PoolQus, SwapAsset) + Summed(swapOwed, Kinds)
    BY SumsOfTheProperties DEF SwapInv, Covered
  <2>2. Summed(PoolQus, SwapAsset) \in Nat /\ Summed(swapOwed, Kinds) \in Nat
    BY <1>1, PoolTyped
  <2>3. Summed(swapOwed', Kinds) \in Nat
    <3>1. \A k \in Kinds : swapOwed'[k] \in Nat
      OBVIOUS
    <3> QED
      BY <3>1, SummedNat, Parties
  <2>4. funds' >= Summed(PoolQus', SwapAsset) + Summed(swapOwed', Kinds)
    BY <1>1, <1>3, <2>1, <2>2, <2>3
  <2> QED
    BY <2>4, SumsOfThePropertiesNext DEF Covered
<1>6. PoolSharesHeld'
  BY <1>2 DEF SwapInv, PoolSharesHeld
<1>7. LiquidityAdds'
  <2>1. Provided
    BY SumsOfTheProperties DEF SwapInv
  <2>2. Provided'
    BY <1>2, <2>1 DEF Provided
  <2> QED
    BY <2>2, SumsOfThePropertiesNext
<1>8. LiquidityStays'
  BY <1>2 DEF SwapInv, LiquidityStays, Traded
<1>9. NoDilution
  <2> SUFFICES ASSUME NEW b \in SwapAsset, Traded(b)
               PROVE  /\ Pool(b)'.total > 0
                      /\ Pool(b)'.qu * Pool(b)'.asset * Pool(b).total * Pool(b).total
                           >= Pool(b).qu * Pool(b).asset * Pool(b)'.total * Pool(b)'.total
    BY DEF NoDilution
  <2>1. Pool(b) \in [qu : Nat, asset : Nat, total : Nat] /\ Pool(b).total > 0
    BY <1>1, PoolTyped DEF Traded
  <2>2. Pool(b).qu * Pool(b).asset * Pool(b).total * Pool(b).total \in Int
    BY <2>1, Products
  <2> QED
    BY <1>2, <2>1, <2>2
<1> QED
  BY <1>4, <1>5, <1>6, <1>7, <1>8, <1>9 DEF SwapInv

\* The assumptions on fees and issuers, and the types of the state, in the form the steps use.
LEMMA FeesTyped ==
  /\ {IssuedShares, SwapIssuanceFee, SwapTransferFee, PoolFee} \subseteq Nat
  /\ \A a \in SwapAsset : SwapIssuer[a] \in Account
BY SwapAssumption

\* Shares are issued.
LEMMA IssueAssetKeeps ==
  ASSUME SwapInv, NEW a \in SwapAsset, SwapIssueAsset(a)
  PROVE  SwapInv' /\ NoDilution
<1>1. SwapTypeOK /\ funds \in Nat
  BY DEF SwapInv, SwapTypeOK
<1>2. /\ swapOwed' \in [Kinds -> Nat]
      /\ Summed(swapOwed', Kinds) = Summed(swapOwed, Kinds) + SwapIssuanceFee
      /\ Summed(swapOwed, Kinds) \in Nat
  BY <1>1, OwedMore, FeesTyped DEF SwapIssueAsset, SwapTypeOK
<1>3. SwapIssuer[a] \in SwapHolder /\ SwapIssuer[a] # SwapSelf
  BY FeesTyped, Parties
<1>4. swapShares' \in [SwapAsset -> [SwapHolder -> Nat]]
  BY <1>1, <1>3, FeesTyped DEF SwapIssueAsset, SwapTypeOK
<1>5. \A b \in SwapAsset : swapShares'[b][SwapSelf] = swapShares[b][SwapSelf]
  BY <1>1, <1>3, Parties DEF SwapIssueAsset, SwapTypeOK
<1>6. /\ UNCHANGED <<pools, liquidity>> /\ funds' = funds + SwapIssuanceFee
      /\ SwapIssuanceFee \in Nat
  BY FeesTyped DEF SwapIssueAsset
<1> QED
  BY <1>1, <1>2, <1>4, <1>5, <1>6, ReservesStay

\* A pool is created.
LEMMA CreatePoolKeeps ==
  ASSUME SwapInv, NEW a \in SwapAsset, CreatePool(a)
  PROVE  SwapInv' /\ NoDilution
<1> DEFINE r == [qu |-> 0, asset |-> 0, total |-> 0]
<1>1. SwapTypeOK /\ funds \in Nat
  BY DEF SwapInv, SwapTypeOK
<1>2. /\ swapOwed' \in [Kinds -> Nat]
      /\ Summed(swapOwed', Kinds) = Summed(swapOwed, Kinds) + PoolFee
      /\ Summed(swapOwed, Kinds) \in Nat
  BY <1>1, OwedMore, FeesTyped DEF CreatePool, SwapTypeOK
<1>3. /\ pools' = [pools EXCEPT ![a] = {r}] /\ UNCHANGED <<liquidity, swapShares>>
      /\ funds' = funds + PoolFee /\ PoolFee \in Nat /\ ~HasPool(a)
  BY FeesTyped DEF CreatePool
<1>4. r \in [qu : Nat, asset : Nat, total : Nat] /\ r.qu = 0 /\ r.asset = 0 /\ r.total = 0
  OBVIOUS
<1> HIDE DEF r
<1>5. PoolQus[a] = 0 /\ swapShares[a][SwapSelf] = 0
  BY <1>3 DEF PoolQus, SwapInv, PoolSharesHeld
<1>6. Summed(liquidity[a], SwapHolder) = 0
  <2>1. \A h \in SwapHolder : liquidity[a][h] = 0
    BY <1>3 DEF SwapInv, LiquidityStays
  <2> QED
    BY <2>1, SummedZero, Parties
<1>7. ~Traded(a)
  BY <1>3 DEF Traded
<1>8. /\ liquidity' \in [SwapAsset -> [SwapHolder -> Nat]]
      /\ swapShares' \in [SwapAsset -> [SwapHolder -> Nat]]
  BY <1>1, <1>3 DEF SwapTypeOK
<1>9. SwapInv'
  <2>1. r.qu - PoolQus[a] + Summed(swapOwed', Kinds) - Summed(swapOwed, Kinds) <= funds' - funds
    BY <1>1, <1>2, <1>3, <1>4, <1>5
  <2>2. /\ funds' \in Nat /\ swapShares'[a][SwapSelf] = r.asset /\ ~(r.total > 0)
        /\ r.total = Summed(liquidity'[a], SwapHolder)
    BY <1>1, <1>3, <1>4, <1>5, <1>6
  <2>3. \A b \in SwapAsset \ {a} : liquidity'[b] = liquidity[b] /\ swapShares'[b] = swapShares[b]
    BY <1>3
  <2> QED
    BY <1>2, <1>3, <1>4, <1>8, <2>1, <2>2, <2>3, ReservesChange
<1>10. NoDilution
  BY <1>3, <1>4, <1>7, RelationOfPool
<1> QED
  BY <1>9, <1>10

\* Shares move from one holder to another.
LEMMA SharesMove ==
  ASSUME swapShares \in [SwapAsset -> [SwapHolder -> Nat]],
         NEW a \in SwapAsset, NEW from \in SwapHolder, NEW to \in SwapHolder, from # to,
         NEW n, swapShares[a][from] - n \in Nat, swapShares[a][to] + n \in Nat,
         NEW new, new = Moved(swapShares[a], from, to, n),
         swapShares' = [swapShares EXCEPT ![a] = new]
  PROVE  /\ swapShares' \in [SwapAsset -> [SwapHolder -> Nat]]
         /\ \A b \in SwapAsset \ {a} : swapShares'[b] = swapShares[b]
<1> DEFINE old == swapShares[a]
<1>1. old \in [SwapHolder -> Nat]
  OBVIOUS
<1> HIDE DEF old
<1>2. /\ new[from] = old[from] - n /\ new[to] = old[to] + n
      /\ \A h \in SwapHolder \ {from, to} : new[h] = old[h]
      /\ DOMAIN new = SwapHolder
      /\ new = [h \in SwapHolder |-> new[h]]
  BY <1>1 DEF Moved, old
<1>3. old[from] - n \in Nat /\ old[to] + n \in Nat
  BY DEF old
<1>4. \A h \in SwapHolder : new[h] \in Nat
  BY <1>1, <1>2, <1>3
<1>5. new \in [SwapHolder -> Nat]
  BY <1>2, <1>4
<1>6. swapShares'[a] = new /\ \A b \in SwapAsset \ {a} : swapShares'[b] = swapShares[b]
  OBVIOUS
<1>7. swapShares' \in [SwapAsset -> [SwapHolder -> Nat]]
  BY <1>5
<1> QED
  BY <1>6, <1>7

\* The liquidity of two entities changes, and with it that of all.
LEMMA LiquidityOfTwo ==
  ASSUME NEW old \in [SwapHolder -> Nat], NEW new \in [SwapHolder -> Nat], NEW who \in Account,
         \A h \in SwapHolder \ {SwapSelf, who} : new[h] = old[h]
  PROVE  /\ Summed(old, SwapHolder) \in Int
         /\ Summed(new, SwapHolder) = Summed(old, SwapHolder)
                + (new[SwapSelf] - old[SwapSelf]) + (new[who] - old[who])
<1> DEFINE mid == [old EXCEPT ![SwapSelf] = new[SwapSelf]]
<1>1. SwapSelf \in SwapHolder /\ who \in SwapHolder /\ who # SwapSelf
  BY Parties
<1>2. /\ mid \in [SwapHolder -> Nat] /\ mid[SwapSelf] = new[SwapSelf]
      /\ \A h \in SwapHolder \ {SwapSelf} : mid[h] = old[h]
  BY <1>1
<1> HIDE DEF mid
<1>3. \A h \in SwapHolder \ {who} : new[h] = mid[h]
  BY <1>1, <1>2
<1>4. \A f, g, x : (/\ x \in SwapHolder /\ f \in [SwapHolder -> Nat] /\ g \in [SwapHolder -> Nat]
                    /\ \A h \in SwapHolder \ {x} : g[h] = f[h])
                   => /\ Summed(f, SwapHolder) \in Int
                      /\ Summed(g, SwapHolder) = Summed(f, SwapHolder) + (g[x] - f[x])
  <2> SUFFICES ASSUME NEW f \in [SwapHolder -> Nat], NEW g \in [SwapHolder -> Nat], NEW x \in SwapHolder,
                      \A h \in SwapHolder \ {x} : g[h] = f[h]
               PROVE  /\ Summed(f, SwapHolder) \in Int
                      /\ Summed(g, SwapHolder) = Summed(f, SwapHolder) + (g[x] - f[x])
    OBVIOUS
  <2>1. (\A h \in SwapHolder : f[h] \in Int) /\ g[x] \in Int
    OBVIOUS
  <2> QED
    BY <2>1, SummedChange, Parties
<1>5. /\ Summed(old, SwapHolder) \in Int
      /\ Summed(mid, SwapHolder) = Summed(old, SwapHolder) + (mid[SwapSelf] - old[SwapSelf])
  BY <1>1, <1>2, <1>4
<1>6. Summed(new, SwapHolder) = Summed(mid, SwapHolder) + (new[who] - mid[who])
  BY <1>1, <1>2, <1>3, <1>4
<1>7. mid[who] = old[who]
  BY <1>1, <1>2
<1> QED
  BY <1>2, <1>5, <1>6, <1>7

\* The integer root exists.
LEMMA SquareRootTyped ==
  ASSUME NEW n \in Nat
  PROVE  SquareRoot(n) \in Nat
<1> DEFINE Above == {r \in Nat : (r + 1) * (r + 1) > n}
<1>1. n \in Above
  <2>1. (n + 1) * (n + 1) = n * n + n + n + 1 /\ n * n \in Nat
    BY Products
  <2> QED
    BY <2>1
<1>2. PICK r \in Above : \A q \in Above : r <= q
  <2>1. Above # {} /\ Above \subseteq Nat
    BY <1>1
  <2> HIDE DEF Above
  <2> QED
    BY <2>1, LeastNumber
<1>3. r \in 0 .. n /\ (r + 1) * (r + 1) > n
  BY <1>1, <1>2
<1>4. r * r <= n
  <2>1. CASE r = 0
    BY <2>1
  <2>2. CASE r # 0
    <3>1. r - 1 \in Nat /\ r - 1 \notin Above
      BY <1>2, <1>3, <2>2
    <3>2. ~(((r - 1) + 1) * ((r - 1) + 1) > n)
      BY <3>1
    <3>3. (r - 1) + 1 = r /\ r * r \in Int
      BY <1>3, Products
    <3> QED
      BY <3>2, <3>3
  <2> QED
    BY <2>1, <2>2
<1>5. \E q \in 0 .. n : q * q <= n /\ (q + 1) * (q + 1) > n
  BY <1>3, <1>4
<1>6. SquareRoot(n) \in 0 .. n
  BY <1>5 DEF SquareRoot
<1> QED
  BY <1>6

\* What enters a pool, the first time or in its proportion.
LEMMA EnteredKeeps ==
  ASSUME SwapInv, NEW a \in SwapAsset, NEW who \in Account, HasPool(a),
         NEW in, in.qu \in Nat, in.asset \in Nat, NEW first \in Nat, NEW gained \in Nat,
         Entered(a, who, in, first, gained), UNCHANGED swapOwed,
         \/ Pool(a).total = 0 /\ first = MinLiquidity /\ in.qu > 0 /\ in.asset > 0
         \/ /\ Pool(a).total > 0 /\ first = 0
            /\ Pool(a).qu * gained <= in.qu * Pool(a).total
            /\ Pool(a).asset * gained <= in.asset * Pool(a).total
  PROVE  SwapInv' /\ NoDilution
<1> DEFINE p == Pool(a)
           r == [qu |-> p.qu + in.qu, asset |-> p.asset + in.asset, total |-> p.total + first + gained]
<1>1. SwapTypeOK /\ funds \in Nat /\ swapOwed' \in [Kinds -> Nat]
  BY DEF SwapInv, SwapTypeOK
<1>2. p \in [qu : Nat, asset : Nat, total : Nat]
  BY <1>1, PoolTyped
<1>3. /\ swapShares[a][who] >= in.asset
      /\ swapShares' = [swapShares EXCEPT ![a] = Moved(@, who, SwapSelf, in.asset)]
      /\ pools' = [pools EXCEPT ![a] = {r}]
      /\ liquidity' = [liquidity EXCEPT ![a] = [liquidity[a] EXCEPT ![SwapSelf] = @ + first,
                                                            ![who] = @ + gained]]
      /\ funds' = funds + in.qu
  BY DEF Entered
<1> HIDE DEF p
<1>4. /\ r \in [qu : Nat, asset : Nat, total : Nat]
      /\ r.qu = p.qu + in.qu /\ r.asset = p.asset + in.asset /\ r.total = p.total + first + gained
  BY <1>2
<1> HIDE DEF r
<1>5. who \in SwapHolder /\ SwapSelf \in SwapHolder /\ who # SwapSelf /\ MinLiquidity \in Nat \ {0}
  BY Parties
<1>6. liquidity[a][who] \in Nat /\ liquidity[a][SwapSelf] \in Nat /\ swapShares[a][SwapSelf] \in Nat
  BY <1>1, <1>5 DEF SwapTypeOK
<1>7. /\ swapShares' \in [SwapAsset -> [SwapHolder -> Nat]]
      /\ \A b \in SwapAsset \ {a} : swapShares'[b] = swapShares[b]
      /\ swapShares'[a][SwapSelf] = swapShares[a][SwapSelf] + in.asset
  <2>1. swapShares[a][who] - in.asset \in Nat /\ swapShares[a][SwapSelf] + in.asset \in Nat
    <3>1. swapShares[a][who] \in Nat
      BY <1>1, <1>5 DEF SwapTypeOK
    <3> QED
      BY <1>3, <1>6, <3>1
  <2>2. swapShares \in [SwapAsset -> [SwapHolder -> Nat]]
    BY <1>1 DEF SwapTypeOK
  <2>3. swapShares' = [swapShares EXCEPT ![a] = Moved(swapShares[a], who, SwapSelf, in.asset)]
    BY <1>3
  <2>4. /\ swapShares' \in [SwapAsset -> [SwapHolder -> Nat]]
        /\ \A b \in SwapAsset \ {a} : swapShares'[b] = swapShares[b]
    BY <1>5, <2>1, <2>2, <2>3, SharesMove
  <2>5. swapShares'[a][SwapSelf] = swapShares[a][SwapSelf] + in.asset
    BY <1>5, <2>2, <2>3 DEF Moved
  <2> QED
    BY <2>4, <2>5
<1>8. /\ liquidity' \in [SwapAsset -> [SwapHolder -> Nat]]
      /\ \A b \in SwapAsset \ {a} : liquidity'[b] = liquidity[b]
      /\ liquidity'[a][SwapSelf] = liquidity[a][SwapSelf] + first
      /\ Summed(liquidity'[a], SwapHolder) = Summed(liquidity[a], SwapHolder) + first + gained
  <2> DEFINE old == liquidity[a]
             new == [old EXCEPT ![SwapSelf] = @ + first, ![who] = @ + gained]
  <2>1. liquidity \in [SwapAsset -> [SwapHolder -> Nat]] /\ old \in [SwapHolder -> Nat]
    BY <1>1 DEF SwapTypeOK
  <2>2. liquidity' = [liquidity EXCEPT ![a] = new]
    BY <1>3, <1>5
  <2> HIDE DEF old
  <2>3. /\ new \in [SwapHolder -> Nat]
        /\ new[SwapSelf] = old[SwapSelf] + first /\ new[who] = old[who] + gained
        /\ \A h \in SwapHolder \ {SwapSelf, who} : new[h] = old[h]
    BY <1>5, <2>1
  <2> HIDE DEF new
  <2>4. /\ liquidity' \in [SwapAsset -> [SwapHolder -> Nat]]
        /\ liquidity'[a] = new /\ \A b \in SwapAsset \ {a} : liquidity'[b] = liquidity[b]
    BY <2>1, <2>2, <2>3
  <2>5. old[SwapSelf] \in Nat /\ old[who] \in Nat
    BY <1>5, <2>1
  <2>6. /\ Summed(old, SwapHolder) \in Int
        /\ Summed(new, SwapHolder) = Summed(old, SwapHolder)
              + (new[SwapSelf] - old[SwapSelf]) + (new[who] - old[who])
    BY <2>1, <2>3, LiquidityOfTwo
  <2> QED
    BY <2>3, <2>4, <2>5, <2>6 DEF old
<1>9. /\ p.total = Summed(liquidity[a], SwapHolder)
      /\ p.total > 0 => p.qu > 0 /\ p.asset > 0
      /\ p.total > 0 => liquidity[a][SwapSelf] >= MinLiquidity
      /\ swapShares[a][SwapSelf] = p.asset
      /\ PoolQus[a] = p.qu
  BY SumsOfTheProperties DEF SwapInv, Provided, LiquidityStays, Traded, PoolSharesHeld, PoolQus, p
<1>10. p.qu \in Nat /\ p.asset \in Nat /\ p.total \in Nat
  BY <1>2
<1>11. CASE p.total = 0 /\ first = MinLiquidity /\ in.qu > 0 /\ in.asset > 0
  <2>1. ~Traded(a)
    BY <1>10, <1>11 DEF Traded, p
  <2>2. r.total > 0 => r.qu > 0 /\ r.asset > 0 /\ liquidity'[a][SwapSelf] >= MinLiquidity
    BY <1>4, <1>5, <1>6, <1>8, <1>10, <1>11
  <2>3. r.qu - PoolQus[a] + Summed(swapOwed', Kinds) - Summed(swapOwed, Kinds) <= funds' - funds
    <3>1. Summed(swapOwed', Kinds) = Summed(swapOwed, Kinds) /\ Summed(swapOwed, Kinds) \in Nat
      BY <1>1, PoolTyped
    <3> QED
      BY <1>1, <1>3, <1>4, <1>9, <1>10, <3>1
  <2>4. /\ funds' \in Nat /\ swapShares'[a][SwapSelf] = r.asset
        /\ r.total = Summed(liquidity'[a], SwapHolder)
    BY <1>1, <1>3, <1>4, <1>7, <1>8, <1>9
  <2>5. SwapInv'
    BY <1>1, <1>3, <1>4, <1>7, <1>8, <2>2, <2>3, <2>4, ReservesChange
  <2>6. NoDilution
    BY <1>3, <1>4, <2>1, RelationOfPool
  <2> QED
    BY <2>5, <2>6
<1>12. CASE /\ p.total > 0 /\ first = 0
            /\ p.qu * gained <= in.qu * p.total /\ p.asset * gained <= in.asset * p.total
  <2>1. r.total > 0 => r.qu > 0 /\ r.asset > 0 /\ liquidity'[a][SwapSelf] >= MinLiquidity
    BY <1>4, <1>5, <1>6, <1>8, <1>9, <1>10, <1>12
  <2>2. r.qu - PoolQus[a] + Summed(swapOwed', Kinds) - Summed(swapOwed, Kinds) <= funds' - funds
    <3>1. Summed(swapOwed', Kinds) = Summed(swapOwed, Kinds) /\ Summed(swapOwed, Kinds) \in Nat
      BY <1>1, PoolTyped
    <3> QED
      BY <1>1, <1>3, <1>4, <1>9, <1>10, <3>1
  <2>3. /\ funds' \in Nat /\ swapShares'[a][SwapSelf] = r.asset
        /\ r.total = Summed(liquidity'[a], SwapHolder)
    BY <1>1, <1>3, <1>4, <1>7, <1>8, <1>9
  <2>4. SwapInv'
    BY <1>1, <1>3, <1>4, <1>7, <1>8, <2>1, <2>2, <2>3, ReservesChange
  <2>5. r.total = p.total + gained
    BY <1>4, <1>10, <1>12
  <2>6. p.qu * r.total <= r.qu * p.total
    <3>1. /\ p.qu * (p.total + gained) = p.qu * p.total + p.qu * gained
          /\ (p.qu + in.qu) * p.total = p.qu * p.total + in.qu * p.total
          /\ {p.qu * p.total, p.qu * gained, in.qu * p.total} \subseteq Int
      BY <1>10, Products
    <3> QED
      BY <1>4, <1>12, <2>5, <3>1
  <2>7. p.asset * r.total <= r.asset * p.total
    <3>1. /\ p.asset * (p.total + gained) = p.asset * p.total + p.asset * gained
          /\ (p.asset + in.asset) * p.total = p.asset * p.total + in.asset * p.total
          /\ {p.asset * p.total, p.asset * gained, in.asset * p.total} \subseteq Int
      BY <1>10, Products
    <3> QED
      BY <1>4, <1>12, <2>5, <3>1
  <2>8. r.qu \in Nat /\ r.asset \in Nat /\ r.total \in Nat /\ r.total > 0
    BY <1>4, <1>10, <1>12
  <2>9. p.qu * p.asset * r.total * r.total <= r.qu * r.asset * p.total * p.total
    BY <1>10, <2>6, <2>7, <2>8, RelationKept
  <2>10. NoDilution
    BY <1>3, <1>4, <2>8, <2>9, RelationOfPool DEF p
  <2> QED
    BY <2>4, <2>10
<1> QED
  BY <1>11, <1>12 DEF p

\* Liquidity is added.
LEMMA AddLiquidityKeeps ==
  ASSUME SwapInv, NEW who \in Account, NEW a \in SwapAsset, NEW qu \in Nat, NEW asset \in Int,
         NEW quMin \in Int, NEW assetMin \in Int,
         AddLiquidity(who, a, qu, asset, quMin, assetMin)
  PROVE  SwapInv' /\ NoDilution
<1> DEFINE p == Pool(a)
<1>1. HasPool(a) /\ qu > 0 /\ asset > 0 /\ asset \in Nat /\ UNCHANGED swapOwed
  BY DEF AddLiquidity
<1>2. p.qu \in Nat /\ p.asset \in Nat /\ p.total \in Nat
  BY <1>1, PoolTyped DEF SwapInv
<1>3. CASE p.total = 0
  <2> DEFINE root == SquareRoot(qu * asset)
             in == [qu |-> qu, asset |-> asset]
  <2>1. root >= MinLiquidity /\ Entered(a, who, in, MinLiquidity, root - MinLiquidity)
    BY <1>3 DEF AddLiquidity
  <2>2. root \in Nat /\ MinLiquidity \in Nat
    <3>1. qu * asset \in Nat
      BY <1>1, Products
    <3> QED
      BY <3>1, SquareRootTyped, Parties
  <2>3. in.qu = qu /\ in.asset = asset
    OBVIOUS
  <2> HIDE DEF root, in
  <2>4. root - MinLiquidity \in Nat
    BY <2>1, <2>2
  <2> QED
    BY <1>1, <1>3, <2>1, <2>2, <2>3, <2>4, EnteredKeeps
<1>4. CASE p.total > 0
  <2>1. PICK in \in Proportional(p, qu, asset, quMin, assetMin) :
          Entered(a, who, in, 0, LiquidityFor(p, in))
    <3>1. p.total # 0
      BY <1>2, <1>4
    <3> QED
      BY <3>1, Zenon DEF AddLiquidity
  <2>2. p.qu \in Nat \ {0} /\ p.asset \in Nat \ {0} /\ p.total \in Nat \ {0}
    <3>1. p.qu > 0 /\ p.asset > 0
      BY <1>1, <1>4, SumsOfTheProperties DEF SwapInv, Provided
    <3> QED
      BY <1>2, <1>4, <3>1
  <2>3. in.qu \in Nat /\ in.asset \in Nat
    <3> DEFINE optimalAsset == Equivalent(qu, p.qu, p.asset)
               optimalQu == Equivalent(asset, p.asset, p.qu)
    <3>1. optimalAsset \in Nat /\ optimalQu \in Nat
      <4>1. qu * p.asset \in Nat /\ asset * p.qu \in Nat
        BY <1>1, <1>2, Products
      <4> QED
        BY <2>2, <4>1, Division DEF Equivalent
    <3>2. in \in {[qu |-> qu, asset |-> optimalAsset], [qu |-> optimalQu, asset |-> asset]}
      BY <2>1 DEF Proportional
    <3> HIDE DEF optimalAsset, optimalQu
    <3> QED
      BY <1>1, <3>1, <3>2
  <2> DEFINE gained == LiquidityFor(p, in)
             byQu == (in.qu * p.total) \div p.qu
             byAsset == (in.asset * p.total) \div p.asset
  <2>4. in.qu * p.total \in Nat /\ in.asset * p.total \in Nat
    BY <1>2, <2>3, Products
  <2>5. byQu \in Nat /\ byQu * p.qu <= in.qu * p.total
    BY <2>2, <2>4, Division
  <2>6. byAsset \in Nat /\ byAsset * p.asset <= in.asset * p.total
    BY <2>2, <2>4, Division
  <2>7. gained = Least(byQu, byAsset)
    BY DEF LiquidityFor
  <2> HIDE DEF byQu, byAsset, gained
  <2>8. gained \in Nat /\ gained <= byQu /\ gained <= byAsset
    BY <2>5, <2>6, <2>7 DEF Least
  <2>9. p.qu * gained <= in.qu * p.total /\ p.asset * gained <= in.asset * p.total
    <3>1. gained * p.qu <= byQu * p.qu /\ gained * p.asset <= byAsset * p.asset
      BY <2>2, <2>5, <2>6, <2>8, ProductsGrow
    <3>2. /\ gained * p.qu = p.qu * gained /\ gained * p.asset = p.asset * gained
          /\ {gained * p.qu, gained * p.asset, byQu * p.qu, byAsset * p.asset} \subseteq Int
      BY <2>2, <2>5, <2>6, <2>8, Products
    <3> QED
      BY <2>4, <2>5, <2>6, <3>1, <3>2
  <2> QED
    BY <1>1, <1>4, <2>1, <2>3, <2>8, <2>9, EnteredKeeps DEF gained
<1> QED
  BY <1>2, <1>3, <1>4

\* A share of what there is, rounded down: what is left is at least what is left of the shares.
LEMMA ShareLeft ==
  ASSUME NEW q \in Nat, NEW t \in Nat \ {0}, NEW b \in 0 .. t
  PROVE  LET x == (b * q) \div t
         IN /\ x \in 0 .. q
            /\ q * (t - b) <= (q - x) * t
<1> DEFINE x == (b * q) \div t
<1>1. b \in Nat /\ b * q \in Nat /\ t * q \in Nat
  BY Products
<1>2. x \in Nat /\ x * t <= b * q
  BY <1>1, Division
<1> HIDE DEF x
<1>3. q * (t - b) <= (q - x) * t
  <2>1. q * (t - b) = q * t - b * q /\ (q - x) * t = q * t - x * t
    BY <1>1, <1>2, Products
  <2>2. {q * t, b * q, x * t} \subseteq Int
    BY <1>1, <1>2, Products
  <2> QED
    BY <1>2, <2>1, <2>2
<1>4. x <= q
  <2>1. b * q <= t * q
    BY <1>1, ProductsGrow
  <2>2. t * q = q * t /\ x * t \in Int
    BY <1>2, Products
  <2>3. x * t <= q * t
    BY <1>1, <1>2, <2>1, <2>2
  <2> QED
    BY <1>2, <2>3, ProductsCancel
<1> QED
  BY <1>2, <1>3, <1>4 DEF x

\* Liquidity is removed: the contract's own part stays, and with it something in the pool.
LEMMA RemoveLiquidityKeeps ==
  ASSUME SwapInv, NEW who \in Account, NEW a \in SwapAsset, NEW burnt \in Int,
         NEW quMin \in Int, NEW assetMin \in Int,
         RemoveLiquidity(who, a, burnt, quMin, assetMin)
  PROVE  SwapInv' /\ NoDilution
<1> DEFINE p == Pool(a)
           qu == (burnt * p.qu) \div p.total
           asset == (burnt * p.asset) \div p.total
           r == [qu |-> p.qu - qu, asset |-> p.asset - asset, total |-> p.total - burnt]
           old == liquidity[a]
           new == [old EXCEPT ![who] = @ - burnt]
<1>1. SwapTypeOK /\ funds \in Nat /\ HasPool(a)
  BY DEF SwapInv, SwapTypeOK, RemoveLiquidity
<1>2. p.qu \in Nat /\ p.asset \in Nat /\ p.total \in Nat
  BY <1>1, PoolTyped
<1>3. /\ burnt > 0 /\ old[who] >= burnt /\ p.total >= burnt
      /\ funds' = Paid(funds, qu)
      /\ swapShares' = [swapShares EXCEPT ![a] = Moved(@, SwapSelf, who, asset)]
      /\ liquidity' = [liquidity EXCEPT ![a] = new]
      /\ pools' = [pools EXCEPT ![a] = {r}]
      /\ UNCHANGED swapOwed
  BY DEF RemoveLiquidity
<1> HIDE DEF p
<1>4. burnt \in 0 .. p.total /\ p.total \in Nat \ {0}
  BY <1>2, <1>3
<1>5. /\ qu \in 0 .. p.qu /\ asset \in 0 .. p.asset
      /\ p.qu * (p.total - burnt) <= (p.qu - qu) * p.total
      /\ p.asset * (p.total - burnt) <= (p.asset - asset) * p.total
  BY <1>2, <1>4, ShareLeft
<1> HIDE DEF qu, asset
<1>6. r.qu = p.qu - qu /\ r.asset = p.asset - asset /\ r.total = p.total - burnt
  OBVIOUS
<1>7. r \in [qu : Nat, asset : Nat, total : Nat] /\ r.qu \in Nat /\ r.asset \in Nat /\ r.total \in Nat
  BY <1>2, <1>4, <1>5
<1> HIDE DEF r
<1>8. who \in SwapHolder /\ SwapSelf \in SwapHolder /\ who # SwapSelf /\ MinLiquidity \in Nat \ {0}
  BY Parties
<1>9. /\ p.total = Summed(old, SwapHolder)
      /\ p.qu > 0 /\ p.asset > 0
      /\ old[SwapSelf] >= MinLiquidity
      /\ swapShares[a][SwapSelf] = p.asset
      /\ PoolQus[a] = p.qu
  BY <1>1, <1>4, SumsOfTheProperties
  DEF SwapInv, Provided, LiquidityStays, Traded, PoolSharesHeld, PoolQus, p
<1>10. /\ liquidity \in [SwapAsset -> [SwapHolder -> Nat]] /\ old \in [SwapHolder -> Nat]
       /\ swapShares \in [SwapAsset -> [SwapHolder -> Nat]] /\ swapOwed' \in [Kinds -> Nat]
  BY <1>1, <1>3 DEF SwapTypeOK
<1> HIDE DEF old
<1>11. /\ new \in [SwapHolder -> Nat] /\ new[who] = old[who] - burnt
       /\ new[SwapSelf] = old[SwapSelf]
       /\ \A h \in SwapHolder \ {SwapSelf, who} : new[h] = old[h]
  BY <1>3, <1>8, <1>10
<1> HIDE DEF new
<1>12. /\ liquidity' \in [SwapAsset -> [SwapHolder -> Nat]]
       /\ liquidity'[a] = new /\ \A b \in SwapAsset \ {a} : liquidity'[b] = liquidity[b]
  BY <1>3, <1>10, <1>11
<1>13. old[SwapSelf] \in Nat /\ old[who] \in Nat
  BY <1>8, <1>10
<1>14. r.total = Summed(new, SwapHolder)
  <2>1. /\ Summed(old, SwapHolder) \in Int
        /\ Summed(new, SwapHolder) = Summed(old, SwapHolder)
              + (new[SwapSelf] - old[SwapSelf]) + (new[who] - old[who])
    BY <1>10, <1>11, LiquidityOfTwo
  <2> QED
    BY <1>6, <1>9, <1>11, <1>13, <2>1
<1>15. r.total >= MinLiquidity
  <2>1. \A h \in SwapHolder : new[h] \in Nat
    BY <1>11
  <2>2. new[SwapSelf] <= Summed(new, SwapHolder)
    BY <1>8, <2>1, SummedNat, Parties
  <2> QED
    BY <1>7, <1>8, <1>9, <1>11, <1>13, <1>14, <2>2
<1>16. r.qu > 0 /\ r.asset > 0
  <2>1. r.total \in Nat \ {0} /\ p.qu \in Nat \ {0} /\ p.asset \in Nat \ {0}
    BY <1>2, <1>7, <1>8, <1>9, <1>15
  <2>2. p.qu * r.total <= r.qu * p.total /\ p.asset * r.total <= r.asset * p.total
    BY <1>5, <1>6
  <2>3. 1 * r.total <= p.qu * r.total /\ 1 * r.total <= p.asset * r.total
    BY <2>1, ProductsGrow
  <2>4. {p.qu * r.total, p.asset * r.total, r.qu * p.total, r.asset * p.total} \subseteq Int
    BY <1>2, <1>7, Products
  <2>5. r.qu * p.total # 0 /\ r.asset * p.total # 0
    BY <2>1, <2>2, <2>3, <2>4
  <2> QED
    BY <1>2, <1>7, <2>5
<1>17. qu <= funds
  <2>1. funds >= Summed(PoolQus, SwapAsset) + Summed(swapOwed, Kinds)
    BY SumsOfTheProperties DEF SwapInv, Covered
  <2>2. /\ Summed(PoolQus, SwapAsset) \in Nat /\ Summed(swapOwed, Kinds) \in Nat
        /\ PoolQus[a] <= Summed(PoolQus, SwapAsset)
    BY <1>1, PoolTyped
  <2> QED
    BY <1>1, <1>2, <1>5, <1>9, <2>1, <2>2
<1>18. funds' = funds - qu /\ funds' \in Nat
  BY <1>1, <1>2, <1>3, <1>5, <1>17 DEF Paid, CanPay
<1>19. /\ swapShares' \in [SwapAsset -> [SwapHolder -> Nat]]
       /\ \A b \in SwapAsset \ {a} : swapShares'[b] = swapShares[b]
       /\ swapShares'[a][SwapSelf] = r.asset
  <2>1. swapShares[a][who] \in Nat /\ asset \in Nat
    BY <1>2, <1>5, <1>8, <1>10
  <2>2. swapShares[a][SwapSelf] - asset \in Nat /\ swapShares[a][who] + asset \in Nat
    BY <1>2, <1>5, <1>9, <2>1
  <2>3. swapShares' = [swapShares EXCEPT ![a] = Moved(swapShares[a], SwapSelf, who, asset)]
    BY <1>3
  <2>4. /\ swapShares' \in [SwapAsset -> [SwapHolder -> Nat]]
        /\ \A b \in SwapAsset \ {a} : swapShares'[b] = swapShares[b]
    BY <1>8, <1>10, <2>2, <2>3, SharesMove
  <2>5. swapShares'[a][SwapSelf] = swapShares[a][SwapSelf] - asset
    BY <1>2, <1>5, <1>8, <1>9, <1>10, <2>1, <2>3 DEF Moved
  <2> QED
    BY <1>6, <1>9, <2>4, <2>5
<1>20. SwapInv'
  <2>1. r.qu - PoolQus[a] + Summed(swapOwed', Kinds) - Summed(swapOwed, Kinds) <= funds' - funds
    <3>1. Summed(swapOwed', Kinds) = Summed(swapOwed, Kinds) /\ Summed(swapOwed, Kinds) \in Nat
      BY <1>1, <1>3, PoolTyped
    <3> QED
      BY <1>1, <1>2, <1>5, <1>6, <1>9, <1>18, <3>1
  <2>2. r.total > 0 => r.qu > 0 /\ r.asset > 0 /\ liquidity'[a][SwapSelf] >= MinLiquidity
    BY <1>9, <1>11, <1>12, <1>16
  <2>3. r.total = Summed(liquidity'[a], SwapHolder)
    BY <1>12, <1>14
  <2> QED
    BY <1>3, <1>7, <1>10, <1>12, <1>18, <1>19, <2>1, <2>2, <2>3, ReservesChange
<1>21. NoDilution
  <2>1. p.qu * r.total <= r.qu * p.total /\ p.asset * r.total <= r.asset * p.total
    BY <1>5, <1>6
  <2>2. p.qu * p.asset * r.total * r.total <= r.qu * r.asset * p.total * p.total
    BY <1>2, <1>7, <2>1, RelationKept
  <2>3. r.total > 0
    BY <1>7, <1>8, <1>15
  <2> QED
    BY <1>3, <1>7, <2>2, <2>3, RelationOfPool DEF p
<1> QED
  BY <1>20, <1>21

\* A swap whose fee is at least what the product of the reserves needs.
LEMMA SwappedKeeps ==
  ASSUME SwapInv, NEW a \in SwapAsset, NEW who \in Account, Traded(a),
         NEW quIn \in Int, NEW assetIn \in Int, NEW fee \in Nat,
         Swapped(a, who, quIn, assetIn, fee),
         NEW b \in Nat \ {0}, NEW d \in Int,
         d <= b * (Pool(a).qu + quIn - fee),
         b * (Pool(a).qu * Pool(a).asset) <= d * (Pool(a).asset + assetIn)
  PROVE  SwapInv' /\ NoDilution
<1> DEFINE p == Pool(a)
           x == p.qu + quIn - PartsSum(fee)
           y == p.asset + assetIn
           r == [qu |-> x, asset |-> y, total |-> p.total]
<1>1. SwapTypeOK /\ funds \in Nat /\ HasPool(a) /\ p.total > 0
  BY DEF SwapInv, SwapTypeOK, Traded
<1>2. p.qu \in Nat /\ p.asset \in Nat /\ p.total \in Nat
  BY <1>1, PoolTyped
<1>3. /\ swapShares[a][IF assetIn > 0 THEN who ELSE SwapSelf] >= IF assetIn > 0 THEN assetIn ELSE -assetIn
      /\ funds' = IF quIn > 0 THEN funds + quIn ELSE Paid(funds, -quIn)
      /\ swapShares' = [swapShares EXCEPT ![a] = Moved(@, who, SwapSelf, assetIn)]
      /\ pools' = [pools EXCEPT ![a] = {r}]
      /\ swapOwed' = Owed(Parts(fee)) /\ UNCHANGED liquidity
  BY DEF Swapped
<1>4. /\ d <= b * (p.qu + quIn - fee)
      /\ b * (p.qu * p.asset) <= d * y
  OBVIOUS
<1>5. /\ p.total = Summed(liquidity[a], SwapHolder)
      /\ p.qu > 0 /\ p.asset > 0
      /\ liquidity[a][SwapSelf] >= MinLiquidity
      /\ swapShares[a][SwapSelf] = p.asset
      /\ PoolQus[a] = p.qu
  BY <1>1, SumsOfTheProperties DEF SwapInv, Provided, LiquidityStays, Traded, PoolSharesHeld, PoolQus
<1> HIDE DEF p
<1>6. /\ PartsSum(fee) \in 0 .. fee /\ swapOwed' \in [Kinds -> Nat]
      /\ Summed(swapOwed', Kinds) = Summed(swapOwed, Kinds) + PartsSum(fee)
      /\ Summed(swapOwed, Kinds) \in Nat
  BY <1>1, <1>3, PartsWithin DEF SwapTypeOK
<1>7. who \in SwapHolder /\ SwapSelf \in SwapHolder /\ who # SwapSelf
  BY Parties
<1>8. swapShares \in [SwapAsset -> [SwapHolder -> Nat]] /\ swapShares[a][who] \in Nat
  BY <1>1, <1>7 DEF SwapTypeOK
<1>9. swapShares[a][who] - assetIn \in Nat /\ y \in Nat
  <2>1. CASE assetIn > 0
    BY <1>2, <1>3, <1>8, <2>1
  <2>2. CASE ~(assetIn > 0)
    BY <1>2, <1>3, <1>5, <1>8, <2>2
  <2> QED
    BY <2>1, <2>2
<1>10. x \in Int /\ p.qu + quIn - fee <= x /\ p.qu + quIn - fee \in Int
  BY <1>2, <1>6
<1> HIDE DEF x, y
<1>11. p.qu * p.asset <= x * y
  <2>1. d <= b * x
    <3>1. (p.qu + quIn - fee) * b <= x * b
      BY <1>10, ProductsGrow
    <3>2. /\ (p.qu + quIn - fee) * b = b * (p.qu + quIn - fee) /\ x * b = b * x
          /\ {b * (p.qu + quIn - fee), b * x} \subseteq Int
      BY <1>10, Products
    <3> QED
      BY <1>4, <3>1, <3>2
  <2> QED
    BY <1>2, <1>4, <1>9, <1>10, <2>1, ProductKept
<1>12. x > 0 /\ y > 0
  <2>1. 1 * p.asset <= p.qu * p.asset
    BY <1>2, <1>5, ProductsGrow
  <2>2. p.qu * p.asset \in Int /\ x * y \in Int
    BY <1>2, <1>9, <1>10, Products
  <2>3. x * y > 0
    BY <1>2, <1>5, <1>11, <2>1, <2>2
  <2>4. y # 0
    BY <1>10, <2>3
  <2>5. ASSUME x <= 0 PROVE FALSE
    <3>1. x * y <= 0 * y
      BY <1>9, <1>10, <2>5, ProductsGrow
    <3> QED
      BY <1>9, <2>2, <2>3, <3>1
  <2> QED
    BY <1>9, <1>10, <2>4, <2>5
<1>13. /\ r \in [qu : Nat, asset : Nat, total : Nat]
       /\ r.qu = x /\ r.asset = y /\ r.total = p.total
  BY <1>2, <1>9, <1>10, <1>12
<1> HIDE DEF r
<1>14. funds' = funds + quIn /\ funds' \in Nat
  <2>1. CASE quIn > 0
    BY <1>1, <1>3, <2>1
  <2>2. CASE ~(quIn > 0)
    <3>1. funds >= Summed(PoolQus, SwapAsset) + Summed(swapOwed, Kinds)
      BY SumsOfTheProperties DEF SwapInv, Covered
    <3>2. /\ Summed(PoolQus, SwapAsset) \in Nat /\ Summed(swapOwed, Kinds) \in Nat
          /\ PoolQus[a] <= Summed(PoolQus, SwapAsset)
      BY <1>1, PoolTyped
    <3>3. -quIn <= p.qu
      BY <1>2, <1>6, <1>12 DEF x
    <3>4. -quIn >= 0 /\ -quIn <= funds
      BY <1>1, <1>2, <1>5, <2>2, <3>1, <3>2, <3>3
    <3>5. funds' = funds - (-quIn)
      BY <1>3, <2>2, <3>4 DEF Paid, CanPay
    <3> QED
      BY <1>1, <3>4, <3>5
  <2> QED
    BY <2>1, <2>2
<1>15. /\ swapShares' \in [SwapAsset -> [SwapHolder -> Nat]]
       /\ \A c \in SwapAsset \ {a} : swapShares'[c] = swapShares[c]
       /\ swapShares'[a][SwapSelf] = r.asset
  <2>1. swapShares' = [swapShares EXCEPT ![a] = Moved(swapShares[a], who, SwapSelf, assetIn)]
    BY <1>3
  <2>2. swapShares[a][SwapSelf] + assetIn \in Nat
    BY <1>5, <1>9 DEF y
  <2>3. /\ swapShares' \in [SwapAsset -> [SwapHolder -> Nat]]
        /\ \A c \in SwapAsset \ {a} : swapShares'[c] = swapShares[c]
    BY <1>7, <1>8, <1>9, <2>1, <2>2, SharesMove
  <2>4. swapShares'[a][SwapSelf] = swapShares[a][SwapSelf] + assetIn
    BY <1>7, <1>8, <2>1 DEF Moved
  <2> QED
    BY <1>5, <1>13, <2>3, <2>4 DEF y
<1>16. SwapInv'
  <2>1. r.qu - PoolQus[a] + Summed(swapOwed', Kinds) - Summed(swapOwed, Kinds) <= funds' - funds
    BY <1>1, <1>2, <1>5, <1>6, <1>13, <1>14 DEF x
  <2>2. r.total > 0 => r.qu > 0 /\ r.asset > 0 /\ liquidity'[a][SwapSelf] >= MinLiquidity
    BY <1>3, <1>5, <1>12, <1>13
  <2>3. r.total = Summed(liquidity'[a], SwapHolder)
    BY <1>3, <1>5, <1>13
  <2>4. /\ liquidity' \in [SwapAsset -> [SwapHolder -> Nat]]
        /\ \A c \in SwapAsset \ {a} : liquidity'[c] = liquidity[c] /\ swapShares'[c] = swapShares[c]
    BY <1>1, <1>3, <1>15 DEF SwapTypeOK
  <2> QED
    BY <1>3, <1>6, <1>13, <1>14, <1>15, <2>1, <2>2, <2>3, <2>4, ReservesChange
<1>17. NoDilution
  <2>1. p.qu * p.asset * r.total * r.total <= r.qu * r.asset * p.total * p.total
    <3> DEFINE m == p.qu * p.asset
               n == x * y
    <3>1. m \in Int /\ n \in Int /\ m <= n
      BY <1>2, <1>9, <1>10, <1>11, Products
    <3> HIDE DEF m, n
    <3>2. m * p.total <= n * p.total
      BY <1>2, <3>1, ProductsGrow
    <3>3. m * p.total \in Int /\ n * p.total \in Int
      BY <1>2, <3>1, Products
    <3>4. m * p.total * p.total <= n * p.total * p.total
      BY <1>2, <3>2, <3>3, ProductsGrow
    <3> QED
      BY <1>13, <3>4 DEF m, n
  <2>2. r.total > 0
    BY <1>1, <1>13 DEF p
  <2> QED
    BY <1>3, <1>13, <2>1, <2>2, RelationOfPool DEF p
<1> QED
  BY <1>16, <1>17

\* The reserves of a pool in which there is trade.
LEMMA ReservesTyped ==
  ASSUME SwapInv, NEW a \in SwapAsset, Traded(a)
  PROVE  /\ Pool(a).qu \in Nat /\ Pool(a).asset \in Nat
         /\ SwapFeeBase \in Nat \ {0} /\ SwapFeeRate \in 0 .. SwapFeeBase - 1
         /\ SwapFeeBase - SwapFeeRate \in Nat \ {0}
<1>1. Pool(a) \in [qu : Nat, asset : Nat, total : Nat]
  BY PoolTyped DEF SwapInv, Traded
<1>2. SwapFeeBase \in Nat \ {0} /\ SwapFeeRate \in 0 .. SwapFeeBase - 1
  BY Parties
<1>3. SwapFeeBase - SwapFeeRate \in Nat \ {0}
  BY <1>2
<1> QED
  BY <1>1, <1>2, <1>3

\* Some qus for what they bring.
LEMMA SwapExactQuForAssetKeeps ==
  ASSUME SwapInv, NEW who \in Account, NEW a \in SwapAsset, NEW qu \in Nat, NEW assetMin \in Int,
         SwapExactQuForAsset(who, a, qu, assetMin)
  PROVE  SwapInv' /\ NoDilution
<1> DEFINE B == SwapFeeBase
           R == SwapFeeRate
           q == Pool(a).qu
           s == Pool(a).asset
           paid == qu * (B - R)
           out == (s * paid) \div (q * B + paid)
           fee == (qu * R) \div B
           d == B * q + paid
<1>1. Traded(a) /\ qu > 0 /\ Swapped(a, who, qu, -out, fee)
  BY DEF SwapExactQuForAsset, OutFeeFromIn
<1>2. q \in Nat /\ s \in Nat /\ B \in Nat \ {0} /\ R \in 0 .. B - 1 /\ B - R \in Nat \ {0}
  BY <1>1, ReservesTyped
<1> HIDE DEF q, s, B, R
<1>3. d <= B * (q + qu - fee)
  BY <1>2, FeeFromIn
<1>4. out \in Nat /\ B * (q * s) <= d * (s - out)
  BY <1>1, <1>2, OutFeeFromInKept
<1>5. fee \in Nat /\ d \in Int
  <2>1. qu * R \in Nat /\ B * q \in Nat /\ paid \in Nat
    BY <1>2, Products
  <2>2. fee \in Nat
    BY <1>2, <2>1, Division
  <2> QED
    BY <2>1, <2>2
<1> HIDE DEF out, fee, d, paid
<1>6. -out \in Int /\ s + (-out) = s - out
  BY <1>2, <1>4
<1>7. B * (q * s) <= d * (s + (-out))
  BY <1>4, <1>6
<1> QED
  BY <1>1, <1>2, <1>3, <1>5, <1>6, <1>7, SwappedKeeps DEF q, s

\* Qus for some shares.
LEMMA SwapQuForExactAssetKeeps ==
  ASSUME SwapInv, NEW who \in Account, NEW a \in SwapAsset, NEW reward \in Nat, NEW asset \in Int,
         SwapQuForExactAsset(who, a, reward, asset)
  PROVE  SwapInv' /\ NoDilution
<1> DEFINE B == SwapFeeBase
           R == SwapFeeRate
           q == Pool(a).qu
           s == Pool(a).asset
           in == (q * asset * B) \div ((s - asset) * (B - R)) + 1
           fee == (in * R) \div B
           d == B * q + in * (B - R)
<1>1. Traded(a) /\ asset > 0 /\ asset < s /\ Swapped(a, who, in, -asset, fee)
  BY DEF SwapQuForExactAsset, InFeeFromIn
<1>2. q \in Nat /\ s \in Nat /\ B \in Nat \ {0} /\ R \in 0 .. B - 1 /\ B - R \in Nat \ {0}
  BY <1>1, ReservesTyped
<1> HIDE DEF q, s, B, R
<1>3. asset \in Nat
  BY <1>1
<1>4. in \in Nat \ {0} /\ B * (q * s) <= d * (s - asset)
  BY <1>1, <1>2, <1>3, InFeeFromInKept
<1> HIDE DEF in
<1>5. d <= B * (q + in - fee)
  BY <1>2, <1>4, FeeFromIn
<1>6. fee \in Nat /\ d \in Int
  <2>1. in * R \in Nat /\ B * q \in Nat /\ in * (B - R) \in Nat
    BY <1>2, <1>4, Products
  <2>2. fee \in Nat
    BY <1>2, <2>1, Division
  <2> QED
    BY <2>1, <2>2
<1> HIDE DEF fee, d
<1>7. -asset \in Int /\ s + (-asset) = s - asset
  BY <1>2, <1>3
<1>8. B * (q * s) <= d * (s + (-asset))
  BY <1>4, <1>7
<1> QED
  BY <1>1, <1>2, <1>4, <1>5, <1>6, <1>7, <1>8, SwappedKeeps DEF q, s

\* Some shares for what they bring.
LEMMA SwapExactAssetForQuKeeps ==
  ASSUME SwapInv, NEW who \in Account, NEW a \in SwapAsset, NEW asset \in Int, NEW quMin \in Int,
         SwapExactAssetForQu(who, a, asset, quMin)
  PROVE  SwapInv' /\ NoDilution
<1> DEFINE B == SwapFeeBase
           R == SwapFeeRate
           q == Pool(a).qu
           s == Pool(a).asset
           before == (q * asset) \div (s + asset)
           out == (before * (B - R)) \div B
           fee == (before * R) \div B
<1>1. Traded(a) /\ asset > 0 /\ Swapped(a, who, -out, asset, fee)
  BY DEF SwapExactAssetForQu, OutFeeFromOut
<1>2. q \in Nat /\ s \in Nat /\ B \in Nat \ {0} /\ R \in 0 .. B - 1 /\ B - R \in Nat \ {0}
  BY <1>1, ReservesTyped
<1> HIDE DEF q, s, B, R
<1>3. asset \in Nat \ {0}
  BY <1>1
<1>4. /\ before \in Nat /\ out \in Nat /\ fee \in Nat /\ out + fee <= before
      /\ q * s <= (q - before) * (s + asset)
  BY <1>2, <1>3, OutFeeFromOutKept
<1> HIDE DEF before, out, fee
<1>5. -out \in Int /\ q - before \in Int /\ q - before <= 1 * (q + (-out) - fee)
  BY <1>2, <1>4
<1>6. 1 * (q * s) <= (q - before) * (s + asset)
  <2>1. q * s \in Int
    BY <1>2, Products
  <2> QED
    BY <1>4, <2>1
<1> QED
  BY <1>1, <1>4, <1>5, <1>6, SwappedKeeps DEF q, s

\* Shares for some qus.
LEMMA SwapAssetForExactQuKeeps ==
  ASSUME SwapInv, NEW who \in Account, NEW a \in SwapAsset, NEW qu \in Int, NEW assetMax \in Int,
         SwapAssetForExactQu(who, a, qu, assetMax)
  PROVE  SwapInv' /\ NoDilution
<1> DEFINE B == SwapFeeBase
           R == SwapFeeRate
           q == Pool(a).qu
           s == Pool(a).asset
           d == q * (B - R) - qu * B
           in == (s * qu * B) \div d + 1
           fee == (qu * R) \div (B - R)
<1>1. Traded(a) /\ qu > 0 /\ q * (B - R) > qu * B /\ Swapped(a, who, -qu, in, fee)
  BY DEF SwapAssetForExactQu, InFeeFromOut, Reachable
<1>2. q \in Nat /\ s \in Nat /\ B \in Nat \ {0} /\ R \in 0 .. B - 1 /\ B - R \in Nat \ {0}
  BY <1>1, ReservesTyped
<1> HIDE DEF q, s, B, R
<1>3. qu \in Nat
  BY <1>1
<1>4. /\ in \in Nat \ {0} /\ fee \in Nat
      /\ d <= (B - R) * (q - qu - fee)
      /\ (B - R) * (q * s) <= d * (s + in)
  BY <1>1, <1>2, <1>3, InFeeFromOutKept
<1>5. d \in Int
  <2>1. q * (B - R) \in Int /\ qu * B \in Int
    BY <1>2, <1>3, Products
  <2> QED
    BY <2>1
<1> HIDE DEF d, in, fee
<1>6. -qu \in Int /\ q + (-qu) - fee = q - qu - fee
  BY <1>2, <1>3, <1>4
<1>7. d <= (B - R) * (q + (-qu) - fee)
  BY <1>4, <1>6
<1> QED
  BY <1>1, <1>2, <1>4, <1>5, <1>6, <1>7, SwappedKeeps DEF q, s

\* Shares are transferred, for a fee.
LEMMA TransferSharesKeeps ==
  ASSUME SwapInv, NEW who \in Account, NEW to \in Account, NEW a \in SwapAsset, NEW n \in Int,
         SwapTransferShares(who, to, a, n)
  PROVE  SwapInv' /\ NoDilution
<1> DEFINE old == swapShares[a]
           new == Moved(old, who, to, n)
<1>1. SwapTypeOK /\ funds \in Nat /\ swapOwed \in [Kinds -> Nat]
  BY DEF SwapInv, SwapTypeOK
<1>2. /\ n > 0 /\ old[who] >= n
      /\ swapShares' = [swapShares EXCEPT ![a] = new]
      /\ funds' = funds + SwapTransferFee /\ swapOwed' = OwedTo("shareholders", SwapTransferFee)
      /\ UNCHANGED <<pools, liquidity>> /\ SwapTransferFee \in Nat
  BY FeesTyped DEF SwapTransferShares
<1>3. who \in SwapHolder /\ to \in SwapHolder /\ SwapSelf \in SwapHolder \ {who, to}
  BY Parties
<1>4. old \in [SwapHolder -> Nat] /\ swapShares \in [SwapAsset -> [SwapHolder -> Nat]]
  BY <1>1 DEF SwapTypeOK
<1> HIDE DEF old
<1>5. new \in [SwapHolder -> Nat] /\ new[SwapSelf] = old[SwapSelf]
  <2>1. n \in Nat /\ old[who] - n \in Nat
    BY <1>2, <1>3, <1>4
  <2>2. \A h \in SwapHolder : new[h] = (IF h = who THEN old[h] - n ELSE old[h]) + (IF h = to THEN n ELSE 0)
    BY DEF Moved
  <2>3. \A h \in SwapHolder : new[h] \in Nat
    BY <1>4, <2>1, <2>2
  <2>4. new[SwapSelf] = old[SwapSelf]
    BY <1>3, <1>4, <2>2
  <2>5. new = [h \in SwapHolder |-> new[h]]
    BY DEF Moved
  <2> QED
    BY <2>3, <2>4, <2>5
<1> HIDE DEF new
<1>6. /\ swapShares' \in [SwapAsset -> [SwapHolder -> Nat]]
      /\ \A b \in SwapAsset : swapShares'[b][SwapSelf] = swapShares[b][SwapSelf]
  BY <1>2, <1>4, <1>5 DEF old
<1>7. /\ swapOwed' \in [Kinds -> Nat]
      /\ Summed(swapOwed', Kinds) = Summed(swapOwed, Kinds) + SwapTransferFee
      /\ Summed(swapOwed, Kinds) \in Nat
  BY <1>1, <1>2, OwedMore
<1>8. funds' \in Nat /\ Summed(swapOwed', Kinds) - Summed(swapOwed, Kinds) <= funds' - funds
  BY <1>1, <1>2, <1>7
<1> QED
  BY <1>2, <1>6, <1>7, <1>8, ReservesStay

\* Shares leave the contract's management.
LEMMA ReleaseSharesKeeps ==
  ASSUME SwapInv, NEW who \in Account, NEW a \in SwapAsset, NEW n \in Int, NEW paid \in BOOLEAN,
         SwapReleaseShares(who, a, n, paid)
  PROVE  SwapInv' /\ NoDilution
<1>1. SwapTypeOK /\ funds \in Nat /\ swapOwed \in [Kinds -> Nat]
      /\ swapShares \in [SwapAsset -> [SwapHolder -> Nat]]
  BY DEF SwapInv, SwapTypeOK
<1>2. UNCHANGED <<pools, liquidity, swapOwed>>
  BY DEF SwapReleaseShares
<1>3. who \in SwapHolder /\ SwapSelf \in SwapHolder /\ who # SwapSelf
  BY Parties
<1>4. /\ funds' \in Nat /\ funds <= funds'
      /\ swapShares' \in [SwapAsset -> [SwapHolder -> Nat]]
      /\ \A b \in SwapAsset : swapShares'[b][SwapSelf] = swapShares[b][SwapSelf]
  <2>1. CASE funds' = funds + 1 /\ UNCHANGED swapShares
    BY <1>1, <2>1
  <2>2. CASE /\ n > 0 /\ swapShares[a][who] >= n
             /\ swapShares' = [swapShares EXCEPT ![a][who] = @ - n] /\ UNCHANGED funds
    <3>1. swapShares[a][who] - n \in Nat
      BY <1>1, <1>3, <2>2
    <3> QED
      BY <1>1, <1>3, <2>2, <3>1
  <2> QED
    BY <2>1, <2>2 DEF SwapReleaseShares
<1>5. Summed(swapOwed, Kinds) \in Nat
  BY <1>1, PoolTyped
<1>6. /\ swapOwed' \in [Kinds -> Nat]
      /\ Summed(swapOwed', Kinds) - Summed(swapOwed, Kinds) <= funds' - funds
  BY <1>1, <1>2, <1>4, <1>5
<1> QED
  BY <1>2, <1>4, <1>6, ReservesStay

\* The fees are distributed: since they are covered, every payment is made.
LEMMA EndTickKeeps ==
  ASSUME SwapInv, SwapEndTick
  PROVE  SwapInv' /\ NoDilution
<1> DEFINE holders == swapOwed["shareholders"]
           each == holders \div Computors
           invest == swapOwed["invest"]
           qx == swapOwed["qx"]
           burn == swapOwed["burn"]
           invested == Paid(funds, invest)
           toQx == Paid(invested, qx)
           shared == Paid(toQx, each * Computors)
<1>1. SwapTypeOK /\ funds \in Nat /\ swapOwed \in [Kinds -> Nat]
      /\ swapShares \in [SwapAsset -> [SwapHolder -> Nat]]
  BY DEF SwapInv, SwapTypeOK
<1>2. /\ {holders, invest, qx, burn} \subseteq Nat /\ Computors \in Nat \ {0}
      /\ "shareholders" \in Kinds /\ "invest" \in Kinds /\ "qx" \in Kinds /\ "burn" \in Kinds
  BY <1>1, Parties
<1>3. /\ funds' = Paid(shared, burn)
      /\ swapOwed' = [k \in Kinds |->
             CASE k = "invest" /\ ~CanPay(funds, swapOwed[k]) -> swapOwed[k]
               [] k = "qx" /\ ~CanPay(invested, swapOwed[k]) -> swapOwed[k]
               [] k = "shareholders" -> IF CanPay(toQx, each * Computors)
                                        THEN DividendRest(swapOwed[k]) ELSE swapOwed[k]
               [] OTHER -> 0]
      /\ UNCHANGED <<pools, liquidity, swapShares>>
  BY DEF SwapEndTick, Distributed
<1>4. Summed(swapOwed, Kinds) = holders + invest + qx + burn
  BY <1>1, FourKinds
<1>5. holders + invest + qx + burn <= funds
  <2>1. funds >= Summed(PoolQus, SwapAsset) + Summed(swapOwed, Kinds)
    BY SumsOfTheProperties DEF SwapInv, Covered
  <2>2. Summed(PoolQus, SwapAsset) \in Nat
    BY <1>1, PoolTyped
  <2> QED
    BY <1>1, <1>2, <1>4, <2>1, <2>2
<1>6. /\ each \in Nat /\ each * Computors <= holders /\ each * Computors \in Nat
      /\ DividendRest(holders) = holders - each * Computors
      /\ DividendRest(holders) \in Nat
  <2>1. holders \in Nat
    BY <1>2
  <2> HIDE DEF holders
  <2>2. each \in Nat /\ each * Computors <= holders
    BY <1>2, <2>1, Division
  <2>3. holders % Computors = holders - (holders \div Computors) * Computors /\ holders % Computors \in Nat
    BY <1>2, <2>1
  <2>4. each * Computors \in Nat
    BY <1>2, <2>2, Products
  <2> QED
    BY <2>2, <2>3, <2>4 DEF DividendRest
<1> HIDE DEF each
<1>7. invested = funds - invest /\ CanPay(funds, invest) /\ invested \in Nat
  BY <1>1, <1>2, <1>5 DEF Paid, CanPay
<1>8. toQx = funds - invest - qx /\ CanPay(invested, qx) /\ toQx \in Nat
  BY <1>1, <1>2, <1>5, <1>7 DEF Paid, CanPay
<1>9. shared = funds - invest - qx - each * Computors /\ CanPay(toQx, each * Computors) /\ shared \in Nat
  BY <1>1, <1>2, <1>5, <1>6, <1>8 DEF Paid, CanPay
<1>10. funds' = funds - invest - qx - each * Computors - burn /\ funds' \in Nat
  BY <1>1, <1>2, <1>3, <1>5, <1>6, <1>9 DEF Paid, CanPay
<1> HIDE DEF invested, toQx, shared
<1>11. /\ swapOwed'["shareholders"] = holders - each * Computors
       /\ swapOwed'["invest"] = 0 /\ swapOwed'["qx"] = 0 /\ swapOwed'["burn"] = 0
  BY <1>2, <1>3, <1>6, <1>7, <1>8, <1>9
<1>12. swapOwed' \in [Kinds -> Nat]
  <2>1. \A k \in Kinds : swapOwed'[k] \in Nat
    BY <1>2, <1>6, <1>11, Parties
  <2>2. swapOwed' = [k \in Kinds |-> swapOwed'[k]]
    BY <1>3
  <2> QED
    BY <2>1, <2>2
<1>13. Summed(swapOwed', Kinds) = holders - each * Computors
  <2>1. \A k \in Kinds : swapOwed'[k] \in Int
    BY <1>12
  <2>2. Summed(swapOwed', Kinds) = swapOwed'["shareholders"] + swapOwed'["invest"]
                                     + swapOwed'["qx"] + swapOwed'["burn"]
    BY <2>1, FourKinds
  <2> QED
    BY <1>2, <1>6, <1>11, <2>2
<1>14. Summed(swapOwed', Kinds) - Summed(swapOwed, Kinds) <= funds' - funds
  BY <1>1, <1>2, <1>4, <1>6, <1>10, <1>13
<1>15. /\ UNCHANGED <<pools, liquidity>> /\ swapShares' \in [SwapAsset -> [SwapHolder -> Nat]]
       /\ \A b \in SwapAsset : swapShares'[b][SwapSelf] = swapShares[b][SwapSelf]
  BY <1>1, <1>3
<1> QED
  BY <1>10, <1>12, <1>14, <1>15, ReservesStay

-----------------------------------------------------------------------------
(***************************************************************************)
(* The theorems                                                            *)
(***************************************************************************)

LEMMA SwapInitHolds == funds \in Nat /\ SwapInit => SwapInv
<1> SUFFICES ASSUME funds \in Nat, SwapInit PROVE SwapInv
  OBVIOUS
<1>1. SwapTypeOK
  BY DEF SwapInit, SwapTypeOK
<1>2. \A a \in SwapAsset : ~HasPool(a)
  BY DEF SwapInit, HasPool
<1>3. SwapSolvent
  <2>1. \A a \in SwapAsset : PoolQus[a] = 0
    BY <1>2 DEF PoolQus
  <2>2. \A k \in Kinds : swapOwed[k] = 0
    BY DEF SwapInit
  <2>3. Summed(PoolQus, SwapAsset) = 0 /\ Summed(swapOwed, Kinds) = 0
    BY <2>1, <2>2, SummedZero, Parties
  <2>4. Covered
    BY <2>3 DEF Covered
  <2> QED
    BY <2>4, SumsOfTheProperties
<1>4. PoolSharesHeld
  BY <1>2, Parties DEF SwapInit, PoolSharesHeld
<1>5. LiquidityAdds
  BY <1>2 DEF LiquidityAdds
<1>6. LiquidityStays
  BY <1>2 DEF SwapInit, LiquidityStays, Traded
<1> QED
  BY <1>1, <1>3, <1>4, <1>5, <1>6 DEF SwapInv

\* Every step keeps the invariant, and what the liquidity is worth.
LEMMA SwapStep == SwapInv /\ [SwapNext]_swapVars => SwapInv' /\ [NoDilution]_swapOwn
<1> SUFFICES ASSUME SwapInv, [SwapNext]_swapVars PROVE SwapInv' /\ [NoDilution]_swapOwn
  OBVIOUS
<1>1. SwapAmounts \subseteq Int /\ SwapRewards \subseteq Nat /\ SwapLimits \subseteq Int
  BY SwapAssumption
<1>2. CASE UNCHANGED swapVars
  <2>1. /\ UNCHANGED <<funds, pools, liquidity, swapShares, swapOwed>>
        /\ UNCHANGED swapOwn
    BY <1>2 DEF swapVars, swapOwn
  <2>2. funds' \in Nat /\ swapOwed' \in [Kinds -> Nat] /\ swapShares' \in [SwapAsset -> [SwapHolder -> Nat]]
    BY <2>1 DEF SwapInv, SwapTypeOK
  <2>3. Summed(swapOwed', Kinds) - Summed(swapOwed, Kinds) <= funds' - funds
    <3>1. Summed(swapOwed', Kinds) = Summed(swapOwed, Kinds) /\ Summed(swapOwed, Kinds) \in Nat
      BY <2>1, PoolTyped DEF SwapInv
    <3> QED
      BY <2>1, <2>2, <3>1
  <2>4. \A b \in SwapAsset : swapShares'[b][SwapSelf] = swapShares[b][SwapSelf]
    BY <2>1
  <2> QED
    BY <2>1, <2>2, <2>3, <2>4, ReservesStay
<1>3. ASSUME NEW a \in SwapAsset, SwapIssueAsset(a) PROVE SwapInv' /\ NoDilution
  BY <1>3, IssueAssetKeeps
<1>4. ASSUME NEW a \in SwapAsset, CreatePool(a) PROVE SwapInv' /\ NoDilution
  BY <1>4, CreatePoolKeeps
<1>5. ASSUME NEW who \in Account, NEW a \in SwapAsset, NEW n \in SwapAmounts, NEW qu \in SwapRewards,
             NEW quMin \in SwapLimits, NEW assetMin \in SwapLimits,
             AddLiquidity(who, a, qu, n, quMin, assetMin)
      PROVE  SwapInv' /\ NoDilution
  BY <1>1, <1>5, AddLiquidityKeeps
<1>6. ASSUME NEW who \in Account, NEW a \in SwapAsset, NEW n \in SwapAmounts,
             NEW quMin \in SwapLimits, NEW assetMin \in SwapLimits,
             RemoveLiquidity(who, a, n, quMin, assetMin)
      PROVE  SwapInv' /\ NoDilution
  BY <1>1, <1>6, RemoveLiquidityKeeps
<1>7. ASSUME NEW who \in Account, NEW a \in SwapAsset, NEW n \in SwapAmounts, NEW reward \in SwapRewards,
             SwapQuForExactAsset(who, a, reward, n)
      PROVE  SwapInv' /\ NoDilution
  BY <1>1, <1>7, SwapQuForExactAssetKeeps
<1>8. ASSUME NEW who \in Account, NEW a \in SwapAsset, NEW n \in SwapAmounts, NEW limit \in SwapLimits,
             SwapExactAssetForQu(who, a, n, limit)
      PROVE  SwapInv' /\ NoDilution
  BY <1>1, <1>8, SwapExactAssetForQuKeeps
<1>9. ASSUME NEW who \in Account, NEW a \in SwapAsset, NEW n \in SwapAmounts, NEW most \in SwapAmounts,
             SwapAssetForExactQu(who, a, n, most)
      PROVE  SwapInv' /\ NoDilution
  BY <1>1, <1>9, SwapAssetForExactQuKeeps
<1>10. ASSUME NEW who \in Account, NEW a \in SwapAsset, NEW n \in SwapAmounts, NEW to \in Account,
              SwapTransferShares(who, to, a, n)
       PROVE  SwapInv' /\ NoDilution
  BY <1>1, <1>10, TransferSharesKeeps
<1>11. ASSUME NEW who \in Account, NEW a \in SwapAsset, NEW n \in SwapAmounts, NEW paid \in BOOLEAN,
              SwapReleaseShares(who, a, n, paid)
       PROVE  SwapInv' /\ NoDilution
  BY <1>1, <1>11, ReleaseSharesKeeps
<1>12. ASSUME NEW who \in Account, NEW a \in SwapAsset, NEW qu \in SwapRewards, NEW limit \in SwapLimits,
              SwapExactQuForAsset(who, a, qu, limit)
       PROVE  SwapInv' /\ NoDilution
  BY <1>1, <1>12, SwapExactQuForAssetKeeps
<1>13. SwapEndTick => SwapInv' /\ NoDilution
  BY EndTickKeeps
<1> QED
  BY <1>2, <1>3, <1>4, <1>5, <1>6, <1>7, <1>8, <1>9, <1>10, <1>11, <1>12, <1>13 DEF SwapNext

\* The inductive invariant holds in every state.
THEOREM SwapInvariance == SwapSpec => []SwapInv
BY SwapInitHolds, SwapStep, PTL DEF SwapSpec

\* The qus of the pools and the fees not yet distributed are always on the contract's balance,
\* whatever is added, removed, swapped and paid out at the ends of ticks.
THEOREM PoolsCovered == SwapSpec => []SwapSolvent
<1>1. SwapInv => SwapSolvent
  BY DEF SwapInv
<1> QED
  BY <1>1, SwapInvariance, PTL

\* The shares that the pools record are those the contract holds.
THEOREM PoolsBacked == SwapSpec => []PoolSharesHeld
<1>1. SwapInv => PoolSharesHeld
  BY DEF SwapInv
<1> QED
  BY <1>1, SwapInvariance, PTL

\* The liquidity of a pool is that of its providers, and a pool in which there is trade has reserves.
THEOREM LiquidityIsProvided == SwapSpec => []LiquidityAdds
<1>1. SwapInv => LiquidityAdds
  BY DEF SwapInv
<1> QED
  BY <1>1, SwapInvariance, PTL

\* No call takes value from those who provide liquidity: what a unit of liquidity stands for,
\* the product of the reserves in relation to its square, never shrinks.
THEOREM ProvidersKeepValue == SwapSpec => PoolsNotDrained
BY SwapInitHolds, SwapStep, PTL DEF SwapSpec, PoolsNotDrained
===============================================================================

---------------------------------- MODULE Qswap ----------------------------------
(***************************************************************************)
(* The contract Qswap: pools of an asset and qus, the liquidity that users *)
(* provide to them, swaps with their fees, and the distribution of fees.   *)
(***************************************************************************)
EXTENDS Qpi

CONSTANTS
  SwapAsset,          \* the assets of issuers among Account
  SwapIssuer,         \* SwapAsset -> Account
  IssuedShares, SwapIssuanceFee, SwapTransferFee,  \* Qx's fees
  PoolFee,            \* the part of the issuance fee for a pool
  MaxPools, MaxLiquidityEntries,
  MinLiquidity,       \* the liquidity that stays with the contract
  SwapFeeBase, SwapFeeRate,
  SwapFeeShare,       \* [shareholders, invest, qx, burn] -> percent of the swap fee
  SwapRewards, SwapAmounts, SwapLimits   \* inputs

Kinds == DOMAIN SwapFeeShare
SwapSelf == "Qswap"

ASSUME SwapAssumption ==
  /\ IsFiniteSet(Account) /\ SwapSelf \notin Account
  /\ IsFiniteSet(SwapAsset) /\ SwapIssuer \in [SwapAsset -> Account]
  /\ {IssuedShares, SwapIssuanceFee, SwapTransferFee, PoolFee} \subseteq Nat
  /\ MinLiquidity \in Nat \ {0}
  /\ SwapFeeBase \in Nat \ {0} /\ SwapFeeRate \in 0 .. SwapFeeBase - 1
  /\ SwapFeeShare \in [{"shareholders", "invest", "qx", "burn"} -> Nat]
  /\ SumOf(Kinds, LAMBDA k : SwapFeeShare[k]) <= 100
  /\ SwapRewards \subseteq Nat /\ SwapAmounts \subseteq Int /\ SwapLimits \subseteq Int

VARIABLES
  pools,        \* mPoolBasicStates: asset -> set of at most one [qu, asset, total]
  liquidity,    \* mLiquidities: asset -> entity -> liquidity
  swapShares,   \* asset -> holder -> shares under management of the contract
  swapOwed      \* kind -> earned fees that are not distributed

swapOwn == <<pools, liquidity, swapShares, swapOwed>>
swapVars == <<funds, swapOwn>>

SwapHolder == Account \cup {SwapSelf}
Pool(a) == CHOOSE p \in pools[a] : TRUE
HasPool(a) == pools[a] # {}
Traded(a) == HasPool(a) /\ Pool(a).total > 0
Providers(a) == {e \in SwapHolder : liquidity[a][e] > 0}
Moved(shares, from, to, n) ==
  [h \in SwapHolder |-> (IF h = from THEN shares[h] - n ELSE shares[h]) + (IF h = to THEN n ELSE 0)]

SquareRoot(n) == CHOOSE r \in 0 .. n : r * r <= n /\ (r + 1) * (r + 1) > n

(***************************************************************************)
(* Quotes                                                                  *)
(***************************************************************************)

\* quoteEquivalentAmountB
Equivalent(n, reserveA, reserveB) == (n * reserveB) \div reserveA

\* getAmountOutTakeFeeFromInToken
OutFeeFromIn(n, in, out) ==
  LET paid == n * (SwapFeeBase - SwapFeeRate) IN (out * paid) \div (in * SwapFeeBase + paid)

\* getAmountInTakeFeeFromInToken
InFeeFromIn(n, in, out) == (in * n * SwapFeeBase) \div ((out - n) * (SwapFeeBase - SwapFeeRate)) + 1

\* getAmountOutTakeFeeFromOutToken, before the fee
OutFeeFromOut(n, in, out) == (out * n) \div (in + n)

\* getAmountInTakeFeeFromOutToken; there is none when the reserve does not suffice.
Reachable(n, out) == out * (SwapFeeBase - SwapFeeRate) > n * SwapFeeBase
InFeeFromOut(n, in, out) ==
  (in * n * SwapFeeBase) \div (out * (SwapFeeBase - SwapFeeRate) - n * SwapFeeBase) + 1

\* What is taken out of the pool of a swap fee.
Parts(fee) == [k \in Kinds |-> (fee * SwapFeeShare[k]) \div 100]
PartsSum(fee) == SumOf(Kinds, LAMBDA k : Parts(fee)[k])
Owed(more) == [k \in Kinds |-> swapOwed[k] + more[k]]
OwedTo(kind, n) == [swapOwed EXCEPT ![kind] = @ + n]

(***************************************************************************)
(* Assets and pools.  Calls that fail return the reward and change nothing *)
(* else; only those that succeed are actions.                              *)
(***************************************************************************)

SwapIssueAsset(a) ==
  /\ \A h \in SwapHolder : swapShares[a][h] = 0
  /\ swapShares' = [swapShares EXCEPT ![a][SwapIssuer[a]] = IssuedShares]
  /\ funds' = funds + SwapIssuanceFee
  /\ swapOwed' = OwedTo("shareholders", SwapIssuanceFee)
  /\ UNCHANGED <<pools, liquidity>>

CreatePool(a) ==
  /\ \E h \in SwapHolder : swapShares[a][h] > 0
  /\ ~HasPool(a)
  /\ Cardinality({b \in SwapAsset : HasPool(b)}) < MaxPools
  /\ pools' = [pools EXCEPT ![a] = {[qu |-> 0, asset |-> 0, total |-> 0]}]
  /\ funds' = funds + PoolFee
  /\ swapOwed' = OwedTo("shareholders", PoolFee)
  /\ UNCHANGED <<liquidity, swapShares>>

\* What enters an established pool, in its proportion; none when a limit is not met.
Proportional(p, qu, asset, quMin, assetMin) ==
  LET optimalAsset == Equivalent(qu, p.qu, p.asset)
      optimalQu == Equivalent(asset, p.asset, p.qu)
  IN CASE optimalAsset <= asset /\ optimalAsset >= assetMin -> {[qu |-> qu, asset |-> optimalAsset]}
       [] optimalAsset > asset /\ optimalQu <= qu /\ optimalQu >= quMin -> {[qu |-> optimalQu, asset |-> asset]}
       [] OTHER -> {}

\* Mutant: the better of the two proportions.
LiquidityForMost(p, in) ==
  LET byQu == (in.qu * p.total) \div p.qu byAsset == (in.asset * p.total) \div p.asset
  IN IF byQu < byAsset THEN byAsset ELSE byQu

LiquidityFor(p, in) == Least((in.qu * p.total) \div p.qu, (in.asset * p.total) \div p.asset)

Entered(a, who, in, first, gained) ==
  /\ swapShares[a][who] >= in.asset
  /\ swapShares' = [swapShares EXCEPT ![a] = Moved(@, who, SwapSelf, in.asset)]
  /\ pools' = [pools EXCEPT ![a] = {[qu |-> Pool(a).qu + in.qu, asset |-> Pool(a).asset + in.asset,
                                     total |-> Pool(a).total + first + gained]}]
  /\ liquidity' = [liquidity EXCEPT ![a] = [liquidity[a] EXCEPT ![SwapSelf] = @ + first,
                                                            ![who] = @ + gained]]
  /\ funds' = funds + in.qu

AddLiquidity(who, a, qu, asset, quMin, assetMin) ==
  /\ HasPool(a) /\ qu > 0 /\ asset > 0
  /\ \/ /\ Pool(a).total = 0
        /\ LET gained == SquareRoot(qu * asset) IN
             /\ gained >= MinLiquidity
             /\ Entered(a, who, [qu |-> qu, asset |-> asset], MinLiquidity, gained - MinLiquidity)
     \/ /\ Pool(a).total > 0
        /\ \E in \in Proportional(Pool(a), qu, asset, quMin, assetMin) :
             LET gained == LiquidityFor(Pool(a), in) IN
             /\ gained > 0
             /\ liquidity[a][who] > 0 \/
                SumOf(SwapAsset, LAMBDA b : Cardinality(Providers(b))) < MaxLiquidityEntries
             /\ Entered(a, who, in, 0, gained)
  /\ UNCHANGED swapOwed

RemoveLiquidity(who, a, burnt, quMin, assetMin) ==
  /\ HasPool(a) /\ burnt > 0
  /\ liquidity[a][who] >= burnt /\ Pool(a).total >= burnt
  /\ LET p == Pool(a)
         qu == (burnt * p.qu) \div p.total
         asset == (burnt * p.asset) \div p.total
     IN /\ qu >= quMin /\ asset >= assetMin
        /\ funds' = Paid(funds, qu)
        /\ swapShares' = [swapShares EXCEPT ![a] = Moved(@, SwapSelf, who, asset)]
        /\ liquidity' = [liquidity EXCEPT ![a][who] = @ - burnt]
        /\ pools' = [pools EXCEPT ![a] = {[qu |-> p.qu - qu, asset |-> p.asset - asset,
                                           total |-> p.total - burnt]}]
  /\ UNCHANGED swapOwed

(***************************************************************************)
(* Swaps                                                                   *)
(***************************************************************************)

\* who gives the first amount to the pool and takes the second, qus or shares (negative: from
\* the pool); the fee is in qus and part of it leaves the pool for those it is owed to.
Swapped(a, who, quIn, assetIn, fee) ==
  /\ swapShares[a][IF assetIn > 0 THEN who ELSE SwapSelf] >= IF assetIn > 0 THEN assetIn ELSE -assetIn
  /\ funds' = IF quIn > 0 THEN funds + quIn ELSE Paid(funds, -quIn)
  /\ swapShares' = [swapShares EXCEPT ![a] = Moved(@, who, SwapSelf, assetIn)]
  /\ pools' = [pools EXCEPT ![a] = {[qu |-> Pool(a).qu + quIn - PartsSum(fee),
                                     asset |-> Pool(a).asset + assetIn, total |-> Pool(a).total]}]
  /\ swapOwed' = Owed(Parts(fee))
  /\ UNCHANGED liquidity

SwapExactQuForAsset(who, a, qu, assetMin) ==
  /\ Traded(a) /\ qu > 0
  /\ LET out == OutFeeFromIn(qu, Pool(a).qu, Pool(a).asset) IN
       /\ out >= assetMin /\ out > 0
       /\ Swapped(a, who, qu, -out, (qu * SwapFeeRate) \div SwapFeeBase)

SwapQuForExactAsset(who, a, reward, asset) ==
  /\ Traded(a) /\ reward > 0 /\ asset > 0 /\ asset < Pool(a).asset
  /\ LET in == InFeeFromIn(asset, Pool(a).qu, Pool(a).asset) IN
       /\ in <= reward
       /\ Swapped(a, who, in, -asset, (in * SwapFeeRate) \div SwapFeeBase)

SwapExactAssetForQu(who, a, asset, quMin) ==
  /\ Traded(a) /\ asset > 0
  /\ LET before == OutFeeFromOut(asset, Pool(a).asset, Pool(a).qu)
         out == (before * (SwapFeeBase - SwapFeeRate)) \div SwapFeeBase
     IN /\ out >= quMin
        /\ Swapped(a, who, -out, asset, (before * SwapFeeRate) \div SwapFeeBase)

SwapAssetForExactQu(who, a, qu, assetMax) ==
  /\ Traded(a) /\ qu > 0 /\ qu < Pool(a).qu
  /\ Reachable(qu, Pool(a).qu)
  /\ LET in == InFeeFromOut(qu, Pool(a).asset, Pool(a).qu) IN
       /\ in <= assetMax
       /\ Swapped(a, who, -qu, in, (qu * SwapFeeRate) \div (SwapFeeBase - SwapFeeRate))

(***************************************************************************)
(* Shares and fees                                                         *)
(***************************************************************************)

SwapTransferShares(who, to, a, n) ==
  /\ n > 0 /\ swapShares[a][who] >= n
  /\ swapShares' = [swapShares EXCEPT ![a] = Moved(@, who, to, n)]
  /\ funds' = funds + SwapTransferFee
  /\ swapOwed' = OwedTo("shareholders", SwapTransferFee)
  /\ UNCHANGED <<pools, liquidity>>

\* TransferShareManagementRights: the shares leave; the fee goes to the other contract.  A
\* reward below the fee is kept.
SwapReleaseShares(who, a, n, paid) ==
  /\ \/ paid /\ n > 0 /\ swapShares[a][who] >= n
        /\ swapShares' = [swapShares EXCEPT ![a][who] = @ - n] /\ UNCHANGED funds
     \/ ~paid /\ funds' = funds + 1 /\ UNCHANGED swapShares
  /\ UNCHANGED <<pools, liquidity, swapOwed>>

DividendRest(owed) == owed % Computors

\* END_TICK
SwapEndTick ==
  /\ LET each == swapOwed["shareholders"] \div Computors
         invested == Paid(funds, swapOwed["invest"])
         toQx == Paid(invested, swapOwed["qx"])
         shared == Distributed(toQx, each)
     IN /\ funds' = Paid(shared, swapOwed["burn"])
        /\ swapOwed' = [k \in Kinds |->
             CASE k = "invest" /\ ~CanPay(funds, swapOwed[k]) -> swapOwed[k]
               [] k = "qx" /\ ~CanPay(invested, swapOwed[k]) -> swapOwed[k]
               [] k = "shareholders" -> IF CanPay(toQx, each * Computors)
                                        THEN DividendRest(swapOwed[k]) ELSE swapOwed[k]
               [] OTHER -> 0]
  /\ UNCHANGED <<pools, liquidity, swapShares>>

SwapInit ==
  /\ pools = [a \in SwapAsset |-> {}]
  /\ liquidity = [a \in SwapAsset |-> [h \in SwapHolder |-> 0]]
  /\ swapShares = [a \in SwapAsset |-> [h \in SwapHolder |-> 0]]
  /\ swapOwed = [k \in Kinds |-> 0]

SwapNext ==
  \/ \E a \in SwapAsset : SwapIssueAsset(a) \/ CreatePool(a)
  \/ \E who \in Account, a \in SwapAsset, n \in SwapAmounts :
       \/ \E qu \in SwapRewards, quMin, assetMin \in SwapLimits :
            AddLiquidity(who, a, qu, n, quMin, assetMin)
       \/ \E quMin, assetMin \in SwapLimits : RemoveLiquidity(who, a, n, quMin, assetMin)
       \/ \E reward \in SwapRewards : SwapQuForExactAsset(who, a, reward, n)
       \/ \E limit \in SwapLimits : SwapExactAssetForQu(who, a, n, limit)
       \/ \E most \in SwapAmounts : SwapAssetForExactQu(who, a, n, most)
       \/ \E to \in Account : SwapTransferShares(who, to, a, n)
       \/ \E paid \in BOOLEAN : SwapReleaseShares(who, a, n, paid)
  \/ \E who \in Account, a \in SwapAsset, qu \in SwapRewards, limit \in SwapLimits :
       SwapExactQuForAsset(who, a, qu, limit)
  \/ SwapEndTick

SwapSpec == funds \in Nat /\ SwapInit /\ [][SwapNext]_swapVars

(***************************************************************************)
(* Properties                                                              *)
(***************************************************************************)

\* The qus of the pools, none where there is no pool.
PoolQus == [a \in SwapAsset |-> IF HasPool(a) THEN Pool(a).qu ELSE 0]

\* The qus of the pools and the fees not yet distributed are on the contract's balance.
SwapSolvent ==
  funds >= SumOf(SwapAsset, LAMBDA a : PoolQus[a]) + SumOf(Kinds, LAMBDA k : swapOwed[k])

\* The shares of the pools are those the contract holds.
PoolSharesHeld ==
  \A a \in SwapAsset : swapShares[a][SwapSelf] = IF HasPool(a) THEN Pool(a).asset ELSE 0

\* The liquidity of a pool is that of its providers, and a traded pool is not empty.
LiquidityAdds ==
  \A a \in SwapAsset : HasPool(a) =>
    /\ Pool(a).total = SumOf(SwapHolder, LAMBDA h : liquidity[a][h])
    /\ Pool(a).total > 0 => Pool(a).qu > 0 /\ Pool(a).asset > 0

\* No step takes value from those who provide liquidity: the product of a pool's reserves does
\* not shrink in relation to the square of its liquidity, whatever is added, removed, swapped.
NoDilution ==
  \A a \in SwapAsset :
    Traded(a) => /\ Pool(a)'.total > 0
                 /\ Pool(a)'.qu * Pool(a)'.asset * Pool(a).total * Pool(a).total
                      >= Pool(a).qu * Pool(a).asset * Pool(a)'.total * Pool(a)'.total
PoolsNotDrained == [][NoDilution]_swapOwn

-----------------------------------------------------------------------------
(* The inductive invariant of the proofs.                                   *)

SwapTypeOK ==
  /\ funds \in Nat
  /\ pools \in [SwapAsset -> SUBSET [qu : Nat, asset : Nat, total : Nat]]
  /\ \A a \in SwapAsset : \A p, q \in pools[a] : p = q
  /\ liquidity \in [SwapAsset -> [SwapHolder -> Nat]]
  /\ swapShares \in [SwapAsset -> [SwapHolder -> Nat]]
  /\ swapOwed \in [Kinds -> Nat]

\* The contract's own part of the liquidity never goes.
LiquidityStays ==
  \A a \in SwapAsset :
    /\ ~HasPool(a) => \A h \in SwapHolder : liquidity[a][h] = 0
    /\ Traded(a) => liquidity[a][SwapSelf] >= MinLiquidity

SwapInv == SwapTypeOK /\ SwapSolvent /\ PoolSharesHeld /\ LiquidityAdds /\ LiquidityStays
===============================================================================

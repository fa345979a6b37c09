------------------------------- MODULE MCNodeState -------------------------------
(***************************************************************************)
(* The tables that hold the state of a node and its contracts, and the     *)
(* accounts of an epoch, each on a small instance.  They do not share      *)
(* variables: a behaviour is one of one table or account, chosen at the    *)
(* start, and the others keep their initial state.                         *)
(***************************************************************************)
EXTENDS Collection, HashMap, Spectrum, PendingTxsPool, Assets, MinerRanking, EpochAccounting, TLC

CONSTANTS none, v1

VARIABLE part

MCPovHome == [p \in {"x", "z"} |-> 3]
MCKeyHome == ("a" :> 3) @@ ("b" :> 3) @@ ("c" :> 0) @@ ("d" :> 1)
MCEntityHome == ("a" :> 3) @@ ("b" :> 3) @@ ("c" :> 0) @@ ("k" :> 1)
MCGenesis == ("a" :> 2) @@ ("b" :> 2) @@ ("c" :> 0) @@ ("k" :> 0)
MCTxTick == ("p" :> 1) @@ ("q" :> 1) @@ ("r" :> 1) @@ ("s" :> 2) @@ ("t" :> 3)
MCHolderHome == ("zero" :> 0) @@ ("a" :> 6) @@ ("b" :> 7)

MCFirstComputors == <<"c1", "c2", "c3">>
MCSolution ==
  {[miner |-> s[1], nonce |-> s[2], seed |-> s[3], good |-> TRUE] :
     s \in {<<"c2", 1, 1>>, <<"c2", 2, 2>>, <<"d1", 1, 1>>, <<"d1", 2, 1>>}}
MCScoreSample ==
  {[c \in ComputorIndex |-> 0], [c \in ComputorIndex |-> c], [c \in ComputorIndex |-> 3 - c],
   [c \in ComputorIndex |-> (c * 3) % 4], [c \in ComputorIndex |-> IF c = 2 THEN 5 ELSE 2]}
MCDonationSample == {<< >>, <<10>>, <<30, 100>>}

\* One part steps, the others stand still.
Part(name, Next, others) == part = name /\ Next /\ UNCHANGED <<others, part>>

accountVars == <<voteVars, shareVars, feeVars, issuanceVars>>

Init ==
  /\ part \in {"collection", "hash map", "spectrum", "pool", "universe",
               "miners", "votes", "shares", "fees", "issuance"}
  /\ CollectionInit /\ HashMapInit /\ SpectrumInit /\ PoolInit /\ AssetsInit /\ MiningInit
  /\ VoteInit /\ ShareInit /\ FeeInit /\ IssuanceInit
  /\ part # "issuance" => supply = Min(FirstSupply)

Next ==
  \/ Part("collection", CollectionNext,
          <<hashMapVars, spectrumVars, poolVars, assetVars, miningVars, accountVars>>)
  \/ Part("hash map", HashMapNext,
          <<collectionVars, spectrumVars, poolVars, assetVars, miningVars, accountVars>>)
  \/ Part("spectrum", SpectrumNext,
          <<collectionVars, hashMapVars, poolVars, assetVars, miningVars, accountVars>>)
  \/ Part("pool", PoolNext,
          <<collectionVars, hashMapVars, spectrumVars, assetVars, miningVars, accountVars>>)
  \/ Part("universe", AssetsNext,
          <<collectionVars, hashMapVars, spectrumVars, poolVars, miningVars, accountVars>>)
  \/ /\ UNCHANGED <<collectionVars, hashMapVars, spectrumVars, poolVars, assetVars>>
     /\ \/ Part("miners", MiningNext, accountVars)
        \/ Part("votes", CountVotes, <<miningVars, shareVars, feeVars, issuanceVars>>)
        \/ Part("shares", ShareNext, <<miningVars, voteVars, feeVars, issuanceVars>>)
        \/ Part("fees", FeeTickStep, <<miningVars, voteVars, shareVars, issuanceVars>>)
        \/ Part("issuance", EndEpochIssuance, <<miningVars, voteVars, shareVars, feeVars>>)

Spec ==
  Init /\ [][Next]_<<collectionVars, hashMapVars, spectrumVars, poolVars, assetVars, miningVars,
                     accountVars, part>>

\* Every table is consistent in itself, beyond the types of its variables: the ends of a
\* queue are found, a key is in one slot of a map, the populations of the spectrum are those
\* of its entities and a bid is paid by its bidder (unless a reorganisation has moved it), a pooled transaction is where its priority
\* says, and the records of the universe are found and listed once.
TablesConsistent ==
  /\ part = "collection" => CollectionTypeOK /\ EndsFound
  /\ part = "hash map" => HashMapInv /\ KeysOnce
  /\ part = "spectrum" => SpectrumTypeOK /\ SpectrumInv /\ PaidUnlessMoved
  /\ part = "pool" => PoolInv /\ PoolConsistent
  /\ part = "universe" => UniverseConsistent

\* What an epoch counts, takes and issues is accounted: the best miners get the seats for good
\* solutions, deposits of own ones return and computors keep their indices, no vote or share
\* is counted twice by a computor, a fee is one that an honest computor measured, and what is
\* issued is paid.  Each with the inductive invariant that it follows from.
EpochAccounted ==
  /\ part = "miners" =>
       MiningInv /\ BestAreSeated /\ PointsAreSolutions /\ NoDepositLost /\ IndicesStable
  /\ part = "votes" => VoteInv /\ VotesCountedOnce
  /\ part = "shares" => ShareInv /\ SharesCountedOnce
  /\ part = "fees" => FeeInv /\ FeesBacked
  /\ part = "issuance" => IssuanceInv /\ IssuanceExact
===============================================================================

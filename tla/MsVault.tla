--------------------------------- MODULE MsVault ---------------------------------
(***************************************************************************)
(* Vaults that several accounts own together.  An owner asks for a release *)
(* of money or of shares; it happens with the request that makes enough    *)
(* owners ask for the same.  Shareholders of the contract vote on its fees.*)
(***************************************************************************)
EXTENDS Qpi

CONSTANTS
  Vault,                   \* the slots for vaults
  VaultAmounts,            \* amounts of deposits and releases
  VaultAsset, AssetTypes,  \* the assets, and how many a vault may hold
  MaxCoOwned,              \* MSVAULT_MAX_COOWNER
  VaultFees,               \* the fees voted for: [register, release, reset, holding, deposit]
  FirstFees,               \* the fees at the construction
  RevokeFee, VoteFee,
  VaultShares, VaultQuorum, \* the shares of the contract of each account; QUORUM
  MaxManaged               \* bound: the shares of an asset that the contract manages

ASSUME MsVaultAssumption ==
  /\ FirstFees \in VaultFees
  /\ {AssetTypes, MaxCoOwned, RevokeFee, VoteFee, VaultQuorum, MaxManaged} \subseteq Nat
  /\ VaultAmounts \subseteq Nat \ {0}
  /\ VaultShares \in [Account -> Nat]

VARIABLES
  vault,        \* slot -> [owners, required, money, asked], or Closed
  vaultAssets,  \* slot -> [held: asset -> number, asked]
  managed,      \* asset -> account or "self" -> shares managed by the contract
  vaultFees,    \* the live fees
  feeVotes,     \* sequence of [voter, fees]
  revenue       \* totalRevenue - totalDistributedToShareholders

vaultVars == <<vault, vaultAssets, managed, vaultFees, feeVotes, revenue>>

Closed   == [owners |-> {}, required |-> 0, money |-> 0, asked |-> << >>]
NoAssets == [held |-> << >>, asked |-> << >>]

\* Requests are a function from the owners that have one.
Without(f, S) == [x \in DOMAIN f \ S |-> f[x]]
With(f, x, y) == [z \in DOMAIN f \cup {x} |-> IF z = x THEN y ELSE f[z]]

Supporters(asked, r) == {o \in DOMAIN asked : asked[o] = r}

Active(v) == vault[v] # Closed

Earn(n) ==
  /\ revenue' = revenue + n
  /\ revenue' <= MaxFunds

FeesFixed == UNCHANGED <<vaultFees, feeVotes>>

(***************************************************************************)
(* Procedures                                                              *)
(***************************************************************************)

RegisterVault ==
  \E owners \in SUBSET Account, required \in 2 .. Cardinality(Account) :
    /\ Cardinality(owners) > 1 /\ required <= Cardinality(owners)
    /\ \A o \in owners : Cardinality({v \in Vault : o \in vault[v].owners}) < MaxCoOwned
    /\ \E v \in Vault :
         /\ ~Active(v) /\ \A w \in Vault : w < v => Active(w)
         /\ vault' = [vault EXCEPT ![v] =
              [owners |-> owners, required |-> required, money |-> 0, asked |-> << >>]]
         /\ vaultAssets' = [vaultAssets EXCEPT ![v] = NoAssets]
    /\ funds' = funds + vaultFees.register /\ Bounded
    /\ Earn(vaultFees.register)
    /\ UNCHANGED managed /\ FeesFixed

Deposit ==
  \E v \in Vault, n \in VaultAmounts :
    /\ Active(v) /\ vault[v].money + n <= MaxFunds
    /\ vault' = [vault EXCEPT ![v].money = @ + n]
    /\ funds' = funds + n + vaultFees.deposit /\ Bounded
    /\ Earn(vaultFees.deposit)
    /\ UNCHANGED <<vaultAssets, managed>> /\ FeesFixed

\* PRE_ACQUIRE_SHARES accepts the management of any shares.
VaultAcquiresShares ==
  \E x \in VaultAsset, a \in Account :
    /\ SumOf(Account \cup {"self"}, LAMBDA b : managed[x][b]) < MaxManaged
    /\ managed' = [managed EXCEPT ![x][a] = @ + 1]
    /\ UNCHANGED <<funds, vault, vaultAssets, revenue>> /\ FeesFixed

\* What is paid for the release of the rights goes to the contract that takes them.
RevokeAssetManagementRights ==
  \E x \in VaultAsset, a \in Account :
    /\ managed[x][a] > 0
    /\ managed' = [managed EXCEPT ![x][a] = @ - 1]
    /\ UNCHANGED <<funds, vault, vaultAssets, revenue>> /\ FeesFixed

DepositAsset ==
  \E v \in Vault, x \in VaultAsset, a \in Account, n \in VaultAmounts :
    LET held == vaultAssets[v].held IN
    /\ Active(v) /\ managed[x][a] >= n
    /\ x \in DOMAIN held \/ Cardinality(DOMAIN held) < AssetTypes
    /\ managed' = [managed EXCEPT ![x] = [@ EXCEPT ![a] = @ - n, !["self"] = @ + n]]
    /\ vaultAssets' = [vaultAssets EXCEPT ![v].held =
                         With(held, x, n + IF x \in DOMAIN held THEN held[x] ELSE 0)]
    /\ funds' = funds + vaultFees.deposit /\ Bounded
    /\ Earn(vaultFees.deposit)
    /\ UNCHANGED vault /\ FeesFixed

\* Mutant: the requests that approved a release stay.
ReleaseToKeepingRequests ==
  \E v \in Vault, o \in Account, n \in VaultAmounts, to \in Account :
    LET r == [amount |-> n, to |-> to]
        asked == With(vault[v].asked, o, r)
        approved == Cardinality(Supporters(asked, r)) >= vault[v].required
        paid == funds + vaultFees.release
    IN
    /\ o \in vault[v].owners /\ vault[v].money >= n
    /\ vault' = [vault EXCEPT ![v].asked = asked, ![v].money = IF approved THEN @ - n ELSE @]
    /\ funds' = IF approved THEN Paid(paid, n) ELSE paid
    /\ Bounded
    /\ Earn(vaultFees.release)
    /\ UNCHANGED <<vaultAssets, managed>> /\ FeesFixed

\* An owner asks that n go to an account.  A release clears all requests of the vault.
ReleaseTo ==
  \E v \in Vault, o \in Account, n \in VaultAmounts, to \in Account :
    LET r == [amount |-> n, to |-> to]
        asked == With(vault[v].asked, o, r)
        approved == Cardinality(Supporters(asked, r)) >= vault[v].required
        paid == funds + vaultFees.release
    IN
    /\ o \in vault[v].owners /\ vault[v].money >= n
    /\ vault' = [vault EXCEPT ![v] = IF approved THEN [@ EXCEPT !.asked = << >>, !.money = @ - n]
                                     ELSE [@ EXCEPT !.asked = asked]]
    /\ funds' = IF approved THEN Paid(paid, n) ELSE paid
    /\ Bounded
    /\ Earn(vaultFees.release)
    /\ UNCHANGED <<vaultAssets, managed>> /\ FeesFixed

\* The shares go to the account first; then the contract gives up their management, for a fee
\* of its balance that the vault bears only when that succeeds.
ReleaseAssetTo ==
  \E v \in Vault, o \in Account, x \in VaultAsset, n \in VaultAmounts, to \in Account :
    LET r == [asset |-> x, amount |-> n, to |-> to]
        asked == With(vaultAssets[v].asked, o, r)
        approved == Cardinality(Supporters(asked, r)) >= vault[v].required
        paid == funds + vaultFees.release
        released == CanPay(paid, RevokeFee)
        arrived == [managed EXCEPT ![x] = [@ EXCEPT !["self"] = @ - n, ![to] = @ + n]]
    IN
    /\ o \in vault[v].owners /\ vault[v].money >= RevokeFee
    /\ x \in DOMAIN vaultAssets[v].held /\ vaultAssets[v].held[x] >= n
    /\ IF ~approved
       THEN /\ vaultAssets' = [vaultAssets EXCEPT ![v].asked = asked]
            /\ funds' = paid
            /\ UNCHANGED <<vault, managed>>
       ELSE /\ vaultAssets' = [vaultAssets EXCEPT ![v].asked = << >>, ![v].held[x] = @ - n]
            /\ funds' = Paid(paid, RevokeFee)
            /\ vault' = IF released THEN [vault EXCEPT ![v].money = @ - RevokeFee] ELSE vault
            /\ managed' = IF released THEN [arrived EXCEPT ![x][to] = @ - n] ELSE arrived
    /\ Bounded
    /\ Earn(vaultFees.release)
    /\ FeesFixed

ResetRelease ==
  \E v \in Vault, o \in Account :
    /\ o \in vault[v].owners
    /\ \/ /\ vault' = [vault EXCEPT ![v].asked = Without(@, {o})]
          /\ UNCHANGED vaultAssets
       \/ /\ vaultAssets' = [vaultAssets EXCEPT ![v].asked = Without(@, {o})]
          /\ UNCHANGED vault
    /\ funds' = funds + vaultFees.reset /\ Bounded
    /\ Earn(vaultFees.reset)
    /\ UNCHANGED managed /\ FeesFixed

\* A release or a reset with wrong inputs, by any account: its fee has been counted as revenue
\* and what was paid beyond it (r - fee) sent back, and then all of r is sent back.
Refused ==
  \E fee \in {vaultFees.release, vaultFees.reset}, more \in {0, 1} :
    /\ funds' = Paid(Paid(funds + fee + more, more), fee + more)
    /\ Bounded
    /\ Earn(fee)
    /\ UNCHANGED <<vault, vaultAssets, managed>> /\ FeesFixed

\* The fees with a quorum of shares come into force, and a new vote begins.
VoteFeeChange ==
  \E a \in Account, f \in VaultFees :
    IF VaultShares[a] = 0
    THEN /\ funds' = funds + VoteFee /\ Bounded
         /\ UNCHANGED vaultVars
    ELSE
    LET others == SelectInSeq(feeVotes, LAMBDA v : v.voter = a)
        votes == IF others = 0 THEN Append(feeVotes, [voter |-> a, fees |-> f])
                 ELSE [feeVotes EXCEPT ![others].fees = f]
        rank(g) == SumOf({i \in DOMAIN votes : votes[i].fees = g}, LAMBDA i : VaultShares[votes[i].voter])
        winners == {g \in VaultFees : rank(g) >= VaultQuorum}
        first(g) == Min({i \in DOMAIN votes : votes[i].fees = g})
    IN
    /\ IF winners = {} THEN feeVotes' = votes /\ UNCHANGED vaultFees
       ELSE /\ feeVotes' = << >>
            /\ vaultFees' = CHOOSE g \in winners : \A h \in winners : first(g) <= first(h)
    /\ UNCHANGED <<funds, vault, vaultAssets, managed, revenue>>

\* A vault that cannot pay for its keeping is closed; shares it held stay with the contract.
VaultEndEpoch ==
  LET fee == vaultFees.holding
      short == {v \in Vault : Active(v) /\ vault[v].money < fee}
      charged(v) == IF ~Active(v) THEN 0 ELSE Least(vault[v].money, fee)
      total == revenue + SumOf(Vault, charged)
      perShare == total \div Computors
      distributed == perShare > 0 /\ CanPay(funds, perShare * Computors)
  IN
  /\ vault' = [v \in Vault |-> IF v \in short THEN Closed
                               ELSE [vault[v] EXCEPT !.money = @ - charged(v)]]
  /\ vaultAssets' = [v \in Vault |-> IF v \in short THEN NoAssets ELSE vaultAssets[v]]
  /\ funds' = Distributed(funds, perShare)
  /\ revenue' = IF distributed THEN total - perShare * Computors ELSE total
  /\ revenue' <= MaxFunds
  /\ UNCHANGED managed /\ FeesFixed

VaultInit ==
  /\ funds = 0
  /\ vault = [v \in Vault |-> Closed]
  /\ vaultAssets = [v \in Vault |-> NoAssets]
  /\ managed = [x \in VaultAsset |-> [a \in Account \cup {"self"} |-> 0]]
  /\ vaultFees = FirstFees /\ feeVotes = << >> /\ revenue = 0

VaultNext ==
  \/ RegisterVault \/ Deposit \/ VaultAcquiresShares \/ RevokeAssetManagementRights
  \/ DepositAsset \/ ReleaseTo \/ ReleaseAssetTo \/ ResetRelease \/ Refused
  \/ VoteFeeChange \/ VaultEndEpoch

VaultSpec == VaultInit /\ [][VaultNext]_<<funds, vaultVars>>

(***************************************************************************)
(* Properties                                                              *)
(***************************************************************************)

\* A request that waits is one of a present owner, and never has enough supporters: what was
\* approved once is not paid again, and a vault in a slot used before starts without requests.
RequestsPending ==
  \A v \in Vault :
    LET pending(asked) ==
          /\ DOMAIN asked \subseteq vault[v].owners
          /\ \A o \in DOMAIN asked : Cardinality(Supporters(asked, asked[o])) < vault[v].required
    IN pending(vault[v].asked) /\ pending(vaultAssets[v].asked)

\* The shares of the contract itself cover what the vaults hold.
VaultSharesCovered ==
  \A x \in VaultAsset :
    managed[x]["self"] >= SumOf({v \in Vault : x \in DOMAIN vaultAssets[v].held},
                                LAMBDA v : vaultAssets[v].held[x])
===============================================================================

--------------------------------- MODULE Assets ---------------------------------
(***************************************************************************)
(* The universe: one hash table with three kinds of records.  A possession *)
(* names the slot of its ownership and an ownership that of its issuance;  *)
(* linked lists over the same slots give all issuances, the ownerships of  *)
(* each issuance and the possessions of each ownership.  A record without  *)
(* shares stays until the end of the epoch, when the table is built again. *)
(*                                                                         *)
(* Management rights change in steps: the contract finds the record, asks  *)
(* the other contract in a callback, which may itself change the universe, *)
(* pays, and then uses the slots it found.                                 *)
(***************************************************************************)
EXTENDS Integers, FiniteSetsExt

CONSTANTS
  Holder,          \* public keys
  ZeroKey,         \* the key of all zeros, which issues the shares of contracts
  AssetName,
  ContractName,    \* the name of the asset of a contract
  ManagingContract, Qx,
  AssetsCapacity,  \* ASSETS_CAPACITY
  HolderHome,      \* the slot where the search for a key begins
  MaxShares,       \* bound: the shares of an issuance
  ContractShares   \* NUMBER_OF_COMPUTORS, the shares of a contract

ASSUME AssetsAssumption ==
  /\ AssetsCapacity \in Nat \ {0, 1} /\ MaxShares \in Nat /\ ContractShares \in Nat \ {0}
  /\ HolderHome \in [Holder -> 0 .. AssetsCapacity - 1]
  /\ ZeroKey \in Holder /\ ContractName \in AssetName /\ Qx \in ManagingContract

VARIABLES
  universe,  \* the table and its lists
  rights     \* the transfer of management rights that is under way

assetVars == <<universe, rights>>

UniverseSlot == 0 .. AssetsCapacity - 1
NoIndex == AssetsCapacity  \* NO_ASSET_INDEX

EmptyRecord == [type |-> "empty"]
Issuance(key, name) == [type |-> "issuance", key |-> key, name |-> name]
Ownership(key, manager, link, shares) ==
  [type |-> "ownership", key |-> key, manager |-> manager, link |-> link, shares |-> shares]
Possession(key, manager, link, shares) ==
  [type |-> "possession", key |-> key, manager |-> manager, link |-> link, shares |-> shares]

EmptyLists ==
  [firstIssuance |-> NoIndex,
   first |-> [i \in UniverseSlot |-> NoIndex],  \* ownershipsPossessionsFirstIdx
   next  |-> [i \in UniverseSlot |-> NoIndex]]  \* nextIdx

\* The first slot from i on that is empty or holds a record that matches.
FirstFrom(table, i, Matches(_)) ==
  LET at(n) == (i + n) % AssetsCapacity
  IN at(Min({n \in UniverseSlot : table[at(n)].type = "empty" \/ Matches(table[at(n)])}))

IsIssuance(r, key, name) == r.type = "issuance" /\ r.key = key /\ r.name = name
IsRecord(r, type, key, manager, link) ==
  r.type = type /\ r.key = key /\ r.manager = manager /\ r.link = link

IssuanceSlot(table, key, name) ==
  FirstFrom(table, HolderHome[key], LAMBDA r : IsIssuance(r, key, name))

RecordSlot(table, type, key, manager, link) ==
  FirstFrom(table, HolderHome[key], LAMBDA r : IsRecord(r, type, key, manager, link))

IsEmpty(table, i) == table[i].type = "empty"

(***************************************************************************)
(* The lists (AssetStorage::IndexLists)                                    *)
(***************************************************************************)

AddIssuance(l, i) ==
  [l EXCEPT !.next[i] = l.firstIssuance, !.firstIssuance = i]

\* addOwnership and addPossession
AddChild(l, parent, i) ==
  [l EXCEPT !.next[i] = l.first[parent], !.first[parent] = i]

\* rebuild: from the last slot to the first.
Rebuilt(table) ==
  LET lists[n \in 0 .. AssetsCapacity] ==
        IF n = 0 THEN EmptyLists
        ELSE LET i == AssetsCapacity - n r == table[i] l == lists[n - 1] IN
             CASE r.type = "issuance" -> AddIssuance(l, i)
               [] r.type \in {"ownership", "possession"} -> AddChild(l, r.link, i)
               [] OTHER -> l
  IN lists[AssetsCapacity]

(***************************************************************************)
(* Changes of the universe                                                 *)
(***************************************************************************)

\* A new record, with its list, or more shares in the one that is there.
Added(u, i, record) ==
  IF IsEmpty(u.table, i)
  THEN [table |-> [u.table EXCEPT ![i] = record],
        lists |-> AddChild(u.lists, record.link, i)]
  ELSE [u EXCEPT !.table[i].shares = @ + record.shares]

Taken(u, i, n) == [u EXCEPT !.table[i].shares = @ - n]

\* issueAsset, when the asset is not issued: the slots follow each other.
Issued(u, key, name, n, manager) ==
  LET never(r) == FALSE
      i  == IssuanceSlot(u.table, key, name)
      t1 == [u.table EXCEPT ![i] = Issuance(key, name)]
      o  == FirstFrom(t1, i + 1, never)
      t2 == [t1 EXCEPT ![o] = Ownership(key, manager, i, n)]
      p  == FirstFrom(t2, o + 1, never)
  IN [table |-> [t2 EXCEPT ![p] = Possession(key, manager, o, n)],
      lists |-> AddChild(AddChild(AddIssuance(u.lists, i), i, o), o, p)]

\* n shares from the records own and pos to those of (key, managers).
Moved(u, own, pos, ownerKey, ownerManager, possessorKey, possessorManager, n) ==
  LET iss == u.table[own].link
      u1  == Taken(u, own, n)
      o   == RecordSlot(u1.table, "ownership", ownerKey, ownerManager, iss)
      u2  == Added(u1, o, Ownership(ownerKey, ownerManager, iss, n))
      p   == RecordSlot(u2.table, "possession", possessorKey, possessorManager, o)
      u3  == Taken(u2, pos, n)
  IN Added(u3, p, Possession(possessorKey, possessorManager, o, n))

\* The checks of both transfers: the slots still hold what the caller takes them for.
MayMove(u, own, pos, n) ==
  /\ u.table[own].type = "ownership" /\ u.table[own].shares >= n
  /\ u.table[pos].type = "possession" /\ u.table[pos].shares >= n
  /\ u.table[pos].link = own

\* transferShareOwnershipAndPossession to another holder.
GivenTo(u, own, pos, key, n) ==
  Moved(u, own, pos, key, u.table[own].manager, key, u.table[pos].manager, n)

\* transferShareManagementRights
ManagedBy(u, own, pos, manager, n) ==
  Moved(u, own, pos, u.table[own].key, manager, u.table[pos].key, manager, n)

\* Bound: a search for a record that is not there ends at an empty slot only, so at least
\* one is left after k new records.
HasRoom(k) == Cardinality({i \in UniverseSlot : IsEmpty(universe.table, i)}) > k

(***************************************************************************)
(* Operations of contracts.  c is the contract that runs.                  *)
(***************************************************************************)

NotIssued(key, name) ==
  IsEmpty(universe.table, IssuanceSlot(universe.table, key, name))

\* qpi.issueAsset: the contract or its invocator issues, never the key of all zeros.
IssueAsset ==
  \E c \in ManagingContract, key \in Holder \ {ZeroKey}, name \in AssetName,
     n \in 1 .. MaxShares :
    /\ name # ContractName
    /\ HasRoom(3)
    /\ NotIssued(key, name)
    /\ universe' = Issued(universe, key, name, n, c)
    /\ UNCHANGED rights

Issuances == {i \in UniverseSlot : universe.table[i].type = "issuance"}

\* The slots of what holder has of an issuance under contract c, or empty ones.
OwnershipIndex(iss, holder, c) == RecordSlot(universe.table, "ownership", holder, c, iss)
PossessionIndex(own, holder, c) == RecordSlot(universe.table, "possession", holder, c, own)

\* qpi.transferShareOwnershipAndPossession; the key of all zeros burns.
TransferShares ==
  \E iss \in Issuances, c \in ManagingContract, from \in Holder \ {ZeroKey}, n \in 1 .. MaxShares :
    LET own == OwnershipIndex(iss, from, c)
        pos == PossessionIndex(own, from, c)
    IN
    /\ HasRoom(2)
    /\ MayMove(universe, own, pos, n)
    /\ \/ \E to \in Holder \ {ZeroKey} : universe' = GivenTo(universe, own, pos, to, n)
       \/ /\ universe.table[iss].key # ZeroKey
          /\ universe' = Taken(Taken(universe, own, n), pos, n)
    /\ UNCHANGED rights

NoTransfer == [step |-> "none"]

\* qpi.acquireShares and qpi.releaseShares up to the callback PRE_RELEASE_SHARES or
\* PRE_ACQUIRE_SHARES of the other contract.
StartRightsTransfer ==
  \E iss \in Issuances, holder \in Holder, c, d \in ManagingContract, n \in 1 .. MaxShares :
    LET own == OwnershipIndex(iss, holder, c)
        pos == PossessionIndex(own, holder, c)
    IN
    /\ rights = NoTransfer
    /\ c # d
    /\ ~IsEmpty(universe.table, own) /\ ~IsEmpty(universe.table, pos)
    /\ universe.table[pos].shares >= n
    /\ rights' = [step |-> "asked", own |-> own, pos |-> pos, to |-> d, shares |-> n]
    /\ UNCHANGED universe

\* The other contract refuses, or asks for more than was offered.
RefuseRights ==
  /\ rights.step = "asked"
  /\ rights' = NoTransfer
  /\ UNCHANGED universe

\* Mutant: the records that were found before the callback are used as they are.
FinishRightsTransferUnchecked ==
  /\ rights.step = "asked"
  /\ HasRoom(2)
  /\ rights' = NoTransfer
  /\ universe' = ManagedBy(universe, rights.own, rights.pos, rights.to, rights.shares)

\* The fee is paid; the rights follow unless the records have changed meanwhile.
FinishRightsTransfer ==
  /\ rights.step = "asked"
  /\ HasRoom(2)
  /\ rights' = NoTransfer
  /\ universe' =
       IF MayMove(universe, rights.own, rights.pos, rights.shares)
       THEN ManagedBy(universe, rights.own, rights.pos, rights.to, rights.shares)
       ELSE universe

(***************************************************************************)
(* Operations of the node                                                  *)
(***************************************************************************)

\* finishIPOs: the shares of the contract are issued to the key of all zeros and go to the
\* bidders one by one.
AllotContractShares ==
  \E bidder \in [1 .. ContractShares -> Holder \ {ZeroKey}] :
    LET after[n \in 0 .. ContractShares] ==
          IF n = 0 THEN Issued(universe, ZeroKey, ContractName, ContractShares, Qx)
          ELSE LET u == after[n - 1]
                   iss == IssuanceSlot(u.table, ZeroKey, ContractName)
                   own == RecordSlot(u.table, "ownership", ZeroKey, Qx, iss)
                   pos == RecordSlot(u.table, "possession", ZeroKey, Qx, own)
               IN GivenTo(u, own, pos, bidder[n], 1)
    IN
    /\ rights = NoTransfer
    /\ HasRoom(3 + 2 * ContractShares)
    /\ NotIssued(ZeroKey, ContractName)
    /\ universe' = after[ContractShares]
    /\ UNCHANGED rights

\* assetsEndEpoch: the possessions that have shares are inserted again, by old slot, each
\* with its ownership and its issuance.
Reorganised(t) ==
  LET insert[n \in 0 .. AssetsCapacity] ==
        IF n = 0 THEN [i \in UniverseSlot |-> EmptyRecord]
        ELSE
        LET new == insert[n - 1] r == t[n - 1] IN
        IF r.type # "possession" \/ r.shares = 0 THEN new
        ELSE
        LET own == t[r.link] iss == t[own.link]
            i  == IssuanceSlot(new, iss.key, iss.name)
            t1 == [new EXCEPT ![i] = iss]
            o  == RecordSlot(t1, "ownership", own.key, own.manager, i)
            t2 == IF IsEmpty(t1, o)
                  THEN [t1 EXCEPT ![o] = Ownership(own.key, own.manager, i, r.shares)]
                  ELSE [t1 EXCEPT ![o].shares = @ + r.shares]
            p  == RecordSlot(t2, "possession", r.key, r.manager, o)
        IN IF IsEmpty(t2, p)
           THEN [t2 EXCEPT ![p] = Possession(r.key, r.manager, o, r.shares)]
           ELSE [t2 EXCEPT ![p].shares = @ + r.shares]
  IN insert[AssetsCapacity]

AssetsEndEpoch ==
  LET t == Reorganised(universe.table) IN
  /\ rights = NoTransfer
  /\ universe' = [table |-> t, lists |-> Rebuilt(t)]
  /\ UNCHANGED rights

\* loadUniverse, of what saveUniverse saved.
LoadUniverse ==
  /\ rights = NoTransfer
  /\ universe' = [universe EXCEPT !.lists = Rebuilt(universe.table)]
  /\ UNCHANGED rights

AssetsInit ==
  /\ universe = [table |-> [i \in UniverseSlot |-> EmptyRecord], lists |-> EmptyLists]
  /\ rights = NoTransfer

AssetsNext ==
  \/ IssueAsset \/ TransferShares
  \/ StartRightsTransfer \/ RefuseRights \/ FinishRightsTransfer
  \/ AllotContractShares \/ AssetsEndEpoch \/ LoadUniverse

AssetsSpec == AssetsInit /\ [][AssetsNext]_assetVars

(***************************************************************************)
(* Properties                                                              *)
(***************************************************************************)

Asset == ((Holder \ {ZeroKey}) \X (AssetName \ {ContractName})) \cup {<<ZeroKey, ContractName>>}

IssuedAssets ==
  {a \in Asset : \E i \in UniverseSlot : IsIssuance(universe.table[i], a[1], a[2])}

\* What the records hold, however a holder's shares are spread over them.
SharesIn(t, a, h, m) ==
  LET iss(r) == t[t[r.link].link]
      mine == {i \in UniverseSlot : /\ t[i].type = "possession" /\ t[i].key = h /\ t[i].manager = m
                            /\ IsIssuance(iss(t[i]), a[1], a[2])}
  IN MapThenSumSet(LAMBDA i : t[i].shares, mine)

Shares ==
  LET t == universe.table IN
  [q \in Asset \X Holder \X ManagingContract |-> SharesIn(t, q[1], q[2], q[3])]

Register == INSTANCE ShareRegister WITH
  Share <- Asset, ContractShare <- {<<ZeroKey, ContractName>>},
  ShareHolder <- Holder, Manager <- ManagingContract, issued <- IssuedAssets, shares <- Shares

\* No transfer, change of manager or end of an epoch makes or loses a share, the shares of
\* a contract are never burned, and what a callback did meanwhile does not count twice.
ImplementsRegister == [][UNCHANGED assetVars \/ Register!RegisterNext]_<<IssuedAssets, Shares>>

\* The slots of the list that begins at i.
Listed(i) ==
  LET l == universe.lists
      walk[n \in 0 .. AssetsCapacity] ==
        IF n = 0 THEN {i}
        ELSE walk[n - 1] \cup {l.next[j] : j \in walk[n - 1] \ {NoIndex}}
  IN walk[AssetsCapacity] \ {NoIndex}

\* What the iterators and numberOfShares rely on: the lists hold exactly the records of the
\* table, a search for each record finds its own slot (so no record is there twice), and an
\* ownership has as many shares as its possessions together.
UniverseConsistent ==
  LET t == universe.table IN
  /\ Listed(universe.lists.firstIssuance) = {i \in UniverseSlot : t[i].type = "issuance"}
  /\ \A i \in UniverseSlot :
       CASE t[i].type = "empty" -> TRUE
         [] t[i].type = "issuance" ->
              /\ IssuanceSlot(t, t[i].key, t[i].name) = i
              /\ Listed(universe.lists.first[i]) =
                   {j \in UniverseSlot : t[j].type = "ownership" /\ t[j].link = i}
         [] t[i].type = "ownership" ->
              /\ RecordSlot(t, "ownership", t[i].key, t[i].manager, t[i].link) = i
              /\ LET held == {j \in UniverseSlot : t[j].type = "possession" /\ t[j].link = i} IN
                 /\ Listed(universe.lists.first[i]) = held
                 /\ t[i].shares = MapThenSumSet(LAMBDA j : t[j].shares, held)
         [] OTHER -> RecordSlot(t, "possession", t[i].key, t[i].manager, t[i].link) = i
===============================================================================

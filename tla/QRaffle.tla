--------------------------------- MODULE QRaffle ---------------------------------
(***************************************************************************)
(* The contract QRaffle: members register with qus or shares of the asset  *)
(* QXMR, propose the entry amount of the next epoch and raffles of other   *)
(* assets, and vote on them; raffles are drawn at the end of the epoch.    *)
(***************************************************************************)
EXTENDS Qpi

CONSTANTS
  Founders,        \* initialRegister1 .. 5
  MaxRaffleMembers, MaxRaffleProposals,
  RegisterAmount, LogoutFee,   \* in qus, and in shares of QXMR
  ShareFee,        \* QRAFFLE_TRANSFER_SHARE_FEE
  RaffleParts,     \* [burn, charity, holders, registers, fee] -> percent of what was entered
  DefaultEntry, EntryAmounts, TokenEntries,   \* inputs
  MaxTokenEntries, MaxQxmr, LastRaffleEpoch   \* bounds

ASSUME QRaffleAssumption ==
  /\ {MaxRaffleMembers, MaxRaffleProposals, RegisterAmount, LogoutFee, ShareFee} \subseteq Nat
  /\ LogoutFee <= RegisterAmount /\ Founders # {}
  /\ EntryAmounts \cup TokenEntries \cup {DefaultEntry} \subseteq Nat \ {0}

VARIABLES
  registers,       \* who -> "no", or how the member registered: "initial", "qu" or "qxmr"
  registerCount,   \* numberOfRegisters
  entryWishes,     \* quRaffleEntryAmount: who -> amount, 0 for none
  entryCount,      \* numberOfEntryAmountSubmitted
  tokenProposals,  \* proposals, each [entry, yes, no, votes: who -> "none", "yes" or "no"]
  quEntrants, quEntry,         \* quRaffleMembers, qREAmount
  tokenRaffles,    \* activeTokenRaffle, each [entry, entered]
  raffleRevenue, qxmrRevenue,  \* epochRevenue, epochQXMRRevenue
  qxmrHeld, tokensHeld,        \* the contract's shares
  raffleEpoch

raffleOwn == <<registers, registerCount, entryWishes, entryCount, tokenProposals, quEntrants, quEntry,
               tokenRaffles, raffleRevenue, qxmrRevenue, qxmrHeld, tokensHeld, raffleEpoch>>
memberVars == <<registers, registerCount, raffleRevenue, qxmrRevenue, qxmrHeld>>
wishVars   == <<entryWishes, entryCount, tokenProposals>>
drawVars   == <<quEntrants, quEntry, tokenRaffles, tokensHeld, raffleEpoch>>

RaffleUser == Account \cup Founders
Registered == {who \in RaffleUser : registers[who] # "no"}
By(how)    == {who \in RaffleUser : registers[who] = how}

(***************************************************************************)
(* Members                                                                 *)
(***************************************************************************)

RegisterInSystem(who, how) ==
  /\ who \notin Registered /\ registerCount < MaxRaffleMembers
  /\ registers' = [registers EXCEPT ![who] = how] /\ registerCount' = registerCount + 1
  /\ \/ how = "qu" /\ funds' = funds + RegisterAmount /\ UNCHANGED qxmrHeld
     \/ how = "qxmr" /\ qxmrHeld < MaxQxmr /\ qxmrHeld' = qxmrHeld + RegisterAmount /\ UNCHANGED funds
  /\ UNCHANGED <<raffleRevenue, qxmrRevenue, wishVars, drawVars>>

\* Shares that the contract does not have any more make the call fail.
LogoutInSystem(who) ==
  LET refund == RegisterAmount - LogoutFee IN
  /\ who \in Registered \ Founders
  /\ registers' = [registers EXCEPT ![who] = "no"] /\ registerCount' = registerCount - 1
  /\ \/ /\ registers[who] = "qu"
        /\ funds' = Paid(funds, refund) /\ raffleRevenue' = raffleRevenue + LogoutFee
        /\ UNCHANGED <<qxmrHeld, qxmrRevenue>>
     \/ /\ registers[who] = "qxmr" /\ qxmrHeld >= refund
        /\ qxmrHeld' = qxmrHeld - refund /\ qxmrRevenue' = qxmrRevenue + LogoutFee
        /\ UNCHANGED <<funds, raffleRevenue>>
  /\ UNCHANGED <<wishVars, drawVars>>

SubmitEntryAmount(who, amount) ==
  /\ who \in Registered
  /\ entryCount' = IF entryWishes[who] = 0 THEN entryCount + 1 ELSE entryCount
  /\ entryWishes' = [entryWishes EXCEPT ![who] = amount]
  /\ UNCHANGED <<funds, tokenProposals, memberVars, drawVars>>

SubmitRaffleProposal(who, entry) ==
  /\ who \in Registered /\ Len(tokenProposals) < MaxRaffleProposals
  /\ tokenProposals' = Append(tokenProposals,
       [entry |-> entry, yes |-> 0, no |-> 0, votes |-> [u \in RaffleUser |-> "none"]])
  /\ UNCHANGED <<funds, entryWishes, entryCount, memberVars, drawVars>>

\* A member that votes again changes sides; the same vote again is refused.
Tally(p, before, vote) ==
  LET moved == IF before = "none" THEN 0 ELSE 1 IN
  IF vote = "yes" THEN [p EXCEPT !.yes = @ + 1, !.no = @ - moved]
  ELSE [p EXCEPT !.no = @ + 1, !.yes = @ - moved]

VoteInProposal(who, i, vote) ==
  LET before == tokenProposals[i].votes[who] IN
  /\ who \in Registered /\ before # vote
  /\ tokenProposals' = [tokenProposals EXCEPT ![i] = [Tally(@, before, vote) EXCEPT !.votes[who] = vote]]
  /\ UNCHANGED <<funds, entryWishes, entryCount, memberVars, drawVars>>

(***************************************************************************)
(* Raffles                                                                 *)
(***************************************************************************)

DepositInQuRaffle(who) ==
  /\ Cardinality(quEntrants) < MaxRaffleMembers /\ who \notin quEntrants
  /\ quEntrants' = quEntrants \cup {who} /\ funds' = funds + quEntry
  /\ UNCHANGED <<memberVars, wishVars, quEntry, tokenRaffles, tokensHeld, raffleEpoch>>

\* One may enter more than once.
DepositInTokenRaffle(i) ==
  /\ tokenRaffles[i].entered < MaxTokenEntries
  /\ tokenRaffles' = [tokenRaffles EXCEPT ![i].entered = @ + 1]
  /\ tokensHeld' = tokensHeld + tokenRaffles[i].entry /\ funds' = funds + ShareFee
  /\ UNCHANGED <<memberVars, wishVars, quEntrants, quEntry, raffleEpoch>>

Part(pot, k) == (pot * RaffleParts[k]) \div 100
\* What the shareholders and the registered members get altogether, in equal parts.
Shareholders(pot) == (Part(pot, "holders") \div Computors) * Computors
Members(pot)      == (Part(pot, "registers") \div registerCount) * registerCount

\* The winner gets what the others leave; each is paid in turn.
Drawn(balance, pot) ==
  LET winner == pot - Part(pot, "burn") - Part(pot, "charity") - Shareholders(pot) - Members(pot) - Part(pot, "fee")
  IN PaidInTurn(balance, <<winner, Part(pot, "burn"), Part(pot, "charity"), Shareholders(pot), Part(pot, "fee")>>
                         \o [n \in 1 .. Cardinality(Registered) |-> Part(pot, "registers") \div registerCount])

\* END_EPOCH.  The revenue of QXMR is given to the shareholders only when somebody has entered.
RaffleEndEpoch ==
  LET each == raffleRevenue \div Computors
      afterRevenue == Distributed(funds, each)
      qxmrEach == IF quEntrants = {} THEN 0 ELSE qxmrRevenue \div Computors
      supported == SelectSeq(tokenProposals, LAMBDA p : p.yes > p.no)
  IN /\ raffleEpoch < LastRaffleEpoch /\ raffleEpoch' = raffleEpoch + 1
     /\ raffleRevenue' = raffleRevenue - each * Computors
     /\ funds' = IF quEntrants = {} THEN afterRevenue
                 ELSE Drawn(afterRevenue, quEntry * Cardinality(quEntrants))
     /\ qxmrHeld' = Paid(qxmrHeld, qxmrEach * Computors)
     /\ qxmrRevenue' = qxmrRevenue - qxmrEach * Computors
     /\ tokensHeld' = FoldLeft(LAMBDA held, r : IF r.entered = 0 THEN held ELSE Drawn(held, r.entry * r.entered),
                               tokensHeld, tokenRaffles)
     /\ quEntry' = IF entryCount = 0 THEN DefaultEntry
                   ELSE SumOf(RaffleUser, LAMBDA u : entryWishes[u]) \div entryCount
     /\ tokenRaffles' = [i \in DOMAIN supported |-> [entry |-> supported[i].entry, entered |-> 0]]
     /\ tokenProposals' = <<>> /\ quEntrants' = {}
     /\ entryWishes' = [u \in RaffleUser |-> 0] /\ entryCount' = 0
     /\ UNCHANGED <<registers, registerCount>>

RaffleInit ==
  /\ registers = [u \in RaffleUser |-> IF u \in Founders THEN "initial" ELSE "no"]
  /\ registerCount = Cardinality(Founders)
  /\ entryWishes = [u \in RaffleUser |-> 0] /\ entryCount = 0 /\ tokenProposals = <<>>
  /\ quEntrants = {} /\ quEntry = DefaultEntry /\ tokenRaffles = <<>>
  /\ raffleRevenue = 0 /\ qxmrRevenue = 0 /\ qxmrHeld = 0 /\ tokensHeld = 0 /\ raffleEpoch = 0

RaffleNext ==
  \/ \E who \in RaffleUser :
       \/ \E how \in {"qu", "qxmr"} : RegisterInSystem(who, how)
       \/ LogoutInSystem(who)
       \/ \E amount \in EntryAmounts : SubmitEntryAmount(who, amount)
       \/ \E entry \in TokenEntries : SubmitRaffleProposal(who, entry)
       \/ \E i \in DOMAIN tokenProposals, vote \in {"yes", "no"} : VoteInProposal(who, i, vote)
       \/ DepositInQuRaffle(who)
  \/ \E i \in DOMAIN tokenRaffles : DepositInTokenRaffle(i)
  \/ RaffleEndEpoch

(***************************************************************************)
(* Properties                                                              *)
(***************************************************************************)

\* What members paid to register, what entrants paid, and the revenue are on the balance.
RaffleSolvent ==
  funds >= Cardinality(By("qu")) * RegisterAmount + quEntry * Cardinality(quEntrants) + raffleRevenue

\* The shares of members who registered with them, the revenue in shares and the entries of
\* the token raffles are the contract's.
RaffleSharesHeld ==
  /\ qxmrHeld >= Cardinality(By("qxmr")) * RegisterAmount + qxmrRevenue
  /\ tokensHeld >= SumOfSeq(tokenRaffles, LAMBDA r : r.entry * r.entered)

\* The counters agree with the tables: registered members, submitted amounts, votes.
RaffleCountsAgree ==
  /\ registerCount = Cardinality(Registered)
  /\ entryCount = Cardinality({u \in RaffleUser : entryWishes[u] > 0})
  /\ \A i \in DOMAIN tokenProposals : LET p == tokenProposals[i] IN
       /\ p.yes = Cardinality({u \in RaffleUser : p.votes[u] = "yes"})
       /\ p.no = Cardinality({u \in RaffleUser : p.votes[u] = "no"})
===============================================================================

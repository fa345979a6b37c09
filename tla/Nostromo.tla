-------------------------------- MODULE Nostromo --------------------------------
(***************************************************************************)
(* The contract Nostromo: users stake to be in a tier, users of the upper  *)
(* tiers propose projects, the users vote, an accepted project sells its   *)
(* token in three phases and the investors claim their tokens by and by.   *)
(***************************************************************************)
EXTENDS Qpi

CONSTANTS
  TierStake, TierWeight, TierFee,   \* tier -> stake, pool weight and unstake fee in percent
  TierWishes, TierSteps,            \* inputs: tiers to register in and to upgrade to
  ProjectFee, TokenFee,             \* NOSTROMO_CREATE_PROJECT_FEE, _QX_TOKEN_ISSUANCE_FEE
  ProjectDates,  \* inputs: when the vote on a project opens and closes
  SalePlans,     \* inputs: [required, threshold, price, sold, tge, steps, phases, listing, cliff, vesting]
  Investments,   \* inputs: the amounts invested
  MaxProjects, MaxProjectsPerUser,
  LastDate, MaxLaunchRevenue   \* bounds

ASSUME NostromoAssumption ==
  /\ \A t \in DOMAIN TierStake : TierStake[t] \in Nat /\ TierWeight[t] \in Nat \ {0} /\ TierFee[t] \in 0 .. 100
  /\ \A p \in SalePlans :
       /\ p.price * p.sold >= p.required + (p.required * p.threshold) \div 100
       /\ p.tge <= 50 /\ p.steps \in 1 .. 12
       /\ \A n \in 1 .. 3 : p.phases[n][1] < p.phases[n][2]
       /\ p.phases[1][2] <= p.phases[2][1] /\ p.phases[2][2] <= p.phases[3][1]
       /\ p.phases[3][2] <= p.listing /\ p.listing <= p.cliff /\ p.cliff <= p.vesting

VARIABLES
  tier,           \* users: who -> tier, 0 when not registered
  poolWeight,     \* totalPoolWeight
  projects,       \* each [creator, opens, closes, yes, no, funded]
  votedOn,        \* voteStatus: who -> the projects voted on
  sales,          \* fundaraisings, each [plan, project, raised, created, tokens]: the contract's tokens
  invested,       \* investors: who -> their investments, each [sale, amount, claimed]
  launchRevenue,  \* epochRevenue
  date

launchOwn == <<tier, poolWeight, projects, votedOn, sales, invested, launchRevenue, date>>
tierVars  == <<tier, poolWeight>>

(***************************************************************************)
(* Tiers                                                                   *)
(***************************************************************************)

RegisterInTier(who, t) ==
  /\ tier[who] = 0
  /\ tier' = [tier EXCEPT ![who] = t] /\ poolWeight' = poolWeight + TierWeight[t]
  /\ funds' = funds + TierStake[t]
  /\ UNCHANGED <<projects, votedOn, sales, invested, launchRevenue, date>>

\* Votes and investments stay.
LogoutFromTier(who) ==
  LET t == tier[who]
      fee == (TierStake[t] * TierFee[t]) \div 100
  IN /\ t # 0 /\ launchRevenue + fee <= MaxLaunchRevenue
     /\ tier' = [tier EXCEPT ![who] = 0] /\ poolWeight' = poolWeight - TierWeight[t]
     /\ funds' = Paid(funds, TierStake[t] - fee) /\ launchRevenue' = launchRevenue + fee
     /\ UNCHANGED <<projects, votedOn, sales, invested, date>>

UpgradeTier(who, t) ==
  /\ tier[who] # 0 /\ t = tier[who] + 1
  /\ tier' = [tier EXCEPT ![who] = t]
  /\ poolWeight' = poolWeight + TierWeight[t] - TierWeight[t - 1]
  /\ funds' = funds + TierStake[t] - TierStake[t - 1]
  /\ UNCHANGED <<projects, votedOn, sales, invested, launchRevenue, date>>

(***************************************************************************)
(* Projects                                                                *)
(***************************************************************************)

CreateProject(who, dates) ==
  /\ tier[who] >= 4 /\ date <= dates[1] /\ Len(projects) < MaxProjects
  /\ projects' = Append(projects, [creator |-> who, opens |-> dates[1], closes |-> dates[2],
                                   yes |-> 0, no |-> 0, funded |-> FALSE])
  /\ funds' = funds + ProjectFee /\ launchRevenue' = launchRevenue + ProjectFee
  /\ UNCHANGED <<tierVars, votedOn, sales, invested, date>>

VoteInProject(who, i, decision) ==
  /\ tier[who] # 0 /\ Len(votedOn[who]) < MaxProjectsPerUser /\ ~Contains(votedOn[who], i)
  /\ projects[i].opens <= date /\ date < projects[i].closes
  /\ projects' = [projects EXCEPT ![i] = IF decision THEN [@ EXCEPT !.yes = @ + 1] ELSE [@ EXCEPT !.no = @ + 1]]
  /\ votedOn' = [votedOn EXCEPT ![who] = Append(@, i)]
  /\ UNCHANGED <<funds, tierVars, sales, invested, launchRevenue, date>>

\* The creator pays in advance what it costs to issue the token.
CreateFundraising(i, plan) ==
  /\ date <= plan.phases[1][1] /\ projects[i].closes < date
  /\ projects[i].yes > projects[i].no /\ ~projects[i].funded
  /\ projects' = [projects EXCEPT ![i].funded = TRUE]
  /\ sales' = Append(sales, [plan |-> plan, project |-> i, raised |-> 0, created |-> FALSE, tokens |-> 0])
  /\ funds' = funds + TokenFee
  /\ UNCHANGED <<tierVars, votedOn, invested, launchRevenue, date>>

(***************************************************************************)
(* Investments                                                             *)
(***************************************************************************)

InPhase(s, n) == sales[s].plan.phases[n][1] <= date /\ date < sales[s].plan.phases[n][2]
Band(plan)    == (plan.required * plan.threshold) \div 100
MaxCap(s)     == sales[s].plan.required + Band(sales[s].plan)
MinCap(s)     == sales[s].plan.required - Band(sales[s].plan)

Positions(who, s) == {n \in DOMAIN invested[who] : invested[who][n].sale = s}
Prior(who, s)     == SumOf(Positions(who, s), LAMBDA n : invested[who][n].amount)

\* What a user of a tier may invest until the third phase.  A larger investment from a time
\* with less weight in the pool is cut down to it.
TierLimit(who, s) == (MaxCap(s) * TierWeight[tier[who]]) \div poolWeight
Accepted(who, s, amount) == Least(amount, TierLimit(who, s) - Prior(who, s))

TierPhase(who, s) ==
  /\ tier[who] # 0
  /\ InPhase(s, 1) \/ (InPhase(s, 2) /\ tier[who] >= 4)
  /\ sales[s].raised + TierLimit(who, s) - Prior(who, s) <= MaxCap(s)

\* The token is issued, and the part that is not for sale given to the creator, as soon as
\* enough is raised.
Raised(s, amount) ==
  LET raised == sales[s].raised + amount
      creates == MinCap(s) <= raised /\ ~sales[s].created
  IN /\ sales' = [sales EXCEPT ![s] =
           [@ EXCEPT !.raised = raised, !.created = @ \/ creates, !.tokens = IF creates THEN sales[s].plan.sold ELSE @]]
     /\ funds' = Paid(funds + amount, IF creates THEN TokenFee ELSE 0)

Invested(who, s, taken) ==
  LET entry == [sale |-> s, amount |-> Prior(who, s) + taken, claimed |-> 0]
  IN [invested EXCEPT ![who] = IF Positions(who, s) = {} THEN Append(@, entry)
                               ELSE [@ EXCEPT ![CHOOSE n \in Positions(who, s) : TRUE] = entry]]

InvestInProject(who, s, amount) ==
  LET taken == IF InPhase(s, 3) THEN amount ELSE Accepted(who, s, amount) IN
  /\ Len(invested[who]) < MaxProjectsPerUser
  /\ TierPhase(who, s) \/ (InPhase(s, 3) /\ sales[s].raised + amount <= MaxCap(s))
  /\ invested' = Invested(who, s, taken) /\ Raised(s, taken)
  /\ UNCHANGED <<tierVars, projects, votedOn, launchRevenue, date>>

(***************************************************************************)
(* Claims                                                                  *)
(***************************************************************************)

Bought(s, amount) == amount \div sales[s].plan.price

\* Percent of the bought tokens that are free: those of the generation event, then more at each step.
VestingStep(plan) == (date - plan.cliff) \div ((plan.vesting - plan.cliff) \div plan.steps) + 1
FreePart(plan) ==
  CASE date < plan.listing -> 0
    [] plan.listing <= date /\ date < plan.cliff -> plan.tge
    [] plan.cliff <= date /\ date < plan.vesting -> plan.tge + ((100 - plan.tge) \div plan.steps) * VestingStep(plan)
    [] plan.vesting <= date -> 100

\* The entry of the list at n gives its place to the last one.
Dropped(list, n) == SubSeq([list EXCEPT ![n] = Last(list)], 1, Len(list) - 1)

ClaimToken(who, s, n, amount) ==
  LET entry == invested[who][n]
      most == (Bought(s, entry.amount) * FreePart(sales[s].plan)) \div 100
      claimed == entry.claimed + amount
  IN /\ claimed <= most
     /\ sales' = [sales EXCEPT ![s].tokens = Paid(@, amount)]
     /\ invested' = [invested EXCEPT ![who] =
          IF claimed = most /\ sales[s].plan.vesting <= date THEN Dropped(@, n) ELSE [@ EXCEPT ![n].claimed = claimed]]
     /\ UNCHANGED <<funds, tierVars, projects, votedOn, launchRevenue, date>>

(***************************************************************************)
(* The end of an epoch                                                     *)
(***************************************************************************)

Ended(s)     == sales[s].plan.phases[3][2] < date /\ sales[s].raised # 0
Failed(s)    == Ended(s) /\ ~sales[s].created
Succeeded(s) == Ended(s) /\ sales[s].created

\* The loop over the investments of a user asks for the fundraising of the same position.
Refunds(list) ==
  FoldLeft(LAMBDA r, n :
             IF n \in DOMAIN r.list /\ n \in DOMAIN sales /\ Failed(n)
             THEN [list |-> Dropped(r.list, n), paid |-> Append(r.paid, r.list[n].amount)] ELSE r,
           [list |-> list, paid |-> <<>>], [n \in DOMAIN list |-> n])

SaleFee(s)   == (sales[s].raised * 5) \div 100
SaleFees     == SumOf({s \in DOMAIN sales : Succeeded(s)}, SaleFee)
Proceeds     == LET done == SelectSeq([s \in DOMAIN sales |-> s], Succeeded)
                IN [n \in DOMAIN done |-> sales[done[n]].raised - SaleFee(done[n])]
RefundsOfAll == FlattenSeq([n \in DOMAIN SetToSeq(Account) |-> Refunds(invested[SetToSeq(Account)[n]]).paid])

LaunchEndEpoch ==
  LET revenue == launchRevenue + SaleFees
      team == revenue \div 10
      each == (revenue - team) \div Computors
      afterSales == PaidInTurn(funds, RefundsOfAll \o Proceeds)
  IN /\ funds' = Distributed(Paid(afterSales, team), each)
     /\ launchRevenue' = revenue - team - each * Computors
     /\ invested' = [who \in Account |-> Refunds(invested[who]).list]
     /\ sales' = [s \in DOMAIN sales |->
          IF ~Ended(s) THEN sales[s]
          ELSE [sales[s] EXCEPT !.raised = 0,
                 !.tokens = IF Succeeded(s) THEN Paid(@, sales[s].plan.sold - Bought(s, sales[s].raised)) ELSE @]]
     /\ votedOn' = [who \in Account |->
          IF tier[who] = 0 THEN votedOn[who] ELSE SelectSeq(votedOn[who], LAMBDA i : projects[i].closes > date)]
     /\ UNCHANGED <<tierVars, projects, date>>

DatePasses ==
  date < LastDate /\ date' = date + 1
  /\ UNCHANGED <<funds, tierVars, projects, votedOn, sales, invested, launchRevenue>>

LaunchInit ==
  /\ tier = [who \in Account |-> 0] /\ poolWeight = 0
  /\ projects = <<>> /\ votedOn = [who \in Account |-> <<>>]
  /\ sales = <<>> /\ invested = [who \in Account |-> <<>>]
  /\ launchRevenue = 0 /\ date = 0

LaunchNext ==
  \/ \E who \in Account :
       \/ \E t \in TierWishes : RegisterInTier(who, t)
       \/ LogoutFromTier(who)
       \/ \E t \in TierSteps : UpgradeTier(who, t)
       \/ \E dates \in ProjectDates : CreateProject(who, dates)
       \/ \E i \in DOMAIN projects, decision \in BOOLEAN : VoteInProject(who, i, decision)
       \/ \E s \in DOMAIN sales, amount \in Investments : InvestInProject(who, s, amount)
       \/ \E n \in DOMAIN invested[who] : LET s == invested[who][n].sale IN
            \E amount \in 1 .. Bought(s, invested[who][n].amount) : ClaimToken(who, s, n, amount)
  \/ \E i \in DOMAIN projects, plan \in SalePlans : CreateFundraising(i, plan)
  \/ LaunchEndEpoch
  \/ DatePasses

(***************************************************************************)
(* Properties                                                              *)
(***************************************************************************)

\* Stakes, what was raised, the prepaid fees for tokens and the revenue are on the balance.
LaunchSolvent ==
  funds >= launchRevenue + SumOf({who \in Account : tier[who] # 0}, LAMBDA who : TierStake[tier[who]])
           + SumOf(DOMAIN sales, LAMBDA s : sales[s].raised + IF sales[s].created THEN 0 ELSE TokenFee)

\* The pool has the weight of its users, who vote once on a project, and what a fundraising
\* has raised covers its investments and stays within its cap.
LaunchRecordsAgree ==
  /\ poolWeight = SumOf({who \in Account : tier[who] # 0}, LAMBDA who : TierWeight[tier[who]])
  /\ \A i \in DOMAIN projects : date < projects[i].closes =>
       projects[i].yes + projects[i].no = Cardinality({who \in Account : Contains(votedOn[who], i)})
  /\ \A s \in DOMAIN sales :
       /\ sales[s].raised <= MaxCap(s)
       /\ sales[s].raised # 0 => sales[s].raised >= SumOf(Account, LAMBDA who : Prior(who, s))

\* The contract has the tokens that its investors bought and have not claimed.
TokensSuffice ==
  \A s \in DOMAIN sales : sales[s].created =>
    sales[s].tokens >=
      SumOf(Account, LAMBDA who :
        SumOf(Positions(who, s), LAMBDA n : Bought(s, invested[who][n].amount) - invested[who][n].claimed))
===============================================================================

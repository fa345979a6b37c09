--------------------------- MODULE ProposalContracts ---------------------------
(***************************************************************************)
(* Two contracts that act on the proposals of computors.                   *)
(***************************************************************************)
EXTENDS ProposalVoting

(***************************************************************************)
(* GeneralQuorumProposal: proposals of computors on donations of the       *)
(* revenue of the computors.  Accepted ones change a table of donations when *)
(* the next epoch begins.                                                  *)
(***************************************************************************)

CONSTANTS
  QuorumMotions,   \* [class, options, dest, amounts, delay]; class inEpoch has one amount
  MaxDonation,     \* 1000000 millionths
  DonationSlots,   \* the capacity of the table
  GqSlots          \* the slots of proposals, one for each computor

ASSUME GeneralQuorumProposalAssumption == {MaxDonation, DonationSlots} \subseteq Nat

VARIABLE
  donation   \* sequence of [dest, share, first]

Quorum == (Len(board) * 2) \div 3 + 1

(***************************************************************************)
(* The table                                                               *)
(***************************************************************************)

Entry(dest, share, first) == [dest |-> dest, share |-> share, first |-> first]

\* _SetRevenueDonationEntry: replaces the entry of the same epoch, or is inserted after those
\* of the destination that are earlier.
SetDonation(t, e) ==
  LET same == {i \in DOMAIN t : t[i].dest = e.dest /\ t[i].first = e.first}
      after == FoldLeftDomain(
                 LAMBDA n, i : IF t[i].dest # e.dest THEN n
                               ELSE IF e.first > t[i].first THEN i
                               ELSE IF n = 0 THEN i - 1 ELSE n, 0, t)
  IN CASE same # {} -> [t EXCEPT ![Min(same)] = e]
       [] same = {} /\ Len(t) = DonationSlots -> t
       [] OTHER -> IF after = 0 THEN Append(t, e) ELSE InsertAt(t, after + 1, e)

\* Mutant: the next entry may be of another destination.
CleanedUpAcross(t, epoch) ==
  LET outdated == {i \in 1 .. Len(t) - 1 : t[i].first < epoch /\ t[i + 1].first <= epoch}
  IN FoldLeftDomain(LAMBDA kept, i : IF i \in outdated THEN kept ELSE Append(kept, t[i]), << >>, t)

\* _CleanupRevenueDonation: an entry is outdated when the next one of its destination is in
\* force.
CleanedUp(t, epoch) ==
  LET outdated == {i \in 1 .. Len(t) - 1 :
                     t[i].dest = t[i + 1].dest /\ t[i].first < epoch /\ t[i + 1].first <= epoch}
  IN FoldLeftDomain(LAMBDA kept, i : IF i \in outdated THEN kept ELSE Append(kept, t[i]), << >>, t)

(***************************************************************************)
(* Procedures                                                              *)
(***************************************************************************)

\* checkValidity, and what this contract requires of a proposal.
ValidMotion(motion) ==
  CASE motion.class = "general"  -> motion.options \in 2 .. 8
    [] motion.class = "transfer" ->
         /\ motion.options \in 2 .. 5
         /\ \A i \in 1 .. motion.options - 1 : motion.amounts[i] \in 0 .. MaxDonation
         /\ \A i, j \in 1 .. motion.options - 1 : i < j => motion.amounts[i] < motion.amounts[j]
    [] motion.class = "inEpoch"  ->
         motion.options = 2 /\ motion.amounts[1] \in 0 .. MaxDonation /\ motion.delay > 0
    [] OTHER -> FALSE

\* The epoch of a donation is absolute in a proposal: it is that of the proposal and a delay.
GqSetProposal ==
  \E who \in Range(board), motion \in QuorumMotions :
    /\ ValidMotion(motion)
    /\ ChosenSlot(proposal, who) # -1
    /\ proposal' = Set(proposal, who, motion, << >>)
    /\ UNCHANGED <<pollEpoch, pollTick, board, seen, donation>>

GqClearProposal ==
  \E who \in Citizens :
    /\ SlotsOf(proposal, who) # {}
    /\ proposal' = Cleared(proposal, who)
    /\ UNCHANGED <<pollEpoch, pollTick, board, seen, donation>>

GqVote ==
  \E voter \in Range(board), s \in DOMAIN proposal :
    \E v \in VoteValues(seen[s].motion) \cup {NoVote} :
      /\ CastSingle(voter, s, v)
      /\ UNCHANGED <<pollEpoch, pollTick, board, seen, donation>>

\* The option with most votes, the first of those, if it is not to change nothing.
Decided(p) ==
  LET most == CHOOSE o \in VoteValues(p.motion) : \A q \in VoteValues(p.motion) :
                VotesFor(p, q) < VotesFor(p, o) \/ (VotesFor(p, q) = VotesFor(p, o) /\ o <= q)
  IN IF /\ p.motion.class \in {"transfer", "inEpoch"}
        /\ Cardinality(Casted(p)) >= Quorum
        /\ most > 0 /\ VotesFor(p, most) > Quorum \div 2
     THEN most ELSE 0

Donated(t, p) ==
  LET o == Decided(p) motion == p.motion IN
  IF o = 0 THEN t
  ELSE SetDonation(t, Entry(motion.dest, motion.amounts[o],
                            IF motion.class = "inEpoch" THEN p.epoch + motion.delay ELSE pollEpoch + 1))

\* BEGIN_EPOCH of the next epoch, with its computors.
GqBeginEpoch ==
  LET open == SetToSortSeq({s \in DOMAIN proposal : proposal[s].epoch = pollEpoch}, <)
      voted == FoldLeft(LAMBDA t, s : Donated(t, proposal[s]), donation, open)
  IN /\ NextEpoch
     /\ board' \in Boards
     /\ donation' = CleanedUp(voted, pollEpoch + 1)

\* The table begins with the donation accepted before.
DonationInit == donation = <<Entry("watch", 1, FirstPollEpoch)>>

GqInit == PollInit(GqSlots, Boards) /\ DonationInit

GqNext ==
  \/ GqSetProposal \/ GqClearProposal \/ GqVote \/ GqBeginEpoch
  \/ NextTick /\ UNCHANGED donation

GqSpec == GqInit /\ [][GqNext]_<<pollVars, donation>>

(***************************************************************************)
(* Properties                                                              *)
(***************************************************************************)

\* The entries of a destination are in one block, in the order of their epochs, one of each
\* epoch, and at most one is in force.
DonationsSorted ==
  \A i, j \in DOMAIN donation :
    i < j /\ donation[i].dest = donation[j].dest =>
      /\ \A k \in i .. j : donation[k].dest = donation[i].dest
      /\ donation[i].first < donation[j].first
      /\ donation[j].first > pollEpoch

\* The destinations, in the order of their donations.
Donees(t) ==
  FoldLeft(LAMBDA ds, e : IF e.dest \in Range(ds) THEN ds ELSE Append(ds, e.dest), << >>, t)

\* The order of donations never changes: destinations stay and new ones come last.
DoneesKept == [][IsPrefix(Donees(donation), Donees(donation)')]_donation

(***************************************************************************)
(* ComputorControlledFund: a fund that pays what the computors vote for: a *)
(* transfer, or a subscription with a payment in every period.             *)
(***************************************************************************)

CONSTANTS
  FundMotions,        \* [class, options, dest, amount]
  FundPlans,          \* [weeks, periods, amount, delay]: what is proposed of subscriptions
  ProposalFee,
  MaxPlanEpochs,      \* 52
  SubscriptionSlots   \* CCF_MAX_SUBSCRIPTIONS

ASSUME ComputorControlledFundAssumption ==
  {ProposalFee, MaxPlanEpochs, SubscriptionSlots} \subseteq Nat

VARIABLES
  fundPlan,      \* slot of a proposal -> the subscription that it proposes, or NoPlan
  subscription   \* slot -> accepted subscription, or NoPlan

fundVars == <<fundPlan, subscription>>

NoPlan == [dest |-> "none"]

FundQuorum == (Len(board) * 2) \div 3 + 1

(***************************************************************************)
(* Procedures                                                              *)
(***************************************************************************)

\* What is paid beyond the fee is sent back, and the amount of the whole payment burned.
FeeTaken(reward) == Paid(Paid(funds + reward, reward - ProposalFee), reward)

ValidTransfer(motion) == motion.class = "transfer" /\ motion.options = 2 /\ motion.amount >= 0

ValidPlan(plan) ==
  plan # NoPlan => plan.delay >= 0 /\ plan.periods * plan.weeks <= MaxPlanEpochs

\* The fee is gone also when the proposal is refused.
FundSetProposal ==
  \E who \in Range(board), motion \in FundMotions, plan \in FundPlans \cup {NoPlan},
     reward \in {ProposalFee, ProposalFee + 1} :
    LET slot == ChosenSlot(proposal, who) IN
    /\ IF ValidTransfer(motion) /\ ValidPlan(plan) /\ slot # -1
       THEN /\ proposal' = Set(proposal, who, motion, << >>)
            /\ fundPlan' = [fundPlan EXCEPT ![slot] =
                 IF plan = NoPlan THEN NoPlan
                 ELSE [proposer |-> who, dest |-> motion.dest, weeks |-> plan.weeks,
                       periods |-> plan.periods, amount |-> plan.amount,
                       start |-> pollEpoch + plan.delay]]
       ELSE UNCHANGED <<proposal, fundPlan>>
    /\ funds' = FeeTaken(reward)
    /\ UNCHANGED <<pollEpoch, pollTick, board, seen, subscription>>

\* With epoch 0.  The caller says whether it clears a subscription, of which it is the
\* proposer, or something else.
FundClearProposal ==
  \E who \in Citizens, isSubscription \in BOOLEAN, reward \in {ProposalFee, ProposalFee + 1} :
    LET slot == Min(SlotsOf(proposal, who)) IN
    /\ SlotsOf(proposal, who) # {}
    /\ proposal' = Cleared(proposal, who)
    /\ fundPlan' = IF isSubscription /\ (fundPlan[slot] = NoPlan \/ fundPlan[slot].proposer # who)
                   THEN fundPlan ELSE [fundPlan EXCEPT ![slot] = NoPlan]
    /\ funds' = FeeTaken(reward)
    /\ UNCHANGED <<pollEpoch, pollTick, board, seen, subscription>>

FundVote ==
  \E voter \in Range(board), s \in DOMAIN proposal, v \in {0, 1, NoVote} :
    /\ CastSingle(voter, s, v)
    /\ UNCHANGED <<funds, pollEpoch, pollTick, board, seen, fundVars>>

\* The revenue that is donated to the fund.
FundReceives ==
  /\ funds' = funds + 1 /\ Bounded
  /\ UNCHANGED <<pollVars, fundVars>>

(***************************************************************************)
(* End of an epoch                                                         *)
(***************************************************************************)

Approved(p) ==
  /\ p.motion.class = "transfer"
  /\ Cardinality(Casted(p)) >= FundQuorum
  /\ VotesFor(p, 1) >= VotesFor(p, 0)
  /\ VotesFor(p, 1) > FundQuorum \div 2

SubscriptionOf(subs, dest) == {i \in DOMAIN subs : subs[i].dest = dest}

\* A subscription replaces that of its destination, or ends it when there is nothing to pay.
Subscribed(subs, plan) ==
  LET own  == SubscriptionOf(subs, plan.dest)
      free == SubscriptionOf(subs, "none")
      start == [dest |-> plan.dest, weeks |-> plan.weeks, periods |-> plan.periods,
                amount |-> plan.amount, start |-> plan.start, period |-> -1]
  IN CASE 0 \in {plan.amount, plan.periods, plan.weeks} ->
            [i \in DOMAIN subs |-> IF i \in own THEN NoPlan ELSE subs[i]]
       [] 0 \notin {plan.amount, plan.periods, plan.weeks} /\ own \cup free # {} ->
            [subs EXCEPT ![IF own # {} THEN Min(own) ELSE Min(free)] = start]
       [] OTHER -> subs

\* A transfer, with the result of the votes; one that fails is not repeated.
Executed(st, s) ==
  CASE ~Approved(proposal[s]) -> st
    [] Approved(proposal[s]) /\ st.plans[s] = NoPlan ->
         [st EXCEPT !.funds = Paid(@, proposal[s].motion.amount)]
    [] OTHER -> [st EXCEPT !.subs = Subscribed(@, st.plans[s]), !.plans[s] = NoPlan]

Period(sub) == (pollEpoch - sub.start) \div sub.weeks

\* The payment of the period that begins; the subscription ends with the last one, if that
\* can be paid.
PaymentMade(st, i) ==
  LET sub == st.subs[i] IN
  IF sub = NoPlan \/ pollEpoch < sub.start THEN st
  ELSE IF Period(sub) <= sub.period \/ Period(sub) >= sub.periods THEN st
  ELSE [st EXCEPT !.funds = Paid(@, sub.amount),
                  !.subs[i] = IF CanPay(st.funds, sub.amount) /\ Period(sub) >= sub.periods - 1
                              THEN NoPlan ELSE [@ EXCEPT !.period = Period(sub)]]

\* END_EPOCH, and the computors of the next epoch.
FundEndEpoch ==
  LET open == SetToSortSeq({s \in DOMAIN proposal : proposal[s].epoch = pollEpoch}, <)
      voted == FoldLeft(Executed, [funds |-> funds, plans |-> fundPlan, subs |-> subscription], open)
      paid == FoldLeft(PaymentMade, voted, SetToSortSeq(DOMAIN subscription, <))
  IN /\ NextEpoch
     /\ board' \in Boards
     /\ funds' = paid.funds /\ fundPlan' = paid.plans /\ subscription' = paid.subs

FundTablesInit ==
  /\ fundPlan = [s \in {0} |-> NoPlan]
  /\ subscription = [i \in 0 .. SubscriptionSlots - 1 |-> NoPlan]

FundInit == funds = 0 /\ PollInit({0}, Boards) /\ FundTablesInit

FundNext ==
  \/ FundSetProposal \/ FundClearProposal \/ FundVote \/ FundReceives \/ FundEndEpoch
  \/ NextTick /\ UNCHANGED <<funds, fundVars>>

FundSpec == FundInit /\ [][FundNext]_<<funds, pollVars, fundVars>>

(***************************************************************************)
(* Properties                                                              *)
(***************************************************************************)

\* The subscription in a slot is that of the proposal in the slot.
PlansMatch ==
  \A s \in DOMAIN fundPlan : fundPlan[s] # NoPlan =>
    /\ fundPlan[s].proposer = proposal[s].proposer
    /\ fundPlan[s].dest = proposal[s].motion.dest

\* A destination has one subscription, and each period of it has had its payment, or its
\* failed one, in the epoch in which it began: never two, none left out.
SubscriptionsOnSchedule ==
  \A i \in DOMAIN subscription : subscription[i] # NoPlan =>
    LET sub == subscription[i] epochs == pollEpoch - sub.start IN
    /\ SubscriptionOf(subscription, sub.dest) = {i}
    /\ sub.period = IF epochs <= 0 THEN -1
                    ELSE Least((epochs - 1) \div sub.weeks, sub.periods - 1)
===============================================================================

----------------------------- MODULE ProposalVoting -----------------------------
(***************************************************************************)
(* Proposals of a contract and the votes on them.  A proposal has a slot   *)
(* and is open during the epoch in which it is set.  Voters are the        *)
(* computors, with one vote each, or those who held the shares of the      *)
(* contract when the proposal was set, with one vote for each share.       *)
(***************************************************************************)
EXTENDS Qpi

CONSTANTS
  Boards,             \* the lists of computors that an epoch may have
  FirstPollEpoch, LastPollEpoch, LastTick, \* bounds
  Holdings,           \* the lists of shareholders, sorted, one entry for each share
  HolderMotions,      \* what shareholders may propose
  Ballots             \* bound: the values of votes

ASSUME ProposalVotingAssumption ==
  /\ \A b \in Boards : \A i, j \in DOMAIN b : b[i] = b[j] => i = j
  /\ \A b, c \in Boards : Len(b) = Len(c)
  /\ {FirstPollEpoch, LastPollEpoch, LastTick} \subseteq Nat

VARIABLES
  pollEpoch, pollTick,
  board,     \* the computors of this epoch, or the shareholders of this moment
  proposal,  \* slot -> proposal with its votes
  seen       \* slot -> the proposal as voters know it, from the end of some tick

pollVars == <<pollEpoch, pollTick, board, proposal, seen>>

Citizens == UNION {Range(b) : b \in Boards \cup Holdings}

(***************************************************************************)
(* A motion is [class, options, ...]: options is the number of choices, 0  *)
(* for a scalar between min and max.                                       *)
(***************************************************************************)
NoVote    == -100
NoMotion  == [class |-> "none", options |-> 0]
\* A vote, with the motion that the voter meant.
Abstained == [value |-> NoVote, meant |-> NoMotion]
Unset     == [proposer |-> "none", epoch |-> 0, tick |-> 0, motion |-> NoMotion,
              rights |-> << >>, votes |-> << >>]

Scalar(motion) == motion.class = "variable" /\ motion.options = 0

VoteValues(motion) ==
  IF Scalar(motion) THEN motion.min .. motion.max ELSE 0 .. motion.options - 1

Admits(motion, v) == v = NoVote \/ v \in VoteValues(motion)

(***************************************************************************)
(* Setting and clearing                                                    *)
(***************************************************************************)

SlotsOf(pv, who) == {s \in DOMAIN pv : pv[s].proposer = who}

\* The slot of the proposer, a free one, or the one with the oldest proposal of an earlier
\* epoch; -1 when there is none.
ChosenSlot(pv, who) ==
  LET own  == SlotsOf(pv, who)
      free == SlotsOf(pv, "none")
      old  == {s \in DOMAIN pv : pv[s].epoch < pollEpoch}
      oldest == {s \in old : \A t \in old : pv[s].epoch <= pv[t].epoch}
  IN CASE own # {}  -> Min(own)
       [] own = {} /\ free # {} -> Min(free)
       [] own = {} /\ free = {} /\ old # {} -> Min(oldest)
       [] OTHER -> -1

\* setProposal: all votes are reset.
Set(pv, who, motion, rights) ==
  [pv EXCEPT ![ChosenSlot(pv, who)] =
     [proposer |-> who, epoch |-> pollEpoch, tick |-> pollTick, motion |-> motion,
      rights |-> rights, votes |-> [i \in DOMAIN board |-> Abstained]]]

Cleared(pv, who) == [s \in DOMAIN pv |-> IF s \in SlotsOf(pv, who) THEN Unset ELSE pv[s]]

(***************************************************************************)
(* Votes                                                                   *)
(***************************************************************************)

\* A vote names the type of the proposal and the tick in which it was set.
Matches(p, about) ==
  /\ p.motion.class = about.motion.class /\ p.motion.options = about.motion.options
  /\ p.epoch = pollEpoch
  /\ p.tick = about.tick

\* The votes of a voter: those of the computor, or of the shares when the proposal was set.
VotesOf(p, voter) ==
  {i \in DOMAIN p.votes : (IF p.rights = << >> THEN board ELSE p.rights)[i] = voter}

\* The votes of the voter become the values of the ballot, one after the other; those left
\* over are taken back, and all when one value is not admitted.
Marked(p, voter, ballot, about) ==
  LET own == VotesOf(p, voter)
      rank(i) == Cardinality({j \in own : j <= i})
      valid == \A n \in DOMAIN ballot : Admits(p.motion, ballot[n])
      mark(v) == IF v = NoVote THEN Abstained ELSE [value |-> v, meant |-> about.motion]
  IN [i \in DOMAIN p.votes |->
        IF i \notin own THEN p.votes[i]
        ELSE IF valid /\ rank(i) <= Len(ballot) THEN mark(ballot[rank(i)]) ELSE Abstained]

\* vote with one value: all votes of the voter get it; nothing happens when it is not admitted.
CastSingle(voter, s, v) ==
  LET p == proposal[s] own == VotesOf(p, voter) IN
  /\ Matches(p, seen[s])
  /\ own # {}
  /\ Admits(p.motion, v)
  /\ proposal' = [proposal EXCEPT ![s].votes =
                    Marked(p, voter, [n \in 1 .. Cardinality(own) |-> v], seen[s])]

\* vote with several values, at most as many as the voter has votes.
CastMulti(voter, s, ballot) ==
  LET p == proposal[s] own == VotesOf(p, voter) IN
  /\ Matches(p, seen[s])
  /\ own # {} /\ Len(ballot) \in 1 .. Cardinality(own)
  /\ proposal' = [proposal EXCEPT ![s].votes = Marked(p, voter, ballot, seen[s])]

(***************************************************************************)
(* Results                                                                 *)
(***************************************************************************)

Casted(p) == {i \in DOMAIN p.votes : p.votes[i].value # NoVote}

VotesFor(p, option) == Cardinality({i \in Casted(p) : p.votes[i].value = option})

\* Division and remainder of C++.
Quotient(a, b)  == IF a >= 0 THEN a \div b ELSE -((-a) \div b)
Remainder(a, b) == a - b * Quotient(a, b)

\* The mean of the votes, and how it is computed when their sum might overflow.
MeanBySum(p) == Quotient(SumOf(Casted(p), LAMBDA i : p.votes[i].value), Cardinality(Casted(p)))
MeanByParts(p) ==
  LET n == Cardinality(Casted(p)) IN
  SumOf(Casted(p), LAMBDA i : Quotient(p.votes[i].value, n))
    + Quotient(SumOf(Casted(p), LAMBDA i : Remainder(p.votes[i].value, n)), n)

(***************************************************************************)
(* Time                                                                    *)
(***************************************************************************)

Known(p) == [motion |-> p.motion, tick |-> p.tick]

\* Voters learn what a tick left behind, each proposal then or later.
Learn ==
  \E S \in SUBSET DOMAIN proposal :
    seen' = [s \in DOMAIN proposal |-> IF s \in S THEN Known(proposal[s]) ELSE seen[s]]

NextTick ==
  /\ pollTick < LastTick
  /\ pollTick' = pollTick + 1
  /\ Learn
  /\ UNCHANGED <<pollEpoch, board, proposal>>

NextEpoch ==
  /\ pollEpoch < LastPollEpoch /\ pollTick < LastTick
  /\ pollEpoch' = pollEpoch + 1
  /\ pollTick' = pollTick + 1
  /\ Learn
  /\ UNCHANGED proposal

PollInit(slots, boards) ==
  /\ pollEpoch = FirstPollEpoch /\ pollTick = 1
  /\ board \in boards
  /\ proposal = [s \in slots |-> Unset]
  /\ seen = [s \in slots |-> Known(Unset)]

(***************************************************************************)
(* Proposals of shareholders                                               *)
(***************************************************************************)

HolderSets ==
  \E who \in Range(board), motion \in HolderMotions :
    /\ ChosenSlot(proposal, who) # -1
    /\ proposal' = Set(proposal, who, motion, board)
    /\ UNCHANGED <<pollEpoch, pollTick, board, seen>>

HolderClears ==
  \E who \in Citizens :
    /\ SlotsOf(proposal, who) # {}
    /\ proposal' = Cleared(proposal, who)
    /\ UNCHANGED <<pollEpoch, pollTick, board, seen>>

HolderVotes ==
  \E voter \in Citizens, s \in DOMAIN proposal :
    /\ \/ \E v \in Ballots : CastSingle(voter, s, v)
       \/ \E ballot \in UNION {[1 .. n -> Ballots] : n \in {1, 2}} : CastMulti(voter, s, ballot)
    /\ UNCHANGED <<pollEpoch, pollTick, board, seen>>

SharesSold ==
  /\ board' \in Holdings
  /\ UNCHANGED <<pollEpoch, pollTick, proposal, seen>>

HolderEpoch == NextEpoch /\ UNCHANGED board

HolderInit == PollInit({0}, Holdings)

HolderNext ==
  HolderSets \/ HolderClears \/ HolderVotes \/ SharesSold \/ NextTick \/ HolderEpoch

HolderSpec == HolderInit /\ [][HolderNext]_pollVars

(***************************************************************************)
(* Properties                                                              *)
(***************************************************************************)

\* A proposer has one proposal, and a vote counts only for what the voter meant: not for a
\* proposal that took the slot, or was changed, meanwhile.
VotesAsMeant ==
  /\ \A who \in Citizens : Cardinality(SlotsOf(proposal, who)) <= 1
  /\ \A s \in DOMAIN proposal : \A i \in Casted(proposal[s]) :
       /\ proposal[s].votes[i].meant = proposal[s].motion
       /\ proposal[s].votes[i].value \in VoteValues(proposal[s].motion)

\* Both ways to compute a mean agree but for rounding, and a mean is an admitted value.
MeansAgree ==
  \A s \in DOMAIN proposal :
    LET p == proposal[s] IN
    Scalar(p.motion) /\ Casted(p) # {} =>
      /\ MeanBySum(p) \in VoteValues(p.motion)
      /\ MeanByParts(p) \in VoteValues(p.motion)
      /\ MeanByParts(p) - MeanBySum(p) \in {-1, 0, 1}
===============================================================================

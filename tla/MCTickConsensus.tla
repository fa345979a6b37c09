--------------------------- MODULE MCTickConsensus ---------------------------
(***************************************************************************)
(* Instances of TickConsensus for TLC.                                     *)
(***************************************************************************)
EXTENDS TickConsensus

CONSTANTS a, b, x, d1, d2

\* Node a holds two computors, b the others; x is a node without computors.
MCHost == [c \in Honest |-> IF c \in {0, 1} THEN a ELSE b]
OneHost == [c \in Honest |-> a]
Host3 == [c \in Honest |-> IF c = 0 THEN a ELSE b]

Vote(c, t, prev, data, next) ==
  [computor |-> c, tick |-> t, body |-> [prev |-> prev, data |-> data, next |-> next]]

\* Computor 3 signs votes for and against d1 in tick 2.
SplitVotes == {Vote(3, 2, << >>, d1, Empty), Vote(3, 2, << >>, Empty, Empty)}

\* Computor 2 leads tick 2 and signs two different tick data for it.
TwoData == {[tick |-> 2, data |-> d1], [tick |-> 2, data |-> d2]}

\* Computor 0 leads tick 2, votes for its own tick data, and signs contradictory
\* votes for tick 3: one for the state after tick 2 and one against it.
LeaderData == {[tick |-> 2, data |-> d1]}
MisleadingVotes == {Vote(0, 1, << >>, Empty, d1), Vote(0, 2, << >>, d1, Empty),
                    Vote(0, 3, << >>, Empty, Empty), Vote(0, 3, <<d1>>, Empty, Empty)}
=============================================================================

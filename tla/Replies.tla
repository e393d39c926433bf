------------------------------ MODULE Replies ------------------------------
(***************************************************************************)
(* internal/bot/eval, the play of a bot: what a card is worth now, and     *)
(* what the opponent's best reply to it costs (belief.go, oppmodel.go,     *)
(* winplay.go).                                                            *)
(*                                                                         *)
(* Chances are exact here where the code has floats: an inclusion          *)
(* probability is q.of[c] in q.base-ths, and a chance over a pool of cards *)
(* a number of (q.base ^ size of the pool)-ths.  The belief is a function  *)
(* of the pool; Belief shows which cards are in it.                        *)
(***************************************************************************)
EXTENDS Pegging, WinOdds, SequencesExt

CONSTANTS TieScale, \* the tie-breaker counts in this part of a point: 1000
          WinScale  \* points count in this part of a win: 1000000

ASSUME TieAssumption == TieScale \in Nat /\ TieScale > 9 /\ WinScale \in Nat \ {0}

\* The points of a card as a reply, none if it does not fit.
ReplyPoints(pile, card) ==
  IF Pip(card) <= 31 - RunningCount(pile) THEN Score(pile, card) ELSE 0

TotalOf(w, S) == MapThenSumSet(LAMBDA c : w[c], S)

(***************************************************************************)
(* scaleToHandSize: the weights of the cards of the pool as chances that   *)
(* add up to the size of the hand.  A card whose share reaches one is      *)
(* certain, and the rest share what is left; a pass over the cards clamps  *)
(* every card its factor takes to one.                                     *)
(***************************************************************************)
\* (Mutated form: one pass.)
CertainOnce(w, h) ==
  {c \in DOMAIN w : h * w[c] >= TotalOf(w, DOMAIN w)}

Certain(w, h) ==
  LET pool == DOMAIN w
      after[n \in 0..Cardinality(pool)] ==
        IF n = 0 THEN {}
        ELSE LET left == pool \ after[n - 1]
                 s    == TotalOf(w, left)
             IN  after[n - 1] \cup
                   {c \in left : s > 0 /\ (h - Cardinality(after[n - 1])) * w[c] >= s}
  IN  after[Cardinality(pool)]

ScaleToHandSize(w, h) ==
  LET sure == Certain(w, h)
      s    == TotalOf(w, DOMAIN w \ sure)
      base == IF h > 0 /\ s > 0 THEN s ELSE 1
  IN  [base |-> base,
       of |-> [c \in DOMAIN w |->
                 IF h <= 0 THEN 0
                 ELSE IF c \in sure THEN base
                 ELSE IF s > 0 THEN (h - Cardinality(sure)) * w[c] ELSE 0]]

(***************************************************************************)
(* oppReplyDist and ExpectedOppReplyBelief: the chance that no card that   *)
(* scores more than v is in the hand telescopes into the chance that the   *)
(* best reply is v.                                                        *)
(***************************************************************************)
NoneAbove(pile, q, v) ==
  MapThenFoldSet(LAMBDA x, y : x * y, 1,
                 LAMBDA c : IF ReplyPoints(pile, c) > v THEN q.base - q.of[c] ELSE q.base,
                 LAMBDA S : CHOOSE c \in S : TRUE, DOMAIN q.of)

\* The values the opponent's best reply may have, no reply among them.
ReplyValues(pile, pool) == {ReplyPoints(pile, c) : c \in pool} \cup {0}

OppReplyDist(pile, q) ==
  [v \in ReplyValues(pile, DOMAIN q.of) |->
     NoneAbove(pile, q, v) - (IF v = 0 THEN 0 ELSE NoneAbove(pile, q, v - 1))]

ExpectedOppReplyBelief(pile, q) ==
  MapThenSumSet(LAMBDA v : v * OppReplyDist(pile, q)[v], ReplyValues(pile, DOMAIN q.of))

(***************************************************************************)
(* ExpectedOppReply: the same for a hand of h cards drawn evenly, where    *)
(* probHoldsNone is a quotient of falling products.                        *)
(***************************************************************************)
Falling(n, h) ==
  LET f[i \in 0..h] == IF i = 0 THEN 1 ELSE f[i - 1] * (n - (i - 1)) IN f[h]

\* That h of u cards contain none of k, in Falling(u, h)-ths.
ProbHoldsNone(u, k, h) ==
  IF k <= 0 THEN Falling(u, h) ELSE IF u - k < h THEN 0 ELSE Falling(u - k, h)

ExpectedOppReply(pile, unseen, h) ==
  LET u == Cardinality(unseen)
      above(v) == Cardinality({c \in unseen : ReplyPoints(pile, c) > v})
  IN  IF h <= 0 \/ u = 0 THEN 0
      ELSE MapThenSumSet(
             LAMBDA v : v * (ProbHoldsNone(u, above(v), h)
                               - ProbHoldsNone(u, above(v - 1), h)),
             ReplyValues(pile, unseen) \ {0})

(***************************************************************************)
(* The ranking of the legal plays, in the order of the hand where two are  *)
(* worth the same (a stable sort).                                         *)
(***************************************************************************)
\* All the chance there is.
Mass(q) == q.base ^ Cardinality(DOMAIN q.of)

\* Keeps low cards back for later.
PegTieBreak(c) == 13 - Pip(c)

Reply(pile, c, q) ==
  IF RunningCount(pile) + Pip(c) = 31 THEN 0
  ELSE ExpectedOppReplyBelief(Append(pile, c), q)

\* Points now less the reply, with the tie-breaker.
NetEV(pile, c, reply, q) ==
  TieScale * (Score(pile, c) * Mass(q) - reply) + PegTieBreak(c) * Mass(q)

\* The chance to win after the play: its points land first, then the reply's.
WinAfter(pile, c, q, my, opp, meDealer) ==
  IF my + Score(pile, c) >= Finish THEN WinBase * Mass(q)
  ELSE IF RunningCount(pile) + Pip(c) = 31
    THEN WinProb(my + Score(pile, c), opp, meDealer) * Mass(q)
    ELSE LET dist == OppReplyDist(Append(pile, c), q)
         IN  MapThenSumSet(
               LAMBDA v : dist[v] * WinProb(my + Score(pile, c), opp + v, meDealer),
               {v \in DOMAIN dist : opp + v < Finish})

ReplyIfGoingOn(pile, c, q, my) ==
  IF my + Score(pile, c) >= Finish THEN 0 ELSE Reply(pile, c, q)

PlayScore(pile, c, q, my, opp, meDealer) ==
  IF FarFromEnd(my, opp, meDealer) THEN NetEV(pile, c, Reply(pile, c, q), q)
  ELSE WinAfter(pile, c, q, my, opp, meDealer) * WinScale * TieScale
         + WinBase * NetEV(pile, c, ReplyIfGoingOn(pile, c, q, my), q)

RankPlaysWin(pile, legal, q, my, opp, meDealer) ==
  LET before(x, y) == \/ x[2] > y[2]
                      \/ x[2] = y[2] /\ x[1] < y[1]
      ranked == SortSeq([i \in DOMAIN legal |->
                           <<i, PlayScore(pile, legal[i], q, my, opp, meDealer)>>], before)
  IN  [n \in DOMAIN legal |-> legal[ranked[n][1]]]
-----------------------------------------------------------------------------
(* The same, hand by hand: what belief_test.go and oppmodel_test.go sweep. *)

\* The chances q that the weights w are scaled to fill a hand of h, and each is
\* its weight times one level, except where that passes one.
FillsTheHand(w, h, q) ==
  LET possible == {c \in DOMAIN w : w[c] > 0}
  IN  /\ \A c \in DOMAIN w : q.of[c] \in 0..q.base /\ (w[c] = 0 => q.of[c] = 0)
      /\ h <= Cardinality(possible) => TotalOf(q.of, DOMAIN w) = h * q.base
      /\ \A c, d \in possible :
           q.of[c] < q.base =>
             q.of[c] * w[d] >= q.of[d] * w[c]

BestReply(pile, hand) == Max({ReplyPoints(pile, c) : c \in hand} \cup {0})

\* That exactly these cards of the pool are in the hand.
ChanceOf(q, hand) ==
  MapThenFoldSet(LAMBDA x, y : x * y, 1,
                 LAMBDA c : IF c \in hand THEN q.of[c] ELSE q.base - q.of[c],
                 LAMBDA S : CHOOSE c \in S : TRUE, DOMAIN q.of)

\* Every hand the opponent may hold, with its chance and its best reply.
Hands(pile, q) ==
  {[chance |-> ChanceOf(q, S), best |-> BestReply(pile, S), hand |-> S] : S \in SUBSET DOMAIN q.of}

\* The telescoped distribution and its mean are those of the best reply over
\* every hand, and so is the chance to win after a play.
DistIsOfTheHands(pile, q, hands) ==
  LET dist == OppReplyDist(pile, q)
  IN  /\ \A v \in DOMAIN dist :
           dist[v] = MapThenSumSet(LAMBDA x : x.chance, {x \in hands : x.best = v})
      /\ MapThenSumSet(LAMBDA v : dist[v], DOMAIN dist) = Mass(q)
      /\ ExpectedOppReplyBelief(pile, q) = MapThenSumSet(LAMBDA x : x.chance * x.best, hands)

MeanIsOfTheHands(pile, unseen, h) ==
  ExpectedOppReply(pile, unseen, h)
    = Falling(h, h) * MapThenSumSet(LAMBDA S : BestReply(pile, S), kSubset(h, unseen))

WinIsOfTheHands(pile, c, q, hands, my, opp, meDealer) ==
  LET worth(best) == IF my + Score(pile, c) >= Finish THEN WinBase
                     ELSE WinProb(my + Score(pile, c), opp + best, meDealer)
  IN  RunningCount(pile) + Pip(c) # 31 =>
        WinAfter(pile, c, q, my, opp, meDealer)
          = MapThenSumSet(LAMBDA x : x.chance * worth(x.best), hands)

\* A play that reaches the target is ranked before every play that does not.
PegOutIsFirst(pile, legal, q, my, opp, meDealer) ==
  LET ranked == RankPlaysWin(pile, legal, q, my, opp, meDealer)
      out(c) == my + Score(pile, c) >= Finish
  IN  \A i, j \in DOMAIN legal : i < j /\ out(ranked[j]) => out(ranked[i])
=============================================================================

------------------------------ MODULE Discards ------------------------------
(***************************************************************************)
(* The discard: which two of the six cards a bot throws (internal/bot/eval *)
(* hand.go, discard.go, windiscard.go), the ladder of evaluators it is     *)
(* measured against (internal/bot/lab/ladder), the opponent-modelled crib  *)
(* (oppcrib.go), the generator of the crib table (cribtable_gen.go) and    *)
(* the two calculators of the server that answer with all this (tools.go). *)
(*                                                                         *)
(* The six cards come as a sequence: a tie goes to the hold that is        *)
(* enumerated first.  A mean is a sum here, over the number of starters or *)
(* of completions of the crib, which is the same for every hold.           *)
(***************************************************************************)
EXTENDS HandScore, DealWalk

CONSTANTS Deck,     \* the 52 cards
          KeepProb, \* per role (is it the dealer) and rank, how often it is kept
          KeepBase  \* of so many

ASSUME DeckAssumption == Deck \subseteq Card /\ IsFiniteSet(Deck)

ASSUME KeepAssumption ==
  KeepBase \in Nat /\ \A role \in BOOLEAN, r \in Rank : KeepProb[role][r] \in 0..KeepBase

\* The holds, by the positions of the cards thrown, in the order enumerated.
DiscardPairs == {p \in (1..6) \X (1..6) : p[1] < p[2]}

Earlier(p, r) ==
  \/ p[1] < r[1]
  \/ p[1] = r[1] /\ p[2] < r[2]

Nth(n) == CHOOSE p \in DiscardPairs : Cardinality({r \in DiscardPairs : Earlier(r, p)}) = n - 1

Dealt(h) == {h[i] : i \in 1..6}
Thrown(h, p) == {h[p[1]], h[p[2]]}
Keep(h, p) == Dealt(h) \ Thrown(h, p)

\* What may be turned up, and how many such cards there are.
Remaining(seen) == Deck \ seen
Starters == Cardinality(Deck) - 6

-----------------------------------------------------------------------------
(* hand.go: four cards over every starter, as a sum and as a histogram.    *)

ExpectedHandValue(keep, seen) ==
  MapThenSumSet(LAMBDA s : HandTotal(keep, s, FALSE), Remaining(seen))

HandValueDist(keep, seen) ==
  LET totals == {<<s, HandTotal(keep, s, FALSE)>> : s \in Remaining(seen)}
  IN  [v \in Points |-> Cardinality({t \in totals : t[2] = v})]

-----------------------------------------------------------------------------
(* The crib table: every completion by a starter and two cards, for one    *)
(* pair of cards of each two ranks and of one suit or two.                 *)

Completions(two) ==
  {<<s, pair>> \in Remaining(two) \X kSubset(2, Remaining(two)) : s \notin pair}

\* Histogram of the crib over the completions, and its sum.
ExpectedCrib(two) ==
  LET totals == {<<x, HandTotal(two \cup x[2], x[1], TRUE)>> : x \in Completions(two)}
  IN  [sum  |-> MapThenSumSet(LAMBDA t : t[2], totals),
       dist |-> [v \in Points |-> Cardinality({t \in totals : t[2] = v})]]

Sample(lo, hi, suited) ==
  {[rank |-> lo, suit |-> 1], [rank |-> hi, suit |-> IF suited THEN 1 ELSE 2]}

Indices == {k \in RanksOf(Deck) \X RanksOf(Deck) \X BOOLEAN :
              k[1] <= k[2] /\ (k[1] = k[2] => ~k[3])}

CribTable == {[at |-> k, crib |-> ExpectedCrib(Sample(k[1], k[2], k[3]))] : k \in Indices}

\* Two cards as an index of the table.
Lo(two) == Min(RanksOf(two))
Hi(two) == Max(RanksOf(two))
OfOneSuit(two) == Cardinality({c.suit : c \in two}) = 1 /\ Lo(two) # Hi(two)

Index(two) == <<Lo(two), Hi(two), OfOneSuit(two)>>

Entry(table, k) == CHOOSE e \in table : e.at = k

CribEV(two) == Entry(CribTable, Index(two)).crib.sum
CribScoreDist(two) == Entry(CribTable, Index(two)).crib.dist

\* How many ways there are to complete a crib.
Ways == LET n == Cardinality(Deck) - 2 IN n * (((n - 1) * (n - 2)) \div 2)

(***************************************************************************)
(* oppcrib.go: the opponent's two cards weighted by how likely each is to  *)
(* be thrown: the sum of the crib over its completions and of the weights. *)
(***************************************************************************)
ThrowWeight(role) == [r \in Rank |-> KeepBase - KeepProb[role][r]]

WeightedCrib(two, throw) ==
  LET weight(x) == LET a == CHOOSE c \in x[2] : TRUE
                       b == CHOOSE c \in x[2] : c # a
                   IN  throw[a.rank] * throw[b.rank]
      all == MapThenSumSet(weight, Completions(two))
  IN  [sum |-> MapThenSumSet(LAMBDA x : weight(x) * HandTotal(two \cup x[2], x[1], TRUE),
                             Completions(two)),
       of  |-> IF all = 0 THEN 1 ELSE all]

\* To our crib the opponent throws as the other seat, to its own as the dealer.
OppCribTable ==
  {[at |-> <<role, k>>, crib |-> WeightedCrib(Sample(k[1], k[2], k[3]), ThrowWeight(role))] :
     role \in BOOLEAN, k \in Indices}

OppCribEV(two, myCrib) == Entry(OppCribTable, <<~myCrib, Index(two)>>).crib

-----------------------------------------------------------------------------
(* The ranking of the holds.                                               *)

Sign(myCrib) == IF myCrib THEN 1 ELSE -1

\* A hand and the crib, over the product of starters and completions.
EVScore(h, p, myCrib) ==
  ExpectedHandValue(Keep(h, p), Dealt(h)) * Ways
    + Sign(myCrib) * CribEV(Thrown(h, p)) * Starters

\* The order of a stable sort, best first.
Before(a, b) ==
  \/ a.score > b.score
  \/ a.score = b.score /\ Earlier(a.pair, b.pair)

RankDiscards(h, myCrib) ==
  SortSeq([n \in 1..15 |-> [pair |-> Nth(n), score |-> EVScore(h, Nth(n), myCrib), win |-> 0]],
          Before)

\* Near the end by the chance to win, points breaking the ties.
RankDiscardsWin(h, myCrib, my, opp) ==
  LET places == RankDiscards(h, myCrib)
      winOf(p) == HoldWinProb(HandValueDist(Keep(h, p), Dealt(h)),
                              CribScoreDist(Thrown(h, p)), myCrib, my, opp)
      rated == [n \in 1..15 |-> <<n, [places[n] EXCEPT !.win = winOf(places[n].pair)]>>]
      \* the sort is stable, so the order by points stands between equals
      before(x, y) == \/ x[2].win > y[2].win
                      \/ x[2].win = y[2].win /\ x[1] < y[1]
      ranked == SortSeq(rated, before)
  IN  IF FarFromEnd(my, opp, myCrib) THEN places ELSE [n \in 1..15 |-> ranked[n][2]]
-----------------------------------------------------------------------------
(* ladder.go: the holds with what each evaluator rates, and its pick.      *)

\* Four cards without a starter: no nobs, and a flush of four.
ShowValueNoStarter(keep) ==
  FifteenPoints(keep) + PairPointsIn(keep, Rank) + RunTotal(keep)
    + (IF Cardinality({c.suit : c \in keep}) = 1 THEN 4 ELSE 0)

\* The mean and the best of one sweep over the starters.
MeanMax(keep, starters) ==
  LET totals == {<<s, HandTotal(keep, s, FALSE)>> : s \in starters}
  IN  [mean |-> MapThenSumSet(LAMBDA t : t[2], totals), ceil |-> Max({t[2] : t \in totals})]

Splits(h, dealer) ==
  {LET both == MeanMax(Keep(h, p), Remaining(Dealt(h)))
       crib == Sign(dealer) * CribEV(Thrown(h, p))
   IN  [pair |-> p, show |-> ShowValueNoStarter(Keep(h, p)),
        eHand |-> both.mean, ceil |-> both.ceil, crib |-> crib,
        score |-> both.mean * Ways + crib * Starters] : p \in DiscardPairs}

\* The first maximum: a later hold has to beat it.
FirstMax(sp, value(_)) ==
  LET rated == {<<a, value(a)>> : a \in sp}
      best  == CHOOSE x \in rated : \A y \in rated :
                 \/ x[2] > y[2]
                 \/ x[2] = y[2] /\ ~Earlier(y[1].pair, x[1].pair)
  IN  best[1]

PickMaxShow(sp) == FirstMax(sp, LAMBDA a : a.show).pair
PickMaxEHand(sp) == FirstMax(sp, LAMBDA a : a.eHand).pair
PickMaxCeil(sp) == FirstMax(sp, LAMBDA a : a.ceil).pair
PickMaxScore(sp) == FirstMax(sp, LAMBDA a : a.score).pair

\* L0: two draws without replacement, put in order.
RandomThrow(i, j) == LET second == IF j >= i THEN j + 1 ELSE j
                     IN  IF i > second THEN <<second, i>> ELSE <<i, second>>

\* How many starters of a histogram, and of a hold, give at least t.
AtLeast(dist, t) == MapThenSumSet(LAMBDA v : dist[v], {v \in DOMAIN dist : v >= t})

TailProb(keep, seen, t) ==
  IF t <= 0 THEN Cardinality(Remaining(seen)) ELSE AtLeast(HandValueDist(keep, seen), t)

\* The longest tail, then the better mean, then the first.
PickMaxTail(h, sp, t) ==
  LET tails == {<<a, TailProb(Keep(h, a.pair), Dealt(h), t)>> : a \in sp}
      top   == {x[1] : x \in {x \in tails : \A y \in tails : x[2] >= y[2]}}
  IN  PickMaxEHand(top)

\* The rung that swaps in the opponent-modelled crib, which is a quotient.
PickMaxOppCrib(sp, h, dealer, crib(_)) ==
  LET rated == {[split |-> a, crib |-> crib(Thrown(h, a.pair))] : a \in sp}
      over(x) == x.split.eHand * x.crib.of + Sign(dealer) * x.crib.sum * Starters
      better(x, y) == over(x) * y.crib.of > over(y) * x.crib.of
      top == {x.split : x \in {x \in rated : \A y \in rated : ~better(y, x)}}
  IN  FirstMax(top, LAMBDA a : 0).pair

OppCribPick(h, dealer) ==
  PickMaxOppCrib(Splits(h, dealer), h, dealer, LAMBDA two : OppCribEV(two, dealer))

-----------------------------------------------------------------------------
(* tools.go.                                                               *)

BigHandThreshold == 12

\* The summary of a histogram of n starters.
HandUpside(dist, n) ==
  LET upTo(s) == MapThenSumSet(LAMBDA v : dist[v], 0..s)
      ninety  == {s \in Points : 10 * upTo(s) >= 9 * n}
  IN  [pGE12   |-> AtLeast(dist, BigHandThreshold),
       p90     |-> Min(ninety),
       ceiling |-> Max({0} \cup Support(dist))]

NotGiven == -1
Given(score) == score # NotGiven

\* The checks of POST /tools/discard-eval; scores come both or neither.
EvalAccepted(hand, my, opp) ==
  /\ Len(hand) = 6
  /\ \A i, j \in 1..6 : i # j => hand[i] # hand[j]
  /\ Given(my) <=> Given(opp)
  /\ Given(my) => my \in 0..(Finish - 1) /\ opp \in 0..(Finish - 1)

DiscardEval(hand, dealer, my, opp) ==
  LET ranked == IF Given(my) THEN RankDiscardsWin(hand, dealer, my, opp)
                             ELSE RankDiscards(hand, dealer)
  IN  [holds |-> [n \in 1..15 |->
                    [hold |-> ranked[n],
                     upside |-> HandUpside(HandValueDist(Keep(hand, ranked[n].pair), Dealt(hand)),
                                           Starters)]],
       situation |-> IF ~Given(my) THEN {}
                     ELSE {[myNeed |-> Finish - my, oppNeed |-> Finish - opp,
                            winProb |-> WinProb(my, opp, dealer),
                            endgame |-> InReach(my, opp, dealer)]}]

\* POST /tools/score-hand: four cards and a starter, all different.
ScoreHand(hand, starter, crib) ==
  IF /\ Len(hand) = 4
     /\ starter \in Card
     /\ Cardinality({hand[i] : i \in DOMAIN hand} \cup {starter}) = 5
    THEN HandScore({hand[i] : i \in DOMAIN hand}, starter, crib)
    ELSE NotGiven
=============================================================================

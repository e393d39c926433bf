------------------------------ MODULE DealWalk ------------------------------
(***************************************************************************)
(* internal/bot/eval, windiscard.go: what a hold is worth near the end.    *)
(* The deal's points are walked in counting order over the grid of what    *)
(* both players may have gained so far, and what crosses a need is decided *)
(* there and then; what is left goes on to the next deal's odds.  With it  *)
(* the step by which winprob_gen.go fills the table of those odds.         *)
(*                                                                         *)
(* A distribution is a function from points to weights, and the chances of *)
(* a walk are in parts of the product of the weights applied (walk.all).   *)
(***************************************************************************)
EXTENDS WinOdds, SequencesExt

CONSTANTS HeelsDist,  \* the weights of no heels and of heels
          OppHandDist, \* per role (is it the dealer), what a hand counts
          Deals       \* the deals observed in self-play: the dealer's gains (me)
                      \* and the other seat's in counting order, with weights

Points == 0..BestHand

ASSUME DistAssumption ==
  /\ HeelsDist \in [{0, Heels} -> Nat]
  /\ OppHandDist \in [BOOLEAN -> [Points -> Nat]]

Weight(dist) == MapThenSumSet(LAMBDA s : dist[s], DOMAIN dist)

Grid(needMe, needOpp) == (0..(needMe - 1)) \X (0..(needOpp - 1))

NewDealWalk(needMe, needOpp) ==
  [alive |-> [g \in Grid(needMe, needOpp) |-> IF g = <<0, 0>> THEN 1 ELSE 0],
   win |-> 0, loss |-> 0, all |-> 1, needMe |-> needMe, needOpp |-> needOpp]

(***************************************************************************)
(* One component of the deal: gains is the set of what it may bring, each  *)
(* with its weight and, in order, who gets what.                           *)
(***************************************************************************)
\* Whoever's need is crossed first by gains in counting order.
FirstToCross(needMe, needOpp, gains) ==
  LET sum(me, n) == MapThenSumSet(LAMBDA i : gains[i].pts,
                                  {i \in 1..n : gains[i].me = me})
      crosses(n) == sum(TRUE, n) >= needMe \/ sum(FALSE, n) >= needOpp
      first      == {n \in DOMAIN gains : crosses(n)}
  IN  IF first = {} THEN "nobody"
      ELSE IF gains[Min(first)].me THEN "me" ELSE "opp"

\* applyMine and applyOpp.
Apply(walk, mine, dist) ==
  LET cells  == DOMAIN walk.alive
      need   == IF mine THEN walk.needMe ELSE walk.needOpp
      had(g) == IF mine THEN g[1] ELSE g[2]
      from(g, s) == IF mine THEN <<g[1] - s, g[2]>> ELSE <<g[1], g[2] - s>>
      over(g) == MapThenSumSet(LAMBDA s : dist[s], {s \in DOMAIN dist : had(g) + s >= need})
      decided == MapThenSumSet(LAMBDA g : walk.alive[g] * over(g), cells)
      base    == Weight(dist)
  IN  [walk EXCEPT
         !.alive = [g \in cells |->
                      MapThenSumSet(LAMBDA s : walk.alive[from(g, s)] * dist[s],
                                    {s \in DOMAIN dist : s <= had(g)})],
         !.win = @ * base + (IF mine THEN decided ELSE 0),
         !.loss = @ * base + (IF mine THEN 0 ELSE decided),
         !.all = @ * base]

\* (Mutated form: the dealer's pegging counts first.)
PegsFirst(meDealer) == meDealer

\* The one that leads pegs first, as an approximation: who does not deal.
PoneIsMe(meDealer) == ~meDealer

ApplyPegging(walk, meDealer) ==
  LET cells == DOMAIN walk.alive
      mine(c) == IF meDealer THEN c.d ELSE c.p
      opps(c) == IF meDealer THEN c.p ELSE c.d
      meOver(g, c) == g[1] + mine(c) >= walk.needMe
      oppOver(g, c) == g[2] + opps(c) >= walk.needOpp
      wins(g, c) == meOver(g, c) /\ (PoneIsMe(meDealer) \/ ~oppOver(g, c))
      loses(g, c) == oppOver(g, c) /\ (~PoneIsMe(meDealer) \/ ~meOver(g, c))
      sumOf(S(_)) == MapThenSumSet(LAMBDA g : walk.alive[g]
                         * MapThenSumSet(LAMBDA c : c.w, S(g)), cells)
      base  == MapThenSumSet(LAMBDA c : c.w, PegJoint)
  IN  [walk EXCEPT
         !.alive = [g \in cells |->
                      MapThenSumSet(LAMBDA c : walk.alive[<<g[1] - mine(c), g[2] - opps(c)>>] * c.w,
                                    {c \in PegJoint : mine(c) <= g[1] /\ opps(c) <= g[2]})],
         !.win = @ * base + sumOf(LAMBDA g : {c \in PegJoint : wins(g, c)}),
         !.loss = @ * base + sumOf(LAMBDA g : {c \in PegJoint : loses(g, c)}),
         !.all = @ * base]

ApplyHeels(walk, meDealer) == Apply(walk, meDealer, HeelsDist)

\* What is still open goes on, the deal passing to the other player.
FinishWalk(walk, my, opp, meDealer) ==
  walk.win * WinBase
    + MapThenSumSet(LAMBDA g : walk.alive[g] * WinProb(my + g[1], opp + g[2], ~meDealer),
                    DOMAIN walk.alive)

\* After heels and the play, the hand of the one who does not deal, the
\* dealer's, the crib: whose each is, and what it may count.
CountingOrder(myHand, crib, meDealer) ==
  IF meDealer THEN <<<<FALSE, OppHandDist[FALSE]>>, <<TRUE, myHand>>, <<TRUE, crib>>>>
              ELSE <<<<TRUE, myHand>>, <<FALSE, OppHandDist[TRUE]>>, <<FALSE, crib>>>>

Walk(myHand, crib, meDealer, my, opp) ==
  FoldLeft(LAMBDA walk, part : Apply(walk, part[1], part[2]),
           ApplyPegging(ApplyHeels(NewDealWalk(Finish - my, Finish - opp), meDealer),
                        meDealer),
           CountingOrder(myHand, crib, meDealer))

HoldWinProb(myHand, crib, meDealer, my, opp) ==
  FinishWalk(Walk(myHand, crib, meDealer, my, opp), my, opp, meDealer)

-----------------------------------------------------------------------------
(* The same deal, outcome by outcome.                                      *)

Support(dist) == {s \in DOMAIN dist : dist[s] > 0}

Gain(isMe, pts) == [me |-> isMe, pts |-> pts]

\* The outcomes of a deal: what is gained, in counting order, and its weight.
Outcomes(myHand, crib, meDealer) ==
  LET oppHand == OppHandDist[~meDealer]
      pone    == IF meDealer THEN oppHand ELSE myHand
      dealers == IF meDealer THEN myHand ELSE oppHand
  IN  {[gains |-> <<Gain(meDealer, o[1]), Gain(~meDealer, o[2].p), Gain(meDealer, o[2].d),
                    Gain(~meDealer, o[3]), Gain(meDealer, o[4]), Gain(meDealer, o[5])>>,
        weight |-> HeelsDist[o[1]] * o[2].w * pone[o[3]] * dealers[o[4]] * crib[o[5]]] :
         o \in Support(HeelsDist) \X PegJoint \X Support(pone) \X Support(dealers)
                 \X Support(crib)}

GainOf(gains, me) == MapThenSumSet(LAMBDA i : gains[i].pts,
                                   {i \in DOMAIN gains : gains[i].me = me})

\* What an outcome is worth to the player at these scores.
Worth(gains, my, opp, meDealer) ==
  LET first == FirstToCross(Finish - my, Finish - opp, gains)
  IN  IF first = "me" THEN WinBase
      ELSE IF first = "opp" THEN 0
      ELSE WinProb(my + GainOf(gains, TRUE), opp + GainOf(gains, FALSE), ~meDealer)

WinByOutcomes(myHand, crib, meDealer, my, opp) ==
  MapThenSumSet(LAMBDA o : o.weight * Worth(o.gains, my, opp, meDealer),
                Outcomes(myHand, crib, meDealer))
-----------------------------------------------------------------------------
(* winprob_gen.go: an entry of the table, for the player about to deal,    *)
(* from the entries of higher scores.                                      *)

Most(me) == Max({GainOf(d.gains, me) : d \in Deals})

\* Both in reach: the order of the gains decides.
FromSequences(dealerAt, poneAt) ==
  MapThenSumSet(LAMBDA d : d.weight * Worth(d.gains, dealerAt, poneAt, TRUE), Deals)

\* Otherwise only one of the two can cross, and totals do.
FromTotals(dealerAt, poneAt) ==
  LET value(d) ==
        IF GainOf(d.gains, TRUE) >= Finish - dealerAt THEN WinBase
        ELSE IF GainOf(d.gains, FALSE) >= Finish - poneAt THEN 0
        ELSE WinBase - WinTable[poneAt + GainOf(d.gains, FALSE)]
                               [dealerAt + GainOf(d.gains, TRUE)]
  IN  MapThenSumSet(LAMBDA d : d.weight * value(d), Deals)

BothInReach(dealerAt, poneAt) ==
  /\ Finish - dealerAt <= Most(TRUE)
  /\ Finish - poneAt <= Most(FALSE)

TableEntry(dealerAt, poneAt) ==
  IF BothInReach(dealerAt, poneAt) THEN FromSequences(dealerAt, poneAt)
                                   ELSE FromTotals(dealerAt, poneAt)
=============================================================================

------------------------------ MODULE Analysis ------------------------------
(***************************************************************************)
(* The post-game analyses of one seat's decisions: the discard-only one of *)
(* analysis.go and the one with several engines of analysis2.go, which     *)
(* walk the same log with two different loops.                             *)
(*                                                                         *)
(* What an engine thinks a discard or a play is worth is a parameter; what *)
(* is modelled is which decisions are put to it, with which hand, crib and *)
(* scores, and what is made of its answers.                                *)
(***************************************************************************)
EXTENDS CribbageHistory

CONSTANTS Engines,                        \* the engines of the response
          ExactEV,                        \* the one that ranks by exact points
          ExactValue(_, _, _),            \* of a throw by exact points, the one
                                          \* analysis.go uses: hand, own crib, throw
          EngineValue(_, _, _, _, _, _),  \* of a throw by another engine: engine,
                                          \* hand, own crib, both scores, throw
          PlayValue(_, _, _)              \* of a play: engine, view, card

ASSUME ExactEVAssumption == ExactEV \in Engines

Holds(hand) == {two \in SUBSET hand : Cardinality(two) = 2}

\* A choice is optimal when nothing beats it: a tie is optimal.
OptimalExact(hand, myCrib, throw) ==
  \A two \in Holds(hand) : ExactValue(hand, myCrib, two) <= ExactValue(hand, myCrib, throw)

OptimalDiscard(e, hand, myCrib, my, opp, throw) ==
  IF e = ExactEV
    THEN OptimalExact(hand, myCrib, throw)
    ELSE \A two \in Holds(hand) :
           EngineValue(e, hand, myCrib, my, opp, two)
             <= EngineValue(e, hand, myCrib, my, opp, throw)

OptimalPlay(e, view, card) ==
  \A c \in view.legalPlays : PlayValue(e, view, c) <= PlayValue(e, view, card)

\* A play that could only be of one rank was forced.
NonForced(view) == Cardinality({c.rank : c \in view.legalPlays}) >= 2

-----------------------------------------------------------------------------
(* analysis2.go                                                            *)

\* The seat plays a card in the deal, and had a choice.
ChosenIn(events, seat, deal, i) ==
  /\ events[i].type = "card_played"
  /\ events[i].seat = seat
  /\ DealsBefore(events, i) - 1 = deal
  /\ NonForced(Decision(events, i).view)

AddPlay(events, seat, deal, plays, n) ==
  IF ChosenIn(events, seat, deal, n) THEN Append(plays, Decision(events, n)) ELSE plays

\* The seat's non-forced plays in one deal, in the order they were made.
PlaysOf(events, seat, deal) ==
  LET plays[n \in 0..Len(events)] ==
        IF n = 0 THEN <<>> ELSE AddPlay(events, seat, deal, plays[n - 1], n)
  IN  plays[Len(events)]

GradedPlay(d) ==
  [count |-> d.view.count, pile |-> d.view.pile, hand |-> d.view.yourHand,
   played |-> d.played, legal |-> d.view.legalPlays,
   optimal |-> {e \in Engines : OptimalPlay(e, d.view, d.played)}]

PeggingOptimal(plays) == {e \in Engines : \A i \in DOMAIN plays : e \in plays[i].optimal}

AnalyzeDeal(w, seat, throw, decisions) ==
  LET myCrib == w.dealer = seat
      plays  == [i \in DOMAIN decisions |-> GradedPlay(decisions[i])]
      liked  == {e \in Engines : OptimalDiscard(e, w.hand, myCrib, w.start[seat],
                                                w.start[Other(seat)], throw)}
  IN  [deal |-> w.deal, dealer |-> w.dealer, startScores |-> w.start,
       hand |-> w.hand, throw |-> throw, keep |-> w.hand \ throw,
       discardOptimal |-> liked, plays |-> plays,
       peggingOptimal |-> PeggingOptimal(plays)]

BeforeWalk ==
  [scores |-> [s \in Seat |-> 0], deal |-> -1, dealer |-> 0, hand |-> {},
   start |-> [s \in Seat |-> 0], haveHand |-> FALSE, deals |-> <<>>]

NewDeal(w, seat, e) ==
  [w EXCEPT !.deal = @ + 1, !.dealer = e.dealer, !.start = w.scores,
            !.hand = e.hands[seat], !.haveHand = TRUE]

\* The scores the walk keeps are not stopped at the target.
Credit(w, s, pts) == [w EXCEPT !.scores[s] = @ + pts]

WalkStep(events, seat, w, e) ==
  CASE e.type = "handicap"   -> [w EXCEPT !.scores = e.scores]
    [] e.type = "hand_dealt" -> NewDeal(w, seat, e)
    [] e.type = "discarded" /\ e.seat = seat /\ w.haveHand ->
         [w EXCEPT !.haveHand = FALSE,
                   !.deals = Append(@, AnalyzeDeal(w, seat, e.cards, PlaysOf(events, seat, w.deal)))]
    [] e.type \in {"starter_cut", "crib_shown"} -> Credit(w, w.dealer, e.points)
    [] e.type \in {"card_played", "go_awarded", "hand_shown"} -> Credit(w, e.seat, e.points)
    [] OTHER -> w

AnalyzedDeals(events, seat) ==
  LET walk[n \in 0..Len(events)] ==
        IF n = 0 THEN BeforeWalk ELSE WalkStep(events, seat, walk[n - 1], events[n])
  IN  walk[Len(events)].deals

NoVerdicts == [hands |-> 0, optimalDiscards |-> 0, playDecisions |-> 0, optimalPlays |-> 0]

\* One engine's verdicts on one more deal.
AddVerdicts(sum, d, e) ==
  [sum EXCEPT !.hands = @ + 1,
              !.optimalDiscards = @ + (IF e \in d.discardOptimal THEN 1 ELSE 0),
              !.playDecisions = @ + Len(d.plays),
              !.optimalPlays = @ + Cardinality({j \in DOMAIN d.plays : e \in d.plays[j].optimal})]

\* And over the whole game.
Summary(deals, e) ==
  LET sum[n \in 0..Len(deals)] ==
        IF n = 0 THEN NoVerdicts ELSE AddVerdicts(sum[n - 1], deals[n], e)
  IN  sum[Len(deals)]

AnalyzeGame(events, seat) ==
  LET deals == AnalyzedDeals(events, seat)
  IN  [deals |-> deals, summary |-> [e \in Engines |-> Summary(deals, e)]]

-----------------------------------------------------------------------------
(* analysis.go                                                             *)

\* (Mutated form: the crib is always the opponent's.)
RateDiscardAsPone(hand, myCrib, throw) ==
  [hand |-> hand, dealer |-> myCrib, throw |-> throw, keep |-> hand \ throw,
   optimal |-> OptimalExact(hand, FALSE, throw)]

RateDiscard(hand, myCrib, throw) ==
  [hand |-> hand, dealer |-> myCrib, throw |-> throw, keep |-> hand \ throw,
   optimal |-> OptimalExact(hand, myCrib, throw)]

\* The loop holds the hand last dealt to the seat until the seat discards.
DiscardStep(seat, w, e) ==
  CASE e.type = "hand_dealt" ->
         [w EXCEPT !.dealer = e.dealer, !.hand = e.hands[seat], !.haveHand = TRUE]
    [] e.type = "discarded" /\ e.seat = seat /\ w.haveHand ->
         [w EXCEPT !.haveHand = FALSE,
                   !.discards = Append(@, RateDiscard(w.hand, w.dealer = seat, e.cards))]
    [] OTHER -> w

BeforeDiscards == [dealer |-> 0, hand |-> {}, haveHand |-> FALSE, discards |-> <<>>]

AnalyzeDiscards(events, seat) ==
  LET walk[n \in 0..Len(events)] ==
        IF n = 0 THEN BeforeDiscards ELSE DiscardStep(seat, walk[n - 1], events[n])
  IN  walk[Len(events)].discards
=============================================================================

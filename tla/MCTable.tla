------------------------------ MODULE MCTable ------------------------------
(***************************************************************************)
(* Whole games to 18 from the opening cut (the board ends there too), with *)
(* two shuffles: two or three deals each, won in the play, at the show or  *)
(* at the cut.                                                             *)
(***************************************************************************)
EXTENDS Table, Evaluate
LOCAL INSTANCE FiniteSetsExt

C(r, s) == [rank |-> r, suit |-> s]

\* The non-dealer's cards are at the odd places; both hands peg and count,
\* with a jack to cut and a pair among the pone's cards.
EvalDeck ==
  <<C(10, 1), C(5, 1), C(6, 1), C(4, 2), C(10, 2), C(5, 2), C(12, 3), C(13, 1),
    C(11, 4), C(8, 4), C(4, 1), C(13, 2), C(11, 2)>>

\* Low cards: long series, and little to count.
LowDeck ==
  <<C(2, 1), C(2, 3), C(2, 2), C(3, 3), C(3, 1), C(3, 2), C(1, 1), C(1, 2),
    C(11, 1), C(12, 2), C(10, 3), C(13, 4), C(6, 1)>>

MCDecks == {EvalDeck, LowDeck}
MCThrows == {{C(10, 1), C(11, 4)}, {C(5, 2), C(8, 4)}, {C(11, 1), C(10, 3)}, {C(12, 2), C(13, 4)}}
MCCuts == {[s \in Seat |-> IF s = 0 THEN C(3, 1) ELSE C(7, 2)],
           [s \in Seat |-> IF s = 0 THEN C(9, 1) ELSE C(7, 2)]}
MCNone == {}
MCEngines == {"champion", "exact-ev"}

\* Bounds: either side lays the lowest or the highest card that fits, and one
\* shuffle comes all game; if the game is disturbed, the person lays the lowest
\* and it is the first shuffle.
Extremes(s) == {Min(RanksOf(LegalPlays(s))), Max(RanksOf(LegalPlays(s)))}
LaidLow(d) == d.played.rank = Min(RanksOf(d.view.legalPlays))
IsFirst(deal) == C(10, 1) \in deal.hands[0] \cup deal.hands[1]
FirstShuffles(events) ==
  {IsFirst(events[i]) : i \in {j \in DOMAIN events : events[j].type = "hand_dealt"}}
FewMoves ==
  /\ busy /\ log' # log /\ phase = "play" => out'[1].card.rank \in Extremes(Bot)
  /\ at = "playing" /\ at' = "posting" => move'.card.rank \in Extremes(You)
  /\ FirstShuffles(log') # {TRUE, FALSE}
  /\ reloads' + lost' > 0 => /\ \A d \in decided' : d.seat = You => LaidLow(d)
                            /\ FirstShuffles(log') = {TRUE}

\* Stand-ins that depend on what the engines look at: a five goes to one's own
\* crib only, and the one that is out to win looks at the scores.
MCExactValue(hand, myCrib, throw) ==
  IF myCrib = (\E c \in throw : c.rank = 5) THEN 10 ELSE 0

MCEngineValue(e, hand, myCrib, my, opp, throw) ==
  MCExactValue(hand, myCrib, throw) + (IF my > opp THEN MapThenSumSet(Pip, throw) ELSE 0)

MCPlayValue(e, view, card) ==
  IF e = "champion" /\ view.scores[view.you] < view.scores[Other(view.you)]
    THEN card.rank
    ELSE 0 - card.rank - (IF view.count + Pip(card) \in {15, 31} THEN 0 ELSE 20)
=============================================================================

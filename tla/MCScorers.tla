----------------------------- MODULE MCScorers -----------------------------
(***************************************************************************)
(* The inputs over which the scorers and the bots' evaluators are compared *)
(* with reference definitions: every series the cards of PlayPool can      *)
(* build within the rules, every hand of four cards of ShowPool with every *)
(* starter, every deal of six cards of DealPool, and pairs of scores.  A       *)
(* behaviour builds one of these, a card at a time.                        *)
(***************************************************************************)
EXTENDS Replies, Discards

CONSTANTS PlayPool, ShowPool, \* the cards to play, and those of the shows
          MaxSeries, \* bound: the longest series built (a real one has at most 8)
          MaxAsked,  \* bound: the longest series a bot is asked to play on
          Mine,      \* the cards a bot may be asked about, in the order it holds them
          Others,    \* those that may be its opponent's
          Scores,    \* the scores of a seat and its opponent
          WalkedDeal, \* the six cards whose holds are walked to the end
          DealPool,  \* the cards of the deals whose holds are compared
          MaxGrid,   \* bound: the largest grid of gains walked
          Counted    \* bound: the places of a ranking counted outcome by outcome

VARIABLES series, \* the cards laid so far
          taken,  \* the cards of a show or of a deal, as far as taken
          at      \* the scores, none until they are chosen

vars == <<series, taken, at>>

Nowhere == <<>>

Init == series = <<>> /\ taken = {} /\ at = Nowhere

LayCard(c) ==
  /\ taken = {} /\ at = Nowhere
  /\ Len(series) < MaxSeries
  /\ Valid(series, c)
  /\ series' = Append(series, c)
  /\ UNCHANGED <<taken, at>>

\* Five cards for a show, six for a deal.
TakeCard(c) ==
  /\ series = <<>> /\ at = Nowhere
  /\ c \notin taken
  /\ \/ Cardinality(taken) < 5
     \/ Cardinality(taken) = 5 /\ taken \cup {c} \subseteq DealPool
  /\ taken' = taken \cup {c}
  /\ UNCHANGED <<series, at>>

ChooseScores(sc) ==
  /\ series = <<>> /\ taken = {} /\ at = Nowhere
  /\ at' = sc
  /\ UNCHANGED <<series, taken>>

Next ==
  \/ \E c \in PlayPool : LayCard(c)
  \/ \E c \in ShowPool : TakeCard(c)
  \/ \E sc \in Scores : ChooseScores(sc)

Spec == Init /\ [][Next]_vars

\* Scores so close to the end that the points of one deal are few to count.
Close(sc) == (Finish - sc[1]) * (Finish - sc[2]) <= MaxGrid

-----------------------------------------------------------------------------
(* The scorers.                                                            *)

\* The plays that are legal on the series.
Plays == {c \in PlayPool : Valid(series, c)}

\* Each way to call one of five cards the starter and the other four the hand.
Shows ==
  IF Cardinality(taken) = 5
    THEN {<<taken \ {c}, c, crib>> : c \in taken, crib \in BOOLEAN}
    ELSE {}

(***************************************************************************)
(* The itemised breakdown the engine records (Score), the allocation-free  *)
(* total the bots reckon with (Total) and the rules of the reference       *)
(* definition give every legal play the same points, whatever duplicates   *)
(* and gaps the series has.                                                *)
(***************************************************************************)
PlayScorersAgree ==
  \A c \in Plays : PlayScoredRight(series, c)

(***************************************************************************)
(* Grouping pairs into the run that holds them moves points and neither    *)
(* loses nor doubles any, and both totals - and the one the calculator     *)
(* answers with - are what the brute-force definition counts: fifteens,    *)
(* pairs and runs by enumeration, the crib's stricter flush, and nobs.     *)
(***************************************************************************)
ShowScorersAgree ==
  \A s \in Shows :
    /\ ShowScoredRight(s[1], s[2], s[3])
    /\ ScoreHand(SetToSeq(s[1]), s[2], s[3]) = ReferenceHand(s[1], s[2], s[3])

(***************************************************************************)
(* Every scorer of the code, for the play and for the show, counts the     *)
(* points the rules give.                                                  *)
(***************************************************************************)
ScorersAgree == PlayScorersAgree /\ ShowScorersAgree

-----------------------------------------------------------------------------
(* The bots' plays.                                                        *)

\* The weights of the cards the opponent may hold, as the role keeps them.
Weights(meDealer) ==
  [c \in Others \ Range(series) |-> KeepProb[~meDealer][c.rank]]

LegalPlays == SelectSeq(Mine, LAMBDA c : Valid(series, c))

Asked == taken = {} /\ at = Nowhere /\ Len(series) <= MaxAsked /\ LegalPlays # <<>>

(***************************************************************************)
(* What a bot expects of the opponent's reply is what it would be over     *)
(* every hand the opponent may hold: the chances scaled to the size of the *)
(* hand add up to it and keep their proportions, the products that         *)
(* telescope over the reply values are the distribution of the best reply, *)
(* the chance to win after a play counts the points in the order they are  *)
(* pegged in, and a card that ends the game is never ranked behind one     *)
(* that does not.                                                          *)
(***************************************************************************)
RepliesAgree ==
  Asked => \A meDealer \in BOOLEAN, h \in 1..3 :
    \A w \in {Weights(meDealer)} : \A q \in {ScaleToHandSize(w, h)} :
      /\ q.of \in [DOMAIN w -> 0..q.base]
      /\ FillsTheHand(w, h, q)
      /\ MeanIsOfTheHands(series, DOMAIN w, h)
      /\ \A c \in Range(LegalPlays) :
           \A hands \in {Hands(Append(series, c), q)} :
             /\ DistIsOfTheHands(Append(series, c), q, hands)
             /\ \A sc \in {sc \in Scores : Close(sc)} :
                  WinIsOfTheHands(series, c, q, hands, sc[1], sc[2], meDealer)
      /\ \A sc \in {sc \in Scores : Close(sc)} :
           PegOutIsFirst(series, LegalPlays, q, sc[1], sc[2], meDealer)

-----------------------------------------------------------------------------
(* The bots' discards.                                                     *)

(***************************************************************************)
(* One card of each two ranks, of one suit or of two, stands for every two *)
(* cards in the crib tables; and the table that models the opponent's      *)
(* throw is the other one when every throw is as likely.                   *)
(***************************************************************************)
CribTablesAgree ==
  Cardinality(taken) = 2 /\ taken \subseteq Deck =>
    LET exact == ExpectedCrib(taken)
        even  == WeightedCrib(taken, [r \in Rank |-> 1])
    IN  /\ exact.sum = CribEV(taken) /\ exact.dist = CribScoreDist(taken)
        /\ Weight(exact.dist) = Ways
        /\ even = [sum |-> exact.sum, of |-> Ways]
        /\ \A myCrib \in BOOLEAN :
             OppCribEV(taken, myCrib) = WeightedCrib(taken, ThrowWeight(~myCrib))

\* A hold's histogram, and what is drawn from it, starter by starter.
HistogramIsOfTheStarters(split, keep, seen) ==
  \A totals \in {{<<s, HandTotal(keep, s, FALSE)>> : s \in Remaining(seen)}},
     dist \in {HandValueDist(keep, seen)} :
    LET upside == HandUpside(dist, Starters)
        howMany(S) == Cardinality({t \in totals : t[2] \in S})
    IN  /\ dist \in [Points -> 0..Starters]
        /\ Weight(dist) = Starters
        /\ ExpectedHandValue(keep, seen) = split.eHand
        /\ MapThenSumSet(LAMBDA v : v * dist[v], Points) = split.eHand
        /\ upside.ceiling = split.ceil
        /\ upside.pGE12 = howMany(BigHandThreshold..BestHand)
        /\ 10 * howMany(0..upside.p90) >= 9 * Starters
        /\ 10 * howMany(0..(upside.p90 - 1)) < 9 * Starters
        /\ \A t \in totals : split.show <= t[2]

\* The orders the six cards of a deal are looked at in: two of them.
Orders(cards) == LET h == SetToSeq(cards) IN {h, Reverse(h)}

(***************************************************************************)
(* The ladder's third rung, which takes a maximum, and the bot, which      *)
(* sorts, throw the same cards whatever ties there are; and the histogram  *)
(* of a hold, its mean, its best case, its tail and its percentile are of  *)
(* the same starters.                                                      *)
(***************************************************************************)
HoldsAgree ==
  Cardinality(taken) = 6 =>
    /\ \A h \in Orders(taken), dealer \in BOOLEAN :
         LET sp     == Splits(h, dealer)
             ranked == RankDiscards(h, dealer)
             even(two) == [sum |-> CribEV(two), of |-> Ways]
         IN  /\ ranked[1].pair = PickMaxScore(sp)
             /\ PickMaxOppCrib(sp, h, dealer, even) = PickMaxScore(sp)
             /\ {r.pair : r \in Range(ranked)} = DiscardPairs
    /\ LET h == SetToSeq(taken)
           sp == Splits(h, TRUE)
       IN  /\ PickMaxTail(h, sp, 0) = PickMaxEHand(sp)
           /\ \A a \in sp : HistogramIsOfTheStarters(a, Keep(h, a.pair), taken)

(***************************************************************************)
(* The objective turns from points to the chance to win at the first       *)
(* scores an outcome of the deal can end the game from, not one earlier;   *)
(* and the table of those chances is the same whether the order of the     *)
(* points is looked at or, where not both are in reach, is not.            *)
(***************************************************************************)
ReachIsRight ==
  at # Nowhere => \A dealer \in BOOLEAN :
    /\ FarIsOutOfReach(at[1], at[2], dealer)
    /\ TableEntry(at[1], at[2]) = FromSequences(at[1], at[2])

(***************************************************************************)
(* The chance to win with a hold, which the code carries through the deal  *)
(* on a grid of gains, is what it is outcome by outcome, with the points   *)
(* falling in counting order; every outcome is decided or goes on; and the *)
(* holds are ranked by it exactly where an outcome can end the game.       *)
(***************************************************************************)
\* The scores at which every hold is rated: no walk at all, or a short one.
Walked(dealer) ==
  \/ FarFromEnd(at[1], at[2], dealer)
  \/ Close(at)

IsCounted(hold, dealer, my, opp) ==
  \A dist \in {HandValueDist(Keep(WalkedDeal, hold.pair), Dealt(WalkedDeal))},
     crib \in {CribScoreDist(Thrown(WalkedDeal, hold.pair))} :
    /\ dist \in [Points -> Nat]
    /\ hold.win = WinByOutcomes(dist, crib, dealer, my, opp)
    /\ LET walk == Walk(dist, crib, dealer, my, opp)
       IN  walk.win + walk.loss + Weight(walk.alive) = walk.all

DealIsWalked ==
  at # Nowhere => \A dealer \in {d \in BOOLEAN : Walked(d)} :
    \A answer \in {DiscardEval(WalkedDeal, dealer, at[1], at[2])},
       places \in {RankDiscards(WalkedDeal, dealer)} :
      LET hold(n) == answer.holds[n].hold
          place(n) == CHOOSE m \in 1..15 : places[m].pair = hold(n).pair
          endgame == SomebodyCan(at[1], at[2], dealer)
      IN  /\ EvalAccepted(WalkedDeal, at[1], at[2])
          /\ \E s \in answer.situation : s.endgame <=> endgame
          /\ \A n \in 1..15 :
               IF endgame
                 THEN /\ n \in Counted => IsCounted(hold(n), dealer, at[1], at[2])
                      /\ n > 1 => \/ hold(n - 1).win > hold(n).win
                                  \/ /\ hold(n - 1).win = hold(n).win
                                     /\ place(n - 1) < place(n)
                 ELSE hold(n) = places[n]

\* The floor of the ladder draws two cards without replacement: every throw
\* comes out in two ways.
ThrowsAreEven ==
  \A p \in DiscardPairs :
    Cardinality({d \in (1..6) \X (1..5) : RandomThrow(d[1], d[2]) = p}) = 2

(***************************************************************************)
(* The discards of the bots, of the ladder they are measured with and of   *)
(* the calculators all follow from the same counts.                        *)
(***************************************************************************)
DiscardsAgree ==
  CribTablesAgree /\ HoldsAgree /\ ThrowsAreEven /\ ReachIsRight /\ DealIsWalked

-----------------------------------------------------------------------------
C(r, s) == [rank |-> r, suit |-> s]

\* Four of a kind, low cards around it for runs with duplicates, face cards
\* for fifteens and thirty-ones.
MCPlayPool ==
  {C(2, s) : s \in Suit} \cup {C(1, 1), C(3, 1), C(3, 2), C(4, 1), C(11, 1), C(12, 1)}

\* Two suits of the ranks around five for double runs and fifteens, a third
\* five, and face cards.
MCShowPool ==
  {C(r, 1) : r \in 3..6} \cup {C(r, 2) : r \in {3, 4, 5}}
    \cup {C(5, 3), C(10, 1), C(10, 2), C(11, 1), C(11, 2)}

\* Five ranks in two suits: runs, fifteens, flushes and nobs.
MCDeck == {C(r, s) : r \in {3, 4, 5, 10, 11}, s \in 1..2}

MCDealPool == {C(r, s) : r \in {3, 5, 10}, s \in 1..2} \cup {C(4, 1), C(11, 1)}

MCWalkedDeal == <<C(5, 1), C(11, 2), C(3, 1), C(4, 2), C(5, 2), C(10, 1)>>

MCMine == <<C(4, 1), C(12, 1), C(2, 1), C(1, 1)>>

MCOthers == {C(2, 2), C(3, 1), C(5, 1), C(11, 1)}

\* Weights so uneven that for a hand of three a second card becomes certain
\* only once the first has; and for the other role cards that are never kept.
MCKeepProb ==
  [role \in BOOLEAN |->
     [r \in Rank |-> IF role THEN IF r \in {1, 2} THEN 0 ELSE 1
                     ELSE CASE r < 3 -> 1 [] r \in {3, 4} -> 2 [] r = 5 -> 5 [] OTHER -> 9]]

\* More for the player ahead, less for the one behind, never all or nothing.
MCWinTable ==
  [d \in 0..120 |-> [p \in 0..120 |->
     CASE d > p + 4 -> 4 [] d > p /\ d <= p + 4 -> 3 [] p > d + 4 -> 1 [] OTHER -> 2]]

MCPegJoint ==
  {[d |-> 1, p |-> 0, w |-> 2], [d |-> 2, p |-> 3, w |-> 1], [d |-> 0, p |-> 2, w |-> 1]}

MCHeelsDist == 0 :> 3 @@ 2 :> 1

MCOppHandDist ==
  [dealer \in BOOLEAN |-> [s \in Points |-> CASE s \in {0, 6} -> 1
                                              [] s = 2 -> IF dealer THEN 2 ELSE 1
                                              [] OTHER -> 0]]

\* The two take turns at pegging, and the one that does not deal counts first.
MCDeals ==
  {[gains |-> <<Gain(FALSE, 1), Gain(TRUE, 2), Gain(FALSE, 4), Gain(TRUE, 2)>>, weight |-> 2],
   [gains |-> <<Gain(TRUE, 2), Gain(TRUE, 1), Gain(TRUE, 6)>>, weight |-> 1],
   [gains |-> <<Gain(FALSE, 2), Gain(FALSE, 6), Gain(TRUE, 1)>>, weight |-> 1]}

\* Close, with the one, the other or both able to go out at once, at the edge
\* of either's reach, and far from it.
MCScores ==
  {<<120, 113>>, <<112, 120>>, <<116, 117>>, <<119, 119>>, <<118, 110>>, <<60, 61>>,
   <<90, 60>>, <<89, 60>>, <<89, 59>>, <<88, 88>>, <<59, 89>>, <<58, 89>>}
=============================================================================

---------------------------- MODULE CribbageGame ----------------------------
(***************************************************************************)
(* internal/game: the two-player rules engine.                             *)
(*                                                                         *)
(* A command (Discard or Play) is one step: Apply validates it, and emits  *)
(* every event that follows from it without a further decision - the       *)
(* starter cut, forced passes, the go or last-card point, the end of a     *)
(* series, the whole show and the deal of the next hand.  A rejected       *)
(* command changes nothing and is not a step.  The events of the last      *)
(* command are in out; CribbageHistory keeps them as the log.              *)
(*                                                                         *)
(* The deck is an input: Decks holds the shuffles the source may return,   *)
(* and of a shuffle only the first thirteen cards are ever looked at.      *)
(***************************************************************************)
EXTENDS Pegging, HandScore

CONSTANTS Target, \* the winning score; 121 unless the options say otherwise
          Decks,  \* the shuffles the deck source may return
          Cuts,   \* the pairs of cards the opening cut may turn up
          Starts, \* the preset starts (Options.Start): scores and dealer
          Throws  \* the pairs of cards a player may try to send to the crib

ASSUME TargetAssumption == Target \in Nat \ {0}

ASSUME DecksAssumption ==
  \A d \in Decks : /\ d \in [1..13 -> Card]
                   /\ \A i, j \in 1..13 : i # j => d[i] # d[j]

ASSUME CutsAssumption == \A c \in Cuts : c \in [Seat -> Card]

\* New panics on a preset score outside [0, target).
ASSUME StartsAssumption ==
  \A st \in Starts : /\ st.scores \in [Seat -> 0..(Target - 1)]
                     /\ st.dealer \in Seat

ASSUME ThrowsAssumption ==
  \A t \in Throws : t \subseteq Card /\ \E a, b \in Card : a # b /\ t = {a, b}

VARIABLES dealer,     \* the seat that deals this hand and owns the crib
          phase,      \* "discard", "play" or "complete"
          scores,     \* points per seat
          hands,      \* the cards a seat still holds
          played,     \* the cards a seat has laid in this hand
          thrown,     \* what a seat sent to the crib, {} before it discards
          starter,    \* the cut card, NoCard before the cut
          rest,       \* the head of the undealt deck until it is cut
          pile,       \* the cards of the current series, oldest first
          count,      \* its running count
          gone,       \* whether a seat has passed in this series
          lastPlayer, \* who laid the last card (the dealer before the first)
          winner,     \* NoSeat until the game is won
          out         \* the events of the last command

vars == <<dealer, phase, scores, hands, played, thrown, starter, rest, pile,
          count, gone, lastPlayer, winner, out>>

NoSeat == -1
NoCard == [rank |-> 0, suit |-> 0]
Empty == [s \in Seat |-> {}]
NoneGone == [s \in Seat |-> FALSE]

-----------------------------------------------------------------------------
(* Events, with the data the reducer or a reader of the log uses.          *)

CutForDeal(dl)       == [type |-> "cut_for_deal", dealer |-> dl]
Handicap(sc)         == [type |-> "handicap", scores |-> sc]
HandDealt(dl, hs)    == [type |-> "hand_dealt", dealer |-> dl, hands |-> hs]
DiscardedBy(s, two)  == [type |-> "discarded", seat |-> s, cards |-> two]
StarterCut(c, heels) == [type |-> "starter_cut", card |-> c, points |-> heels]
CardPlayed(s, c, p)  == [type |-> "card_played", seat |-> s, card |-> c, points |-> p]
Pass(s)              == [type |-> "pass", seat |-> s]
GoAwarded(s)         == [type |-> "go_awarded", seat |-> s, points |-> 1]
SeriesReset(l)       == [type |-> "series_reset", leader |-> l]
HandShown(s, cs, p)  == [type |-> "hand_shown", seat |-> s, cards |-> cs, points |-> p]
CribShown(cs, p)     == [type |-> "crib_shown", cards |-> cs, points |-> p]
GameWon(s)           == [type |-> "game_won", seat |-> s]

ShowNotCounted(s, cs, isCrib) ==
  [type |-> "show_not_counted", seat |-> s, cards |-> cs, isCrib |-> isCrib]

-----------------------------------------------------------------------------
(* Helpers.                                                                *)

\* (Mutated form: the score may pass the target.)
AddPointsUncapped(cap, sc, s, pts) == [sc EXCEPT ![s] = @ + pts]

\* An award stops at the target; a fold without a target (cap 0) does not stop.
AddPoints(cap, sc, s, pts) ==
  [sc EXCEPT ![s] = IF cap > 0 /\ @ + pts > cap THEN cap ELSE @ + pts]

Won(sc, s) == sc[s] >= Target

Crib == thrown[0] \cup thrown[1]

Discarded(s) == thrown[s] # {}

\* (Mutated form: the dealer counts first.)
PoneIsDealer == dealer

\* The non-dealer: leads the play, counts first and deals next.
Pone == Other(dealer)

\* Whether a card keeps the count within thirty-one.
Fits(c, n) == n + Pip(c) <= 31

HasPlay(cards, n) == \E c \in cards : Fits(c, n)

CanPlay(s) == HasPlay(hands[s], count)

\* The seat awaiting a play.
Turn == IF ~gone[Other(lastPlayer)] /\ CanPlay(Other(lastPlayer))
          THEN Other(lastPlayer)
          ELSE lastPlayer

LegalPlays(s) == {c \in hands[s] : Fits(c, count)}

\* The other seat leads the next series, unless it has run out of cards.
LeaderAfter(hs, last) == IF hs[Other(last)] = {} THEN last ELSE Other(last)

\* Six cards each, the non-dealer first.
DealtHands(deck, dl) ==
  [s \in Seat |-> IF s = dl THEN {deck[2 * i] : i \in 1..6}
                            ELSE {deck[2 * i - 1] : i \in 1..6}]

LowerCut(cut) == IF cut[0].rank > cut[1].rank THEN 1 ELSE 0

-----------------------------------------------------------------------------
(* A new game: the opening cut, or a preset start, and the first hand.     *)

\* Tied cuts are cut again.
Openings ==
  {[dealer |-> LowerCut(cut), scores |-> [s \in Seat |-> 0],
    event |-> CutForDeal(LowerCut(cut))] :
       cut \in {c \in Cuts : c[0].rank # c[1].rank}}
  \cup
  {[dealer |-> st.dealer, scores |-> st.scores, event |-> Handicap(st.scores)] :
       st \in Starts}

Init ==
  \E open \in Openings, deck \in Decks :
    /\ dealer = open.dealer
    /\ phase = "discard"
    /\ scores = open.scores
    /\ hands = DealtHands(deck, open.dealer)
    /\ played = Empty
    /\ thrown = Empty
    /\ starter = NoCard
    /\ rest = deck[13]
    /\ pile = <<>>
    /\ count = 0
    /\ gone = NoneGone
    /\ lastPlayer = open.dealer
    /\ winner = NoSeat
    /\ out = <<open.event, HandDealt(open.dealer, DealtHands(deck, open.dealer))>>

\* The next hand, dealt by the other seat.
DealHand(dl, events) ==
  \E deck \in Decks :
    /\ dealer' = dl
    /\ phase' = "discard"
    /\ hands' = DealtHands(deck, dl)
    /\ played' = Empty
    /\ thrown' = Empty
    /\ starter' = NoCard
    /\ rest' = deck[13]
    /\ pile' = <<>>
    /\ count' = 0
    /\ gone' = NoneGone
    /\ lastPlayer' = dl
    /\ out' = Append(events, HandDealt(dl, DealtHands(deck, dl)))

-----------------------------------------------------------------------------
(* How a command ends: with the game won, with reveals after it if the     *)
(* show was cut short, or with the game going on.                          *)

WinsWith(s, sc, events, reveals) ==
  /\ Won(sc, s)
  /\ scores' = sc
  /\ winner' = s
  /\ phase' = "complete"
  /\ out' = Append(events, GameWon(s)) \o reveals

GoesOn(s, sc) ==
  /\ ~Won(sc, s)
  /\ scores' = sc
  /\ UNCHANGED winner

-----------------------------------------------------------------------------
(* Discard: two cards to the crib; the second throw cuts the starter.      *)

CutStarter(events) ==
  LET heels == IF rest.rank = Jack THEN 2 ELSE 0
      sc    == AddPoints(Target, scores, dealer, heels)
      cut   == Append(events, StarterCut(rest, heels))
  IN  /\ starter' = rest
      /\ rest' = NoCard
      /\ \/ WinsWith(dealer, sc, cut, <<>>)
         \/ GoesOn(dealer, sc) /\ phase' = "play" /\ out' = cut

Discard(s, two) ==
  /\ phase = "discard"
  /\ ~Discarded(s)
  /\ two \subseteq hands[s]
  /\ hands' = [hands EXCEPT ![s] = @ \ two]
  /\ thrown' = [thrown EXCEPT ![s] = two]
  /\ UNCHANGED <<dealer, played, pile, count, gone, lastPlayer>>
  /\ \/ /\ ~Discarded(Other(s))
        /\ out' = <<DiscardedBy(s, two)>>
        /\ UNCHANGED <<phase, scores, starter, rest, winner>>
     \/ /\ Discarded(Other(s))
        /\ CutStarter(<<DiscardedBy(s, two)>>)

-----------------------------------------------------------------------------
(* Play: the state just after the card is down, and what can follow.       *)

HandsAfter(s, c) == [hands EXCEPT ![s] = @ \ {c}]
PlayedAfter(s, c) == [played EXCEPT ![s] = @ \cup {c}]

CountAfter(c) == count + Pip(c)
Pegged(s, c) == AddPoints(Target, scores, s, Score(pile, c))
Down(s, c) == <<CardPlayed(s, c, Score(pile, c))>>

AllDown(s, c) == \A t \in Seat : HandsAfter(s, c)[t] = {}

\* (Mutated form: holding a card is enough to be on turn.)
OpponentHasCard(s, c) == ~gone[Other(s)] /\ hands[Other(s)] # {}

\* (Mutated form: a card that makes thirty-one does not count as playable.)
OpponentNextShort(s, c) ==
  ~gone[Other(s)] /\ HasPlay(hands[Other(s)], CountAfter(c) + 1)

\* The opponent's turn comes next: it has not passed and has a card that fits.
OpponentNext(s, c) ==
  ~gone[Other(s)] /\ HasPlay(hands[Other(s)], CountAfter(c))

SamePlayerNext(s, c) == HasPlay(HandsAfter(s, c)[s], CountAfter(c))

\* The forced pass of an opponent who had not passed yet.
PassOf(s) == IF gone[s] THEN <<>> ELSE <<Pass(s)>>

LegalPlay(s, c) ==
  /\ phase = "play"
  /\ s = Turn
  /\ c \in hands[s]
  /\ Fits(c, count)

SeriesGoesOn(s, c) ==
  /\ hands' = HandsAfter(s, c)
  /\ played' = PlayedAfter(s, c)
  /\ pile' = Append(pile, c)
  /\ count' = CountAfter(c)
  /\ lastPlayer' = s
  /\ UNCHANGED <<dealer, thrown, starter, rest>>

SeriesEnds(s, c) ==
  /\ hands' = HandsAfter(s, c)
  /\ played' = PlayedAfter(s, c)
  /\ pile' = <<>>
  /\ count' = 0
  /\ gone' = NoneGone
  /\ lastPlayer' = Other(LeaderAfter(HandsAfter(s, c), s))
  /\ UNCHANGED <<dealer, thrown, starter, rest, phase>>

ResetEvent(s, c) == SeriesReset(LeaderAfter(HandsAfter(s, c), s))

\* The card itself reaches the target.
PlayWins(s, c) ==
  /\ LegalPlay(s, c)
  /\ WinsWith(s, Pegged(s, c), Down(s, c), <<>>)
  /\ SeriesGoesOn(s, c)
  /\ UNCHANGED gone

PlayThenOpponent(s, c) ==
  /\ LegalPlay(s, c)
  /\ GoesOn(s, Pegged(s, c))
  /\ CountAfter(c) # 31
  /\ OpponentNext(s, c)
  /\ SeriesGoesOn(s, c)
  /\ out' = Down(s, c)
  /\ UNCHANGED <<phase, gone>>

PlayThenSamePlayer(s, c) ==
  /\ LegalPlay(s, c)
  /\ GoesOn(s, Pegged(s, c))
  /\ CountAfter(c) # 31
  /\ ~OpponentNext(s, c)
  /\ SamePlayerNext(s, c)
  /\ SeriesGoesOn(s, c)
  /\ gone' = [gone EXCEPT ![Other(s)] = TRUE]
  /\ out' = Down(s, c) \o PassOf(Other(s))
  /\ UNCHANGED phase

PlayThirtyOne(s, c) ==
  /\ LegalPlay(s, c)
  /\ ~AllDown(s, c)
  /\ CountAfter(c) = 31
  /\ GoesOn(s, Pegged(s, c))
  /\ SeriesEnds(s, c)
  /\ out' = Append(Down(s, c), ResetEvent(s, c))

\* Neither seat can follow: one point for the go, and a new series.
PlayGo(s, c) ==
  /\ LegalPlay(s, c)
  /\ ~Won(Pegged(s, c), s)
  /\ ~AllDown(s, c)
  /\ CountAfter(c) # 31
  /\ ~OpponentNext(s, c)
  /\ ~SamePlayerNext(s, c)
  /\ LET sc == AddPoints(Target, Pegged(s, c), s, 1)
         go == Append(Down(s, c) \o PassOf(Other(s)), GoAwarded(s))
     IN  \/ /\ WinsWith(s, sc, go, <<>>)
            /\ SeriesGoesOn(s, c)
            /\ gone' = [gone EXCEPT ![Other(s)] = TRUE]
         \/ /\ GoesOn(s, sc)
            /\ SeriesEnds(s, c)
            /\ out' = Append(go, ResetEvent(s, c))

-----------------------------------------------------------------------------
(* The last card of the hand, and the show: the non-dealer's hand, the     *)
(* dealer's hand, the crib.  Whoever reaches the target first ends it, and *)
(* what is left is revealed without being counted.                         *)

LastCardScores(s, c) ==
  IF CountAfter(c) = 31 THEN Pegged(s, c)
                        ELSE AddPoints(Target, Pegged(s, c), s, 1)

\* (Mutated form: the last card is paid its go whatever the count.)
LastCardPaidTwice(s, c) == Append(Down(s, c), GoAwarded(s))

LastCardEvents(s, c) ==
  IF CountAfter(c) = 31 THEN Down(s, c) ELSE Append(Down(s, c), GoAwarded(s))

LastCard(s, c) ==
  /\ LegalPlay(s, c)
  /\ ~Won(Pegged(s, c), s)
  /\ AllDown(s, c)

LastCardWins(s, c) ==
  /\ LastCard(s, c)
  /\ WinsWith(s, LastCardScores(s, c), LastCardEvents(s, c), <<>>)
  /\ SeriesGoesOn(s, c)
  /\ UNCHANGED gone

ShowPoints(s, c) ==
  [pone   |-> HandScore(PlayedAfter(s, c)[Pone], starter, FALSE),
   dealer |-> HandScore(PlayedAfter(s, c)[dealer], starter, FALSE),
   crib   |-> HandScore(Crib, starter, TRUE)]

ResolveShow(s, c, points) ==
  LET laid   == PlayedAfter(s, c)
      sc1    == AddPoints(Target, LastCardScores(s, c), Pone, points.pone)
      sc2    == AddPoints(Target, sc1, dealer, points.dealer)
      sc3    == AddPoints(Target, sc2, dealer, points.crib)
      ev1    == Append(LastCardEvents(s, c), HandShown(Pone, laid[Pone], points.pone))
      ev2    == Append(ev1, HandShown(dealer, laid[dealer], points.dealer))
      ev3    == Append(ev2, CribShown(Crib, points.crib))
      noCrib == ShowNotCounted(dealer, Crib, TRUE)
  IN  \/ /\ WinsWith(Pone, sc1, ev1,
                   <<ShowNotCounted(dealer, laid[dealer], FALSE), noCrib>>)
         /\ SeriesGoesOn(s, c)
         /\ UNCHANGED gone
      \/ /\ ~Won(sc1, Pone)
         /\ WinsWith(dealer, sc2, ev2, <<noCrib>>)
         /\ SeriesGoesOn(s, c)
         /\ UNCHANGED gone
      \/ /\ ~Won(sc1, Pone)
         /\ ~Won(sc2, dealer)
         /\ WinsWith(dealer, sc3, ev3, <<>>)
         /\ SeriesGoesOn(s, c)
         /\ UNCHANGED gone
      \/ /\ ~Won(sc1, Pone)
         /\ ~Won(sc2, dealer)
         /\ GoesOn(dealer, sc3)
         /\ DealHand(Pone, ev3)

Show(s, c) ==
  /\ LastCard(s, c)
  /\ ~Won(LastCardScores(s, c), s)
  /\ \E points \in {ShowPoints(s, c)} : ResolveShow(s, c, points)

Play(s, c) ==
  \/ PlayWins(s, c)
  \/ PlayThenOpponent(s, c)
  \/ PlayThenSamePlayer(s, c)
  \/ PlayThirtyOne(s, c)
  \/ PlayGo(s, c)
  \/ LastCardWins(s, c)
  \/ Show(s, c)

-----------------------------------------------------------------------------
\* A finished game rejects every further command (ErrGameOver).
RejectGameOver == winner # NoSeat /\ UNCHANGED vars

Next ==
  \/ \E s \in Seat, two \in Throws : Discard(s, two)
  \/ \E s \in Seat : \E c \in hands[s] : Play(s, c)
  \/ RejectGameOver

Spec == Init /\ [][Next]_vars

(***************************************************************************)
(* The engine itself never moves: a command comes from a player.  The      *)
(* liveness property assumes that someone keeps sending a legal one, which *)
(* is what the bots do (driveBots loops until it is not their turn) and    *)
(* what a game that is played to its end needs of its players.             *)
(***************************************************************************)
PlayersKeepPlaying == WF_vars(Next)
FairSpec == Spec /\ PlayersKeepPlaying
-----------------------------------------------------------------------------
(* Properties.                                                             *)

TypeOK ==
  /\ dealer \in Seat
  /\ phase \in {"discard", "play", "complete"}
  /\ scores \in [Seat -> 0..Target]
  /\ hands \in [Seat -> SUBSET Card]
  /\ played \in [Seat -> SUBSET Card]
  /\ thrown \in [Seat -> SUBSET Card]
  /\ starter \in Card \cup {NoCard}
  /\ rest \in Card \cup {NoCard}
  /\ pile \in Seq(Card)
  /\ count \in 0..31
  /\ gone \in [Seat -> BOOLEAN]
  /\ lastPlayer \in Seat
  /\ winner \in Seat \cup {NoSeat}

(***************************************************************************)
(* turn() promises a seat that can legally play at every resting state:    *)
(* however passes, gos, thirty-ones and empty hands interleave, the seat   *)
(* on turn holds a card that fits, so the play never gets stuck (and       *)
(* driveBots, which loops while it is a bot's turn, always makes progress).*)
(***************************************************************************)
TurnCanPlay == phase = "play" => CanPlay(Turn)

(***************************************************************************)
(* mustHandScore panics unless it is given four cards and a starter, no    *)
(* two of them the same: every hand and crib the show counts is such,      *)
(* whatever was dealt and thrown and in whichever order the cards were     *)
(* laid.                                                                   *)
(***************************************************************************)
CountedCards(e) == e.type \in {"hand_shown", "crib_shown"}

ScorersGetFiveCards ==
  [][\A i \in DOMAIN out' :
       CountedCards(out'[i]) => /\ IsFiniteSet(out'[i].cards)
                                /\ Cardinality(out'[i].cards) = 4
                                /\ starter \in Card \ out'[i].cards]_vars

(***************************************************************************)
(* A pass is for good: a seat that has passed has no playable card for the *)
(* rest of the series, so turn() skipping it never skips a legal play.     *)
(***************************************************************************)
PassedSeatIsStuck == phase = "play" => \A s \in Seat : gone[s] => ~CanPlay(s)

(***************************************************************************)
(* Both together: whose turn it is, is never wrong.  turn() names a seat   *)
(* that can go, and the one it has skipped could not have.                 *)
(***************************************************************************)
PlayNeverSticks == TurnCanPlay /\ PassedSeatIsStuck

(***************************************************************************)
(* The winner is the one seat whose score is the target, exactly; until    *)
(* then nobody is there.  (A stored final score relies on it.)             *)
(***************************************************************************)
OnlyTheWinnerIsAtTarget ==
  /\ \A s \in Seat : scores[s] = Target <=> winner = s
  /\ winner # NoSeat <=> phase = "complete"

(***************************************************************************)
(* Every series, one of a single card included, pays the seat that laid    *)
(* its last card once: two points of the card that makes thirty-one, or    *)
(* one point for the go or the last card as soon as neither seat holds a   *)
(* card that fits, unless the card has won already.  Nothing is paid while *)
(* a card still fits, and never both.  (That what the log pays reaches the *)
(* score is another property's: CribbageHistory.)                          *)
(***************************************************************************)
SeriesOver(s, c) == \A t \in Seat : ~HasPlay(HandsAfter(s, c)[t], CountAfter(c))
Gos(events) == {i \in DOMAIN events : events[i].type = "go_awarded"}

PaidByTheCard(c) ==
  Fifteen(Append(pile, c)) + PairPoints(Append(pile, c)) + RunPoints(Append(pile, c))
    + (IF CountAfter(c) = 31 THEN 2 ELSE 0)

PaysForTheLast(s, c, events) ==
  IF /\ SeriesOver(s, c) /\ CountAfter(c) # 31
     /\ scores[s] + PaidByTheCard(c) < Target
    THEN \E i \in Gos(events) :
           Gos(events) = {i} /\ events[i].seat = s /\ events[i].points = 1
    ELSE Gos(events) = {}

SeriesPaysItsLastPlayer ==
  [][out'[1].type = "card_played" =>
       /\ out'[1].points = PaidByTheCard(out'[1].card)
       /\ PaysForTheLast(out'[1].seat, out'[1].card, out')]_vars

(***************************************************************************)
(* The non-dealer counts first: when its hand takes it to the target, it   *)
(* wins, however much the dealer's hand and crib would count; and these    *)
(* are counted only after a non-dealer's hand that did not win.            *)
(***************************************************************************)
CountedForDealer(e) ==
  \/ e.type = "crib_shown"
  \/ e.type = "hand_shown" /\ e.seat = dealer

CountedForPone(e) == e.type = "hand_shown" /\ e.seat = Other(dealer)

PoneCountsFirst ==
  [][\A i \in DOMAIN out' :
       /\ CountedForPone(out'[i]) /\ scores[Other(dealer)] + out'[i].points >= Target
            => winner' = Other(dealer)
       /\ CountedForDealer(out'[i])
            => /\ winner' # Other(dealer)
               /\ \E j \in 1..(i - 1) : CountedForPone(out'[j])]_vars

(***************************************************************************)
(* A game that is played on ends: every hand pays somebody, so one seat    *)
(* reaches the target.                                                     *)
(***************************************************************************)
GameEnds == <>(winner # NoSeat)
-----------------------------------------------------------------------------
(* The inductive invariant behind the theorems of CribbageGameProofs.      *)

\* Where the cards are in each phase, and that the seats share none.
CardInv ==
  /\ \A s \in Seat :
       /\ IsFiniteSet(hands[s]) /\ IsFiniteSet(played[s]) /\ IsFiniteSet(thrown[s])
       /\ hands[s] \cap thrown[s] = {}
       /\ played[s] \cap (hands[s] \cup thrown[s]) = {}
       /\ thrown[s] # {} => Cardinality(thrown[s]) = 2
       /\ Cardinality(hands[s]) + Cardinality(played[s]) + Cardinality(thrown[s]) = 6
  /\ (hands[0] \cup played[0] \cup thrown[0])
       \cap (hands[1] \cup played[1] \cup thrown[1]) = {}
  /\ phase = "discard" => /\ rest \in Card
                          /\ \A s \in Seat : played[s] = {}
                          /\ \E s \in Seat : thrown[s] = {}
  /\ phase = "play" => /\ starter \in Card
                       /\ \A s \in Seat : thrown[s] # {}

\* The play: who is on turn can go, who has passed cannot.
PlayInv ==
  /\ phase = "discard" => /\ pile = <<>> /\ count = 0 /\ gone = NoneGone
                          /\ lastPlayer = dealer
  /\ TurnCanPlay
  /\ PassedSeatIsStuck

ScoreInv == OnlyTheWinnerIsAtTarget

GameInv == TypeOK /\ CardInv /\ PlayInv /\ ScoreInv
=============================================================================

-------------------------- MODULE CribbageHistory --------------------------
(***************************************************************************)
(* The event log of a game and what is computed from it.                   *)
(*                                                                         *)
(* CribbageGame says what a command does to the game; here the events it   *)
(* returns are appended to the log, and Reduce is the engine's reducer,    *)
(* which Restore (a game loaded from the store), ReconstructPlays (the     *)
(* post-game analysis) and gamePoints (the scoring statistics) rely on to  *)
(* tell the same story again.  decided is what a player really saw at each *)
(* play, noted when it was made; the code keeps no such record.            *)
(***************************************************************************)
EXTENDS CribbageGame

VARIABLES log,    \* every event so far; its length is the game's version
          decided \* the view each card was played from

historyVars == <<vars, log, decided>>

-----------------------------------------------------------------------------
(* The reducer.                                                            *)

\* A Game value before its first event.
Blank ==
  [dealer |-> 0, phase |-> "discard", scores |-> [s \in Seat |-> 0],
   hands |-> Empty, played |-> Empty, thrown |-> Empty, starter |-> NoCard,
   pile |-> <<>>, count |-> 0, gone |-> NoneGone, lastPlayer |-> 0,
   winner |-> NoSeat]

\* (Mutated form: a new series forgets to clear the passes.)
ResetSeriesKeepingGone(g, leader) ==
  [g EXCEPT !.pile = <<>>, !.count = 0, !.lastPlayer = Other(leader)]

ResetSeries(g, leader) ==
  [g EXCEPT !.pile = <<>>, !.count = 0, !.gone = NoneGone,
            !.lastPlayer = Other(leader)]

LayCard(g, e) ==
  [g EXCEPT !.hands[e.seat] = @ \ {e.card}, !.played[e.seat] = @ \cup {e.card},
            !.pile = Append(@, e.card), !.count = @ + Pip(e.card),
            !.lastPlayer = e.seat]

Scored(cap, g, s, pts) == [g EXCEPT !.scores = AddPoints(cap, @, s, pts)]

Reduce(cap, g, e) ==
  CASE e.type = "cut_for_deal" -> [g EXCEPT !.dealer = e.dealer]
    [] e.type = "handicap"     -> [g EXCEPT !.scores = e.scores]
    [] e.type = "hand_dealt"   ->
         [Blank EXCEPT !.dealer = e.dealer, !.hands = e.hands, !.scores = g.scores,
                       !.lastPlayer = e.dealer, !.winner = g.winner]
    [] e.type = "discarded"    -> [g EXCEPT !.hands[e.seat] = @ \ e.cards,
                                            !.thrown[e.seat] = e.cards]
    [] e.type = "starter_cut"  -> [Scored(cap, g, g.dealer, e.points) EXCEPT
                                     !.starter = e.card, !.phase = "play"]
    [] e.type = "card_played"  -> Scored(cap, LayCard(g, e), e.seat, e.points)
    [] e.type = "pass"         -> [g EXCEPT !.gone[e.seat] = TRUE]
    [] e.type = "go_awarded"   -> Scored(cap, g, e.seat, e.points)
    [] e.type = "series_reset" -> ResetSeries(g, e.leader)
    [] e.type = "hand_shown"   -> Scored(cap, g, e.seat, e.points)
    [] e.type = "crib_shown"   -> Scored(cap, g, g.dealer, e.points)
    [] e.type = "game_won"     -> [g EXCEPT !.winner = e.seat, !.phase = "complete"]
    [] OTHER                   -> g

\* The game after the events, one at a time from the first.
Folded(cap, events) ==
  LET game[n \in 0..Len(events)] ==
        IF n = 0 THEN Blank ELSE Reduce(cap, game[n - 1], events[n])
  IN  game[Len(events)]

\* Restore: the fold of the stored log under the stored target; the undealt
\* cards come from the snapshot, the deck source is a new one.
Restored(events) == Folded(Target, events)

-----------------------------------------------------------------------------
(* What a seat sees.                                                       *)

TurnIn(g) ==
  LET opp == Other(g.lastPlayer)
  IN  IF ~g.gone[opp] /\ HasPlay(g.hands[opp], g.count) THEN opp ELSE g.lastPlayer

View(g, version, s) ==
  LET toPlay == IF g.phase = "play" THEN TurnIn(g) ELSE NoSeat
  IN  [you            |-> s,
       dealer         |-> g.dealer,
       phase          |-> g.phase,
       scores         |-> g.scores,
       yourHand       |-> g.hands[s],
       yourDiscards   |-> g.thrown[s],
       opponentCards  |-> Cardinality(g.hands[Other(s)]),
       cribCards      |-> Cardinality(g.thrown[0] \cup g.thrown[1]),
       starter        |-> g.starter,
       pile           |-> g.pile,
       yourPlayed     |-> g.played[s],
       opponentPlayed |-> g.played[Other(s)],
       count          |-> g.count,
       toPlay         |-> toPlay,
       legalPlays     |-> IF toPlay = s THEN {c \in g.hands[s] : Fits(c, g.count)} ELSE {},
       winner         |-> g.winner,
       version        |-> version]

\* The engine's own fields, as the record the reducer works on.
Live ==
  [dealer |-> dealer, phase |-> phase, scores |-> scores, hands |-> hands,
   played |-> played, thrown |-> thrown, starter |-> starter, pile |-> pile,
   count |-> count, gone |-> gone, lastPlayer |-> lastPlayer, winner |-> winner]

-----------------------------------------------------------------------------
(* Post-game readers of the log.                                           *)

DealsBefore(events, i) ==
  Cardinality({j \in 1..(i - 1) : events[j].type = "hand_dealt"})

Plays(events) == {i \in DOMAIN events : events[i].type = "card_played"}

\* ReconstructPlays folds without a target: awards are not capped.
Before(events, i) == Folded(0, SubSeq(events, 1, i - 1))

Decision(events, i) ==
  [deal   |-> DealsBefore(events, i) - 1,
   seat   |-> events[i].seat,
   view   |-> View(Before(events, i), i - 1, events[i].seat),
   played |-> events[i].card]

Reconstructed(events) == {Decision(events, i) : i \in Plays(events)}

\* checkDecision: the log is refused unless every play was legal where it stands.
LegalDecision(d) ==
  /\ d.view.phase = "play"
  /\ d.view.toPlay = d.seat
  /\ d.played \in d.view.legalPlays

\* (Mutated form: the crib is credited to the seat that did not deal.)
DidNotDeal(tally, s) == tally.dealer # s

\* The heels and the crib are the dealer's of the last deal.
OwnsTheCrib(tally, s) == tally.dealer = s

\* gamePoints: what a seat is credited with by one more event of the log.
Credited(tally, s, e) ==
  CASE e.type = "hand_dealt"
         -> [tally EXCEPT !.dealer = e.dealer]
    [] e.type = "starter_cut" /\ OwnsTheCrib(tally, s)
         -> [tally EXCEPT !.pegging = @ + e.points]
    [] e.type \in {"card_played", "go_awarded"} /\ e.seat = s
         -> [tally EXCEPT !.pegging = @ + e.points]
    [] e.type = "hand_shown" /\ e.seat = s
         -> [tally EXCEPT !.hand = @ + e.points]
    [] e.type = "crib_shown" /\ OwnsTheCrib(tally, s)
         -> [tally EXCEPT !.crib = @ + e.points]
    [] OTHER -> tally

NoPoints == [dealer |-> 0, pegging |-> 0, hand |-> 0, crib |-> 0]

GamePoints(events, s) ==
  LET tally[n \in 0..Len(events)] ==
        IF n = 0 THEN NoPoints ELSE Credited(tally[n - 1], s, events[n])
  IN  tally[Len(events)]

TotalPoints(events, s) ==
  LET p == GamePoints(events, s) IN p.pegging + p.hand + p.crib

-----------------------------------------------------------------------------
HistoryInit ==
  /\ Init
  /\ log = out
  /\ decided = {}

LoggedDiscard(s, two) ==
  /\ Discard(s, two)
  /\ log' = log \o out'
  /\ UNCHANGED decided

LoggedPlay(s, c) ==
  /\ Play(s, c)
  /\ log' = log \o out'
  /\ decided' = decided \cup
       {[deal |-> DealsBefore(log, Len(log) + 1) - 1, seat |-> s,
         view |-> View(Live, Len(log), s), played |-> c]}

HistoryNext ==
  \/ \E s \in Seat, two \in Throws : LoggedDiscard(s, two)
  \/ \E s \in Seat : \E c \in hands[s] : LoggedPlay(s, c)
  \/ RejectGameOver /\ UNCHANGED <<log, decided>>

HistorySpec == HistoryInit /\ [][HistoryNext]_historyVars

-----------------------------------------------------------------------------
(* Properties.                                                             *)

(***************************************************************************)
(* Replaying the log gives the live game at every moment, whatever the     *)
(* command that was last applied emitted: a game restored after a restart  *)
(* is in the state it was in, so each player sees the same view.           *)
(***************************************************************************)
RestoreIsLive == Restored(log) = Live

(***************************************************************************)
(* The post-game analysis folds the log without knowing the target and     *)
(* still finds, for every card played, exactly the view it was played      *)
(* from, and accepts every play: capping the winning award is the only     *)
(* difference, and no decision follows it.                                 *)
(***************************************************************************)
AnalysisSeesWhatThePlayerSaw ==
  winner # NoSeat =>
    /\ Reconstructed(log) = decided
    /\ \A d \in Reconstructed(log) : LegalDecision(d)

(***************************************************************************)
(* The statistics' three categories add up to the score a seat gained,     *)
(* except that the winner's last award is counted in full although only    *)
(* part of it may have been pegged.                                        *)
(***************************************************************************)
StatsAccountForTheScore ==
  winner # NoSeat =>
    \A s \in Seat :
      LET start == IF log[1].type = "handicap" THEN log[1].scores[s] ELSE 0
      IN  IF s = winner THEN start + TotalPoints(log, s) >= scores[s]
                        ELSE start + TotalPoints(log, s) = scores[s]
=============================================================================

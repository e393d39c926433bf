---------------------------- MODULE ReplayFrames ----------------------------
(***************************************************************************)
(* The replay of a finished game: the server's full-visibility projection  *)
(* of the log (wire.go, replay.go) and the page's own reducer, which folds *)
(* the projected events into the frames it steps through (replayFrames.js, *)
(* evaluateModel.js).  The reducer is the third of the code's folds of one *)
(* log, after the engine's and the analysis's, and shares nothing with     *)
(* them but the event names.                                               *)
(***************************************************************************)
EXTENDS CribbageHistory

\* The target the replay reports and the page clamps the pegs at: 121,
\* whatever the game's own target was.
CONSTANT ReplayTarget

-----------------------------------------------------------------------------
(* The server's projection.                                                *)

\* The count in a card_played event is the scorer's own, from the pile.
ScoredCount(events, i) == RunningCount(Append(Before(events, i).pile, events[i].card))

\* What an event travels as; a handicap has no name on the wire.
WireType(type) ==
  CASE type = "go_awarded"       -> "go"
    [] type = "show_not_counted" -> "show_uncounted"
    [] type = "handicap"         -> ""
    [] OTHER                     -> type

\* A card laid travels with the count it makes.
WithCount(d, n) ==
  [type |-> d.type, seat |-> d.seat, card |-> d.card, points |-> d.points, count |-> n]

ReplayEvent(events, i) ==
  LET e == events[i]
      d == [e EXCEPT !.type = WireType(@)]
  IN  IF e.type = "card_played" THEN WithCount(d, ScoredCount(events, i)) ELSE d

ReplayResponse(events) == [i \in DOMAIN events |-> ReplayEvent(events, i)]

-----------------------------------------------------------------------------
(* The page's reducer.                                                     *)

NoShow == [seat |-> NoSeat, isCrib |-> FALSE, total |-> 0]

FirstFrame ==
  [dealer |-> NoSeat, hand |-> 0, scores |-> [s \in Seat |-> 0], hands |-> Empty,
   crib |-> {}, starter |-> NoCard, played |-> [s \in Seat |-> <<>>],
   pile |-> <<>>, count |-> 0, phase |-> "start", show |-> NoShow]

Award(f, s, pts) ==
  [f EXCEPT !.scores[s] = IF @ + pts > ReplayTarget THEN ReplayTarget ELSE @ + pts]

DealFrame(f, d) ==
  [FirstFrame EXCEPT !.dealer = d.dealer, !.hand = f.hand + 1, !.hands = d.hands,
                     !.scores = f.scores, !.phase = "discard"]

DiscardFrame(f, d) ==
  [f EXCEPT !.hands[d.seat] = @ \ d.cards, !.crib = @ \cup d.cards, !.phase = "discard"]

\* (Mutated form: the pile is not added to.)
PlayFrameBesidePile(f, d) ==
  [Award(f, d.seat, d.points) EXCEPT
     !.hands[d.seat] = @ \ {d.card}, !.played[d.seat] = Append(@, d.card),
     !.pile = <<d.card>>, !.count = d.count, !.phase = "play"]

PlayFrame(f, d) ==
  [Award(f, d.seat, d.points) EXCEPT
     !.hands[d.seat] = @ \ {d.card}, !.played[d.seat] = Append(@, d.card),
     !.pile = Append(@, d.card), !.count = d.count, !.phase = "play"]

ShowFrame(f, s, isCrib, d) ==
  [Award(f, s, d.points) EXCEPT
     !.show = [seat |-> s, isCrib |-> isCrib, total |-> d.points], !.phase = "show"]

FrameAfter(f, d) ==
  CASE d.type = "cut_for_deal" -> [f EXCEPT !.dealer = d.dealer, !.phase = "cut"]
    [] d.type = "hand_dealt"   -> DealFrame(f, d)
    [] d.type = "discarded"    -> DiscardFrame(f, d)
    [] d.type = "starter_cut"  -> [Award(f, f.dealer, d.points) EXCEPT
                                     !.starter = d.card, !.phase = "play"]
    [] d.type = "card_played"  -> PlayFrame(f, d)
    [] d.type = "pass"         -> [f EXCEPT !.phase = "play"]
    [] d.type = "go"           -> [Award(f, d.seat, d.points) EXCEPT !.phase = "play"]
    [] d.type = "series_reset" -> [f EXCEPT !.count = 0, !.pile = <<>>, !.phase = "play"]
    [] d.type = "hand_shown"   -> ShowFrame(f, d.seat, FALSE, d)
    [] d.type = "crib_shown"   -> ShowFrame(f, f.dealer, TRUE, d)
    [] d.type = "game_won"     -> [f EXCEPT !.phase = "done"]

\* Any other type is passed over and makes no frame.
Framed(type) == type \notin {"", "show_uncounted"}

\* An event that makes a frame adds the table after it.
AddFrame(frames, d) ==
  IF Framed(d.type) THEN Append(frames, FrameAfter(frames[Len(frames)], d)) ELSE frames

\* One frame before the game, then one after each event that makes one.
BuildFrames(replay) ==
  LET frames[n \in 0..Len(replay)] ==
        IF n = 0 THEN <<FirstFrame>> ELSE AddFrame(frames[n - 1], replay[n])
  IN  frames[Len(replay)]

\* The first frame of each hand.
HandStarts(frames) ==
  {[hand |-> frames[i].hand, index |-> i] :
     i \in {j \in DOMAIN frames :
              frames[j].hand > 0 /\ (j = 1 \/ frames[j - 1].hand # frames[j].hand)}}

\* The frame the rail jumps to for a deal of the analysis, which counts from 0.
FrameIndexForDeal(starts, dealIdx) ==
  (CHOOSE st \in starts : st.hand = dealIdx + 1).index
=============================================================================

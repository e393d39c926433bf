------------------------------- MODULE Belief -------------------------------
(***************************************************************************)
(* internal/bot/eval, the calibrated opponent model (belief.go): which     *)
(* cards the seat on turn still thinks the opponent may hold.  The cards   *)
(* it sees and its own throw to the crib are out, and so is what an        *)
(* opponent's pass in the live series rules out.  Nobody records a pass    *)
(* for the bot: it is inferred from whose cards end the pile.              *)
(*                                                                         *)
(* The model is read off the engine's state the way View hands it to the   *)
(* seat s (view.go); how the cards left in the pool are weighted is in     *)
(* Replies.                                                                *)
(***************************************************************************)
EXTENDS CribbageGame

\* Everything but the seat's own hand, the cards played face up and the starter.
Unseen(s, c) ==
  /\ c \notin hands[s]
  /\ \A i \in DOMAIN pile : pile[i] # c
  /\ c \notin played[s]
  /\ c \notin played[Other(s)]
  /\ c # starter

\* The pool: what is unseen, without the seat's own throw, which it remembers.
InPool(s, c) == Unseen(s, c) /\ c \notin thrown[s]

\* The run of s's cards at the end of the pile starts at position i.
TrailStarts(s, i) ==
  /\ \A j \in i..Len(pile) : pile[j] \in played[s]
  /\ i > 1 => pile[i - 1] \notin played[s]

\* (Mutated form: the opponent is taken to have passed before that card.)
RuledOutEarly(s, c) ==
  \E i \in DOMAIN pile :
    TrailStarts(s, i) /\ Pip(c) <= 31 - RunningCount(SubSeq(pile, 1, i - 1))

\* The opponent passed right after the first of those cards, so it holds
\* nothing that would have fitted there.
RuledOut(s, c) ==
  \E i \in DOMAIN pile :
    TrailStarts(s, i) /\ Pip(c) <= 31 - RunningCount(SubSeq(pile, 1, i))

\* The cards left with a positive weight (keepProb is positive for every rank).
MayHold(s, c) == InPool(s, c) /\ ~RuledOut(s, c)

\* Both seats keep the same number of cards after the discard.
OppHandSize(s) ==
  Cardinality(hands[s]) + Cardinality(played[s]) - Cardinality(played[Other(s)])

(***************************************************************************)
(* What the bot excludes, the opponent does not hold: every card in the    *)
(* opponent's hand is a candidate of the seat on turn, however passes,     *)
(* series and empty hands have interleaved, and the size it reckons with   *)
(* is the hand's.  (belief.go calls these exclusions exact; and it is why  *)
(* there are always enough candidates for the probabilities to add up to   *)
(* the size of the hand.)                                                  *)
(***************************************************************************)
BeliefHoldsTheTruth ==
  phase = "play" => /\ \A c \in hands[Other(Turn)] : MayHold(Turn, c)
                    /\ OppHandSize(Turn) = Cardinality(hands[Other(Turn)])
-----------------------------------------------------------------------------
(* What the piles and passes look like when the play rests: the inductive   *)
(* invariant behind the theorem of CribbageGameProofs.                      *)

PileIsPlayed == \A i \in DOMAIN pile : pile[i] \in played[0] \cup played[1]

\* The last card is its player's, and an opponent who did not pass can answer.
LastLaid ==
  phase = "play" /\ pile # <<>> =>
    /\ pile[Len(pile)] \in played[lastPlayer]
    /\ ~gone[Other(lastPlayer)] => CanPlay(Other(lastPlayer))

\* A pass is what the pile says it is: the cards since are the other seat's,
\* and none of the hand would have fitted where they start.
PassReads ==
  phase = "play" =>
    \A s \in Seat : gone[Other(s)] =>
      /\ pile # <<>> /\ lastPlayer = s
      /\ \A i \in DOMAIN pile : TrailStarts(s, i) =>
           \A c \in hands[Other(s)] :
             ~(Pip(c) <= 31 - RunningCount(SubSeq(pile, 1, i)))

PassInv == PileIsPlayed /\ LastLaid /\ PassReads
=============================================================================

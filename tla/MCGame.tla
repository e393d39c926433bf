------------------------------- MODULE MCGame -------------------------------
(***************************************************************************)
(* CribbageGame on a few shuffles.  The target is the real one; the starts *)
(* put the seats within a hand or two of it, so that games end at every    *)
(* point where they can: at the cut, on a card, on a go, on the last card, *)
(* and at each count of the show.                                          *)
(***************************************************************************)
EXTENDS Belief

C(r, s) == [rank |-> r, suit |-> s]

\* Odd places go to the non-dealer, even ones to the dealer, the last is cut.
\* Mixed cards and a jack to cut.
MixedDeck ==
  <<C(1, 1), C(4, 1), C(2, 1), C(6, 2), C(5, 2), C(9, 3), C(10, 3), C(7, 1),
    C(11, 4), C(8, 4), C(3, 1), C(13, 2), C(11, 2)>>

\* Low cards: eight of them stay under thirty-one, with pairs royal.
LowDeck ==
  <<C(2, 1), C(2, 3), C(2, 2), C(3, 3), C(3, 1), C(3, 2), C(1, 1), C(1, 2),
    C(4, 1), C(4, 2), C(1, 3), C(5, 4), C(6, 1)>>

\* Tens and fives: thirty-ones, fifteens and a big crib.
HighDeck ==
  <<C(10, 1), C(5, 1), C(10, 2), C(5, 2), C(11, 1), C(5, 3), C(12, 1), C(11, 2),
    C(13, 1), C(12, 2), C(1, 4), C(13, 2), C(5, 4)>>

ThrowsOf(d) ==
  {{d[1], d[3]}, {d[2], d[4]}, {d[10], d[12]}}

MCDecks == {MixedDeck, LowDeck, HighDeck}
MCThrows == UNION {ThrowsOf(d) : d \in MCDecks}
MCCuts == {}
MCStarts ==
  {[scores |-> [s \in Seat |-> IF s = 0 THEN p[1] ELSE p[2]], dealer |-> 0] :
     p \in {<<119, 120>>, <<108, 118>>, <<117, 106>>, <<104, 114>>}}
=============================================================================

------------------------------- MODULE Cards -------------------------------
(***************************************************************************)
(* The card model of internal/cribbage/card.go: a playing card is a rank   *)
(* (Ace = 1 .. King = 13) and a suit, and its value in counting to fifteen *)
(* and to thirty-one is its rank capped at ten.                            *)
(***************************************************************************)
EXTENDS Integers

\* The greatest, the least, the sum and the subsets of a finite set.
Sets == INSTANCE FiniteSetsExt

Rank == 1..13
Suit == 1..4
Card == [rank : Rank, suit : Suit]

Jack == 11

\* The value a card adds to a count: face cards count ten.
PipValue(rank) == IF rank > 10 THEN 10 ELSE rank

Pip(c) == PipValue(c.rank)

Seat == {0, 1}
Other(s) == 1 - s
=============================================================================

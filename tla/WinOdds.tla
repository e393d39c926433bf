------------------------------ MODULE WinOdds ------------------------------
(***************************************************************************)
(* internal/bot/eval, winprob_api.go: what the bots take a pair of scores  *)
(* to be worth, and when they look at that instead of at points.           *)
(*                                                                         *)
(* The tables are data (winprob.go): WinTable[d][p] is the chance of the   *)
(* player about to deal, at d against p, in WinBase-ths, and PegJoint the  *)
(* cells of the joint distribution of what the dealer (d) and the other    *)
(* seat (p) peg in a deal, with their weights.                             *)
(***************************************************************************)
EXTENDS Integers, FiniteSetsExt

CONSTANTS WinTable, WinBase, PegJoint

Finish == 121
BestHand == 29
Heels == 2

ASSUME WinTableAssumption ==
  /\ WinBase \in Nat \ {0}
  /\ WinTable \in [0..(Finish - 1) -> [0..(Finish - 1) -> 0..WinBase]]

ASSUME PegAssumption ==
  /\ PegJoint # {} /\ IsFiniteSet(PegJoint)
  /\ \A cell \in PegJoint : /\ cell.d \in Nat /\ cell.p \in Nat
                            /\ cell.w \in Nat \ {0}

\* The chance to win at the start of a deal, and the estimate in its middle.
WinProb(my, opp, iAmDealer) ==
  IF my >= Finish THEN WinBase
  ELSE IF opp >= Finish THEN 0
  ELSE IF iAmDealer THEN WinTable[my][opp]
  ELSE WinBase - WinTable[opp][my]

\* The most a role can gain in a deal: the pegging of the table, and for the
\* dealer heels, a hand and a crib, for the other seat a hand.
FarNeed(isDealer) ==
  IF isDealer THEN Heels + Max({c.d : c \in PegJoint}) + 2 * BestHand
              ELSE Max({c.p : c \in PegJoint}) + BestHand

\* Neither player can reach the target in this deal.
FarFromEnd(my, opp, iAmDealer) ==
  /\ Finish - my > FarNeed(iAmDealer)
  /\ Finish - opp > FarNeed(~iAmDealer)

InReach(my, opp, iAmDealer) == ~FarFromEnd(my, opp, iAmDealer)

-----------------------------------------------------------------------------
\* What each role makes of one outcome of a deal.
DealerGain(heels, cell, hand, crib) == heels + cell.d + hand + crib
PoneGain(cell, hand) == cell.p + hand

\* Some outcome of the deal takes a player to the target.
SomebodyCan(my, opp, iAmDealer) ==
  LET dealerAt == IF iAmDealer THEN my ELSE opp
      poneAt   == IF iAmDealer THEN opp ELSE my
  IN  \E cell \in PegJoint, hand \in 0..BestHand :
        \/ poneAt + PoneGain(cell, hand) >= Finish
        \/ \E heels \in {0, Heels}, crib \in 0..BestHand :
             dealerAt + DealerGain(heels, cell, hand, crib) >= Finish

(***************************************************************************)
(* The switch between the two objectives is where it should be: the bots   *)
(* play for points as long as no outcome of the deal ends the game, and    *)
(* for the win from the first score at which one does.  (The comment on    *)
(* farNeed claims the first half, InReach tells the tools the second.)     *)
(***************************************************************************)
FarIsOutOfReach(my, opp, iAmDealer) ==
  FarFromEnd(my, opp, iAmDealer) <=> ~SomebodyCan(my, opp, iAmDealer)
=============================================================================

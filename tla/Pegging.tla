------------------------------ MODULE Pegging ------------------------------
(***************************************************************************)
(* internal/scoring/pegging: the points one card scores when it is laid on *)
(* the series of cards already played to the current count.                *)
(*                                                                         *)
(* The package computes them twice: Score builds the itemised breakdown    *)
(* the engine records in its events, Total the bare number the bots use.   *)
(* Both are here, and so is the definition the package's tests compare     *)
(* them with (reference_test.go).                                          *)
(***************************************************************************)
EXTENDS Cards, FiniteSets, Sequences

Ranks(series) == {series[i].rank : i \in DOMAIN series}

\* The pip values of the cards of a series, added up.
RunningCount(series) ==
  LET sum[n \in 0..Len(series)] ==
        IF n = 0 THEN 0 ELSE sum[n - 1] + Pip(series[n])
  IN  sum[Len(series)]

\* A play the scorer accepts: no card twice, and at most thirty-one.
Valid(series, card) ==
  /\ \A i \in DOMAIN series : series[i] # card
  /\ \A i, j \in DOMAIN series : i # j => series[i] # series[j]
  /\ RunningCount(series) + Pip(card) <= 31

LastCards(all, l) == SubSeq(all, Len(all) - l + 1, Len(all))

\* Distinct ranks spanning exactly as many ranks as there are cards.
IsRun(cards) ==
  /\ Cardinality(Ranks(cards)) = Len(cards)
  /\ Sets!Max(Ranks(cards)) - Sets!Min(Ranks(cards)) = Len(cards) - 1

(***************************************************************************)
(* Score: one optional combination of each kind, and their sum.            *)
(***************************************************************************)
Fifteen(all) == IF RunningCount(all) = 15 THEN 2 ELSE 0

ThirtyOne(all) == IF RunningCount(all) = 31 THEN 2 ELSE 0

\* How many cards at the end of the series share the last one's rank.
TrailingSameRank(all) ==
  Cardinality({i \in DOMAIN all :
                 \A j \in i..Len(all) : all[j].rank = all[Len(all)].rank})

PairPoints(all) == TrailingSameRank(all) * (TrailingSameRank(all) - 1)

\* The positions of the longest run at the end of the series: the run
\* suffixes are nested, so it is what some run suffix of three or more covers.
LongestRunSuffix(all) ==
  {i \in DOMAIN all :
     \E l \in 3..Len(all) : i > Len(all) - l /\ IsRun(LastCards(all, l))}

RunPoints(all) == Cardinality(LongestRunSuffix(all))

Score(series, card) ==
  LET all == Append(series, card)
  IN  Fifteen(all) + ThirtyOne(all) + PairPoints(all) + RunPoints(all)

(***************************************************************************)
(* Total: the same points without the breakdown.  The scan for the run     *)
(* goes down from the whole series and stops at the first that fits.       *)
(***************************************************************************)
RunLengths(all) == {l \in 3..Len(all) : IsRun(LastCards(all, l))}

\* (Mutated form: the scan keeps the shortest run.)
TotalShortRun(series, card) ==
  LET all == Append(series, card)
      k   == Sets!Max({i \in 1..Len(all) : \A c \in Ranks(LastCards(all, i)) : c = card.rank})
  IN  (IF RunningCount(all) \in {15, 31} THEN 2 ELSE 0)
        + k * (k - 1)
        + (IF RunLengths(all) = {} THEN 0 ELSE Sets!Min(RunLengths(all)))

Total(series, card) ==
  LET all == Append(series, card)
      k   == Sets!Max({i \in 1..Len(all) : \A c \in Ranks(LastCards(all, i)) : c = card.rank})
  IN  (IF RunningCount(all) \in {15, 31} THEN 2 ELSE 0)
        + k * (k - 1)
        + (IF RunLengths(all) = {} THEN 0 ELSE Sets!Max(RunLengths(all)))

(***************************************************************************)
(* The reference of reference_test.go: the largest suffix of three or more *)
(* whose ranks, sorted, go up by one; as sets, an interval of that size.   *)
(***************************************************************************)
ReferenceRun(all, l) ==
  \E lo \in Rank : Ranks(LastCards(all, l)) = lo..(lo + l - 1)

ReferenceTotal(series, card) ==
  LET all  == Append(series, card)
      same == {i \in DOMAIN all : \A j \in i..Len(all) : all[j].rank = card.rank}
      runs == {l \in 3..Len(all) : ReferenceRun(all, l)}
  IN  (IF RunningCount(all) = 15 THEN 2 ELSE 0)
        + (IF RunningCount(all) = 31 THEN 2 ELSE 0)
        + Cardinality({p \in same \X same : p[1] # p[2]})
        + (IF runs = {} THEN 0 ELSE Sets!Max(runs))

(***************************************************************************)
(* Whichever scorer is asked, a play is worth the same: the engine pays by *)
(* Score, the bots choose by Total, the tests compare with the reference.  *)
(***************************************************************************)
PlayScoredRight(series, card) ==
  /\ Score(series, card) = Total(series, card)
  /\ Score(series, card) = ReferenceTotal(series, card)
=============================================================================

----------------------------- MODULE HandScore -----------------------------
(***************************************************************************)
(* internal/scoring/hand: what four cards and the starter count at the     *)
(* show.  Like the pegging package it scores twice: Score groups the       *)
(* points for display (a run carries the pairs inside it, so the pairs are *)
(* only those outside the run), Total counts them the plain way.  Both are *)
(* here with the brute-force reference of the package's tests.             *)
(*                                                                         *)
(* The four cards are a set: the scorer rejects duplicates (checkDistinct) *)
(* and no total depends on their order.                                    *)
(***************************************************************************)
EXTENDS Cards, FiniteSets

RanksOf(cards) == {c.rank : c \in cards}

\* counts[r]: how many of the cards have the rank.
Count(cards, r) == Cardinality({c \in cards : c.rank = r})

PipSum(cards) == Sets!MapThenSumSet(Pip, cards)

\* Twice the points of every pair, one per ordered pair of cards of the rank.
PairPointsIn(cards, ranks) ==
  Cardinality({p \in cards \X cards :
                 p[1] # p[2] /\ p[1].rank = p[2].rank /\ p[1].rank \in ranks})

\* Every set of cards that adds up to fifteen scores two.
FifteenPoints(cards) == 2 * Cardinality({s \in SUBSET cards : PipSum(s) = 15})

(***************************************************************************)
(* The maximal stretches of three or more consecutive ranks, as intervals. *)
(* Five cards hold at most one.                                            *)
(***************************************************************************)
Runs(cards) ==
  {r \in Rank \X Rank :
     /\ r[2] - r[1] >= 2
     /\ r[1]..r[2] \subseteq RanksOf(cards)
     /\ r[1] - 1 \notin RanksOf(cards)
     /\ r[2] + 1 \notin RanksOf(cards)}

\* The product of the counts over the run, which five cards bound to five ranks.
Multiplicity(cards, run) ==
  LET n(k) == IF run[1] + k <= run[2] THEN Count(cards, run[1] + k) ELSE 1
  IN  n(0) * n(1) * n(2) * n(3) * n(4)

\* The run's points, the pairs among its ranks included.
RunPointsOf(cards, run) ==
  (run[2] - run[1] + 1) * Multiplicity(cards, run)
    + PairPointsIn(cards, run[1]..run[2])

\* Points for four of a suit in the hand, five with the starter; the crib
\* counts only all five.
FlushPoints(h, starter, isCrib) ==
  IF \E s \in Suit : \A c \in h : c.suit = s
    THEN IF \A c \in h : c.suit = starter.suit THEN 5
         ELSE IF isCrib THEN 0 ELSE 4
    ELSE 0

\* One for the jack of the starter's suit.
NobsPoints(h, starter) ==
  IF \E c \in h : c.rank = Jack /\ c.suit = starter.suit THEN 1 ELSE 0

(***************************************************************************)
(* Score: the grouped breakdown, added up.                                 *)
(***************************************************************************)
HandScore(h, starter, isCrib) ==
  LET cards   == h \cup {starter}
      grouped == IF Runs(cards) = {}
                   THEN PairPointsIn(cards, Rank)
                   ELSE LET run == CHOOSE r \in Runs(cards) : TRUE
                        IN  RunPointsOf(cards, run)
                              + PairPointsIn(cards, Rank \ run[1]..run[2])
  IN  FifteenPoints(cards) + grouped
        + FlushPoints(h, starter, isCrib) + NobsPoints(h, starter)

(***************************************************************************)
(* Total: pairs counted rank by rank, runs as length times multiplicity.   *)
(***************************************************************************)
PairsByRank(cards) ==
  Sets!MapThenSumSet(LAMBDA r : Count(cards, r) * (Count(cards, r) - 1), Rank)

RunTotal(cards) ==
  Sets!MapThenSumSet(LAMBDA run : (run[2] - run[1] + 1) * Multiplicity(cards, run), Runs(cards))

HandTotal(h, starter, isCrib) ==
  LET cards == h \cup {starter}
  IN  FifteenPoints(cards)
        + PairsByRank(cards) + RunTotal(cards)
        + FlushPoints(h, starter, isCrib) + NobsPoints(h, starter)

(***************************************************************************)
(* reference_test.go: the longest subsets of the cards whose ranks run,    *)
(* and how many subsets of that size do.                                   *)
(***************************************************************************)
RunSubsets(cards, size) ==
  {s \in Sets!kSubset(size, cards) : \E lo \in Rank : RanksOf(s) = lo..(lo + size - 1)}

ReferenceHand(h, starter, isCrib) ==
  LET cards == h \cup {starter}
      sizes == {n \in 3..5 : RunSubsets(cards, n) # {}}
  IN  2 * Cardinality({s \in SUBSET cards : PipSum(s) = 15})
        + 2 * Cardinality({s \in Sets!kSubset(2, cards) : Cardinality(RanksOf(s)) = 1})
        + (IF sizes = {} THEN 0 ELSE Sets!Max(sizes) * Cardinality(RunSubsets(cards, Sets!Max(sizes))))
        + (IF Cardinality({c.suit : c \in h}) # 1 THEN 0
           ELSE IF Cardinality({c.suit : c \in cards}) = 1 THEN 5
           ELSE IF isCrib THEN 0 ELSE 4)
        + Cardinality({c \in h : c = [rank |-> Jack, suit |-> starter.suit]})

(***************************************************************************)
(* A show counts the same whichever way it is counted: the engine pays by  *)
(* Score, the bots hold cards by Total, the tests compare with the         *)
(* reference.                                                              *)
(***************************************************************************)
ShowScoredRight(h, starter, isCrib) ==
  /\ HandScore(h, starter, isCrib) = HandTotal(h, starter, isCrib)
  /\ HandScore(h, starter, isCrib) = ReferenceHand(h, starter, isCrib)
=============================================================================

------------------------- MODULE CribbageGameProofs -------------------------
(***************************************************************************)
(* Theorems about CribbageGame, for every target, every deck source and    *)
(* every choice of the players.                                            *)
(***************************************************************************)
EXTENDS Belief, WinOdds, FiniteSetTheorems, WellFoundedInduction, TLAPS

(***************************************************************************)
(* What a scorer returns is a number of points: never negative.            *)
(***************************************************************************)
LEMMA PairsAreNat == \A k \in Nat : k * (k - 1) \in Nat
<1>1. TAKE k \in Nat
<1>2. CASE k = 0
  BY <1>2
<1>3. CASE k # 0
  <2>1. k - 1 \in Nat
    BY <1>3
  <2>2. \A a, b \in Nat : a * b \in Nat
    OBVIOUS
  <2>. QED BY <2>1, <2>2
<1>. QED BY <1>2, <1>3

LEMMA PositionsAreFinite ==
  ASSUME NEW series \in Seq(Card), NEW T \in SUBSET (DOMAIN series)
  PROVE  IsFiniteSet(T) /\ Cardinality(T) \in Nat
<1>1. Len(series) \in Nat /\ DOMAIN series = 1..Len(series)
  OBVIOUS
<1>2. IsFiniteSet(1..Len(series))
  BY <1>1, FS_Interval
<1>3. IsFiniteSet(T)
  BY <1>1, <1>2, FS_Subset
<1>. QED BY <1>3, FS_CardinalityType

LEMMA ScoreIsNat ==
  ASSUME NEW series \in Seq(Card), NEW card \in Card
  PROVE  Score(series, card) \in Nat
<1>. DEFINE all == Append(series, card)
<1>1. all \in Seq(Card)
  OBVIOUS
<1>. HIDE DEF all
<1>2. Fifteen(all) \in Nat /\ ThirtyOne(all) \in Nat
  BY DEF Fifteen, ThirtyOne
<1>3. TrailingSameRank(all) \in Nat
  BY <1>1, PositionsAreFinite DEF TrailingSameRank
<1>4. PairPoints(all) \in Nat
  BY <1>3, PairsAreNat DEF PairPoints
<1>5. RunPoints(all) \in Nat
  <2>1. LongestRunSuffix(all) \in SUBSET (DOMAIN all)
    BY DEF LongestRunSuffix
  <2>. QED BY <1>1, <2>1, PositionsAreFinite DEF RunPoints
<1>6. Score(series, card) = Fifteen(all) + ThirtyOne(all) + PairPoints(all) + RunPoints(all)
  BY DEF Score, all
<1>. QED BY <1>2, <1>4, <1>5, <1>6

LEMMA ProductIsNat == \A a, b \in Nat : a * b \in Nat
OBVIOUS

LEMMA PairPointsInIsNat ==
  ASSUME NEW cards, IsFiniteSet(cards), NEW ranks
  PROVE  PairPointsIn(cards, ranks) \in Nat
<1>1. IsFiniteSet(cards \X cards)
  BY FS_Product
<1>2. {p \in cards \X cards :
         p[1] # p[2] /\ p[1].rank = p[2].rank /\ p[1].rank \in ranks}
        \in SUBSET (cards \X cards)
  OBVIOUS
<1>. QED BY <1>1, <1>2, FS_Subset, FS_CardinalityType DEF PairPointsIn

LEMMA CountIsNat ==
  ASSUME NEW cards, IsFiniteSet(cards), NEW r
  PROVE  Count(cards, r) \in Nat
<1>1. {c \in cards : c.rank = r} \in SUBSET cards
  OBVIOUS
<1>. QED BY <1>1, FS_Subset, FS_CardinalityType DEF Count

LEMMA MultiplicityIsNat ==
  ASSUME NEW cards, IsFiniteSet(cards), NEW run
  PROVE  Multiplicity(cards, run) \in Nat
<1>. DEFINE n(k) == IF run[1] + k <= run[2] THEN Count(cards, run[1] + k) ELSE 1
<1>1. n(0) \in Nat /\ n(1) \in Nat /\ n(2) \in Nat /\ n(3) \in Nat /\ n(4) \in Nat
  BY CountIsNat
<1>2. Multiplicity(cards, run) = n(0) * n(1) * n(2) * n(3) * n(4)
  BY DEF Multiplicity
<1>. HIDE DEF n
<1>. QED BY <1>1, <1>2, ProductIsNat

LEMMA HandScoreIsNat ==
  ASSUME NEW h, IsFiniteSet(h), NEW starter_, NEW isCrib
  PROVE  HandScore(h, starter_, isCrib) \in Nat
<1>. DEFINE cards == h \cup {starter_}
<1>1. IsFiniteSet(cards)
  BY FS_AddElement
<1>. HIDE DEF cards
<1>2. FifteenPoints(cards) \in Nat
  <2>1. {s \in SUBSET cards : PipSum(s) = 15} \in SUBSET (SUBSET cards)
    OBVIOUS
  <2>2. Cardinality({s \in SUBSET cards : PipSum(s) = 15}) \in Nat
    BY <1>1, <2>1, FS_SUBSET, FS_Subset, FS_CardinalityType
  <2>. QED BY <2>2 DEF FifteenPoints
<1>3. \A ranks : PairPointsIn(cards, ranks) \in Nat
  BY <1>1, PairPointsInIsNat
<1>4. \A run \in Runs(cards) : RunPointsOf(cards, run) \in Nat
  <2>1. TAKE run \in Runs(cards)
  <2>2. run[2] - run[1] + 1 \in Nat
    BY DEF Runs, Rank
  <2>3. (run[2] - run[1] + 1) * Multiplicity(cards, run) \in Nat
    BY <2>2, <1>1, MultiplicityIsNat, ProductIsNat
  <2>. QED BY <2>3, <1>3 DEF RunPointsOf
<1>5. FlushPoints(h, starter_, isCrib) \in Nat /\ NobsPoints(h, starter_) \in Nat
  BY DEF FlushPoints, NobsPoints
<1>. DEFINE run == CHOOSE r \in Runs(cards) : TRUE
            grouped == IF Runs(cards) = {}
                         THEN PairPointsIn(cards, Rank)
                         ELSE RunPointsOf(cards, run)
                                + PairPointsIn(cards, Rank \ run[1]..run[2])
<1>6. grouped \in Nat
  <2>1. CASE Runs(cards) = {}
    BY <2>1, <1>3
  <2>2. CASE Runs(cards) # {}
    <3>1. run \in Runs(cards)
      BY <2>2
    <3>. HIDE DEF run
    <3>2. RunPointsOf(cards, run) \in Nat
      BY <3>1, <1>4
    <3>3. PairPointsIn(cards, Rank \ run[1]..run[2]) \in Nat
      BY <1>3
    <3>. QED BY <2>2, <3>2, <3>3
  <2>. QED BY <2>1, <2>2
<1>7. HandScore(h, starter_, isCrib)
        = FifteenPoints(cards) + grouped
            + FlushPoints(h, starter_, isCrib) + NobsPoints(h, starter_)
  BY DEF HandScore, cards
<1>. HIDE DEF grouped
<1>. QED BY <1>2, <1>5, <1>6, <1>7

-----------------------------------------------------------------------------
(* Cards, seats and deals.                                                 *)

LEMMA SeatFacts ==
  /\ \A s \in Seat : Other(s) \in Seat /\ Other(s) # s /\ Other(Other(s)) = s
  /\ NoSeat \notin Seat
  /\ \A s, t \in Seat : t = s \/ t = Other(s)
BY DEF Seat, Other, NoSeat

LEMMA CardFacts ==
  /\ \A c \in Card : Pip(c) \in 1..10
  /\ NoCard \notin Card
<1>1. ASSUME NEW c \in Card PROVE Pip(c) \in 1..10
  <2>1. c.rank \in 1..13
    BY DEF Card, Rank
  <2>. QED BY <2>1 DEF Pip, PipValue
<1>2. ASSUME NoCard \in Card PROVE FALSE
  <2>1. NoCard.rank \in 1..13
    BY <1>2 DEF Card, Rank
  <2>2. NoCard.rank = 0
    BY DEF NoCard
  <2>. QED BY <2>1, <2>2
<1>. QED BY <1>1, <1>2

\* Six different places of a shuffle hold six cards.
LEMMA SixCards ==
  ASSUME NEW deck \in Decks, NEW f \in [1..6 -> 1..13],
         \A i, j \in 1..6 : i # j => f[i] # f[j]
  PROVE  /\ IsFiniteSet({deck[f[i]] : i \in 1..6})
         /\ Cardinality({deck[f[i]] : i \in 1..6}) = 6
<1>. DEFINE T == {deck[f[i]] : i \in 1..6}
            g == [i \in 1..6 |-> deck[f[i]]]
<1>1. deck \in [1..13 -> Card] /\ \A i, j \in 1..13 : i # j => deck[i] # deck[j]
  BY DecksAssumption
<1>2. g \in Bijection(1..6, T)
  <2>1. g \in [1..6 -> T]
    OBVIOUS
  <2>2. \A i, j \in 1..6 : i # j => g[i] # g[j]
    BY <1>1
  <2>3. \A t \in T : \E i \in 1..6 : g[i] = t
    OBVIOUS
  <2>. QED BY <2>1, <2>2, <2>3 DEF Bijection, Injection, Surjection, IsInjective
<1>3. IsFiniteSet(1..6) /\ Cardinality(1..6) = 6
  <2>1. \A n \in Nat : IsFiniteSet(1..n) /\ Cardinality(1..n) = n
    BY FS_Interval
  <2>2. 6 \in Nat
    OBVIOUS
  <2>. QED BY ONLY <2>1, <2>2, Zenon
<1>4. ExistsBijection(1..6, T)
  BY <1>2 DEF ExistsBijection
<1>. QED BY <1>3, <1>4, FS_Bijection

\* A deal: six cards to each seat, none shared, the one to be cut in neither.
LEMMA DealtFacts ==
  ASSUME NEW deck \in Decks, NEW dl \in Seat
  PROVE  LET hs == DealtHands(deck, dl)
         IN  /\ hs \in [Seat -> SUBSET Card]
             /\ \A s \in Seat : IsFiniteSet(hs[s]) /\ Cardinality(hs[s]) = 6
             /\ hs[0] \cap hs[1] = {}
             /\ deck[13] \in Card
             /\ \A s \in Seat : deck[13] \notin hs[s]
<1>. DEFINE even == {deck[2 * i] : i \in 1..6}
            odd  == {deck[2 * i - 1] : i \in 1..6}
            fe   == [i \in 1..6 |-> 2 * i]
            fo   == [i \in 1..6 |-> 2 * i - 1]
            hs   == DealtHands(deck, dl)
<1>1. deck \in [1..13 -> Card] /\ \A i, j \in 1..13 : i # j => deck[i] # deck[j]
  BY DecksAssumption
<1>2. fe \in [1..6 -> 1..13] /\ \A i, j \in 1..6 : i # j => fe[i] # fe[j]
  OBVIOUS
<1>3. fo \in [1..6 -> 1..13] /\ \A i, j \in 1..6 : i # j => fo[i] # fo[j]
  OBVIOUS
<1>4. even = {deck[fe[i]] : i \in 1..6} /\ odd = {deck[fo[i]] : i \in 1..6}
  OBVIOUS
<1>5. IsFiniteSet(even) /\ Cardinality(even) = 6 /\ IsFiniteSet(odd) /\ Cardinality(odd) = 6
  <2>. HIDE DEF even, odd, fe, fo
  <2>. QED BY <1>2, <1>3, <1>4, SixCards
<1>6. even \subseteq Card /\ odd \subseteq Card /\ even \cap odd = {}
  <2>1. \A i, j \in 1..6 : 2 * i \in 1..13 /\ 2 * j - 1 \in 1..13 /\ 2 * i # 2 * j - 1
    OBVIOUS
  <2>. QED BY <1>1, <2>1
<1>7. deck[13] \in Card /\ deck[13] \notin even /\ deck[13] \notin odd
  <2>1. \A i \in 1..6 : /\ 2 * i \in 1..13 /\ 2 * i - 1 \in 1..13
                        /\ 2 * i # 13 /\ 2 * i - 1 # 13
    OBVIOUS
  <2>. QED BY <1>1, <2>1
<1>8. hs = [s \in Seat |-> IF s = dl THEN even ELSE odd]
  BY DEF DealtHands
<1>. HIDE DEF even, odd, fe, fo, hs
<1>9. /\ hs \in [Seat -> SUBSET Card]
      /\ \A s \in Seat : IsFiniteSet(hs[s]) /\ Cardinality(hs[s]) = 6
      /\ hs[0] \cap hs[1] = {}
      /\ \A s \in Seat : deck[13] \notin hs[s]
  BY <1>5, <1>6, <1>7, <1>8 DEF Seat
<1>. QED BY <1>7, <1>9 DEF hs

-----------------------------------------------------------------------------
(* Awards.                                                                 *)

Below(sc) == sc \in [Seat -> 0..Target] /\ \A s \in Seat : sc[s] < Target

WonBy(sc, s) ==
  /\ sc \in [Seat -> 0..Target]
  /\ sc[s] = Target
  /\ sc[Other(s)] < Target

\* An award keeps both seats below the target or takes its seat onto it.
LEMMA AwardFacts ==
  ASSUME NEW sc, Below(sc), NEW s \in Seat, NEW pts \in Nat
  PROVE  LET n == AddPoints(Target, sc, s, pts)
         IN  /\ ~Won(n, s) => Below(n)
             /\ Won(n, s) => WonBy(n, s)
             /\ n[s] >= sc[s]
             /\ pts > 0 => n[s] > sc[s]
             /\ n[Other(s)] = sc[Other(s)]
BY SeatFacts, TargetAssumption DEF Below, WonBy, Won, AddPoints

-----------------------------------------------------------------------------
(* The deal establishes the invariant.                                     *)

LEMMA EmptyFacts ==
  /\ Empty \in [Seat -> SUBSET Card] /\ \A s \in Seat : Empty[s] = {}
  /\ NoneGone \in [Seat -> BOOLEAN] /\ \A s \in Seat : ~NoneGone[s]
  /\ IsFiniteSet({}) /\ Cardinality({}) = 0
BY FS_EmptySet DEF Empty, NoneGone

LEMMA OpeningFacts ==
  ASSUME NEW open \in Openings
  PROVE  open.dealer \in Seat /\ Below(open.scores)
<1>1. CASE open \in {[dealer |-> st.dealer, scores |-> st.scores,
                      event |-> Handicap(st.scores)] : st \in Starts}
  BY <1>1, StartsAssumption, TargetAssumption DEF Below
<1>2. CASE open \in {[dealer |-> LowerCut(cut), scores |-> [s \in Seat |-> 0],
                      event |-> CutForDeal(LowerCut(cut))] :
                       cut \in {c \in Cuts : c[0].rank # c[1].rank}}
  <2>1. PICK cut : open = [dealer |-> LowerCut(cut), scores |-> [s \in Seat |-> 0],
                           event |-> CutForDeal(LowerCut(cut))]
    BY <1>2
  <2>2. open.dealer = LowerCut(cut) /\ open.scores = [s \in Seat |-> 0]
    BY <2>1
  <2>. QED BY <2>2, TargetAssumption DEF Below, LowerCut, Seat
<1>. QED BY <1>1, <1>2 DEF Openings

\* Six cards in each hand, none shared, and nothing thrown or laid.
LEMMA FreshCards ==
  ASSUME NEW hs, NEW pl, NEW th,
         \A s \in Seat : /\ IsFiniteSet(hs[s]) /\ Cardinality(hs[s]) = 6
                         /\ pl[s] = {} /\ th[s] = {},
         hs[0] \cap hs[1] = {}
  PROVE  /\ \A s \in Seat :
              /\ IsFiniteSet(hs[s]) /\ IsFiniteSet(pl[s]) /\ IsFiniteSet(th[s])
              /\ hs[s] \cap th[s] = {}
              /\ pl[s] \cap (hs[s] \cup th[s]) = {}
              /\ th[s] # {} => Cardinality(th[s]) = 2
              /\ Cardinality(hs[s]) + Cardinality(pl[s]) + Cardinality(th[s]) = 6
         /\ (hs[0] \cup pl[0] \cup th[0]) \cap (hs[1] \cup pl[1] \cup th[1]) = {}
         /\ \E s \in Seat : th[s] = {}
<1>1. 0 \in Seat /\ 1 \in Seat
  BY DEF Seat
<1>2. IsFiniteSet({}) /\ Cardinality({}) = 0
  BY FS_EmptySet
<1>3. ASSUME NEW s \in Seat
      PROVE  /\ IsFiniteSet(hs[s]) /\ IsFiniteSet(pl[s]) /\ IsFiniteSet(th[s])
             /\ hs[s] \cap th[s] = {}
             /\ pl[s] \cap (hs[s] \cup th[s]) = {}
             /\ th[s] # {} => Cardinality(th[s]) = 2
             /\ Cardinality(hs[s]) + Cardinality(pl[s]) + Cardinality(th[s]) = 6
  <2>1. /\ IsFiniteSet(hs[s]) /\ Cardinality(hs[s]) = 6
        /\ pl[s] = {} /\ th[s] = {}
    OBVIOUS
  <2>2. Cardinality(hs[s]) + Cardinality(pl[s]) + Cardinality(th[s]) = 6
    BY <1>2, <2>1
  <2>. QED BY <1>2, <2>1, <2>2, Zenon
<1>4. (hs[0] \cup pl[0] \cup th[0]) \cap (hs[1] \cup pl[1] \cup th[1]) = {}
  <2>1. pl[0] = {} /\ th[0] = {} /\ pl[1] = {} /\ th[1] = {}
    BY <1>1
  <2>. QED BY <2>1
<1>5. \E s \in Seat : th[s] = {}
  BY <1>1
<1>. QED BY <1>3, <1>4, <1>5, Zenon

LEMMA InitInv == Init => GameInv
<1>. SUFFICES ASSUME Init PROVE GameInv
  OBVIOUS
<1>1. PICK open \in Openings, deck \in Decks :
        /\ dealer = open.dealer /\ phase = "discard" /\ scores = open.scores
        /\ hands = DealtHands(deck, open.dealer)
        /\ played = Empty /\ thrown = Empty /\ starter = NoCard /\ rest = deck[13]
        /\ pile = <<>> /\ count = 0 /\ gone = NoneGone /\ lastPlayer = open.dealer
        /\ winner = NoSeat
  BY DEF Init
<1>2. dealer \in Seat /\ Below(scores)
  BY <1>1, OpeningFacts
<1>3. /\ hands \in [Seat -> SUBSET Card]
      /\ \A s \in Seat : IsFiniteSet(hands[s]) /\ Cardinality(hands[s]) = 6
      /\ hands[0] \cap hands[1] = {}
      /\ rest \in Card
  BY <1>1, <1>2, DealtFacts
<1>4. TypeOK
  BY <1>1, <1>2, <1>3, EmptyFacts DEF TypeOK, Below
<1>5. CardInv
  <2>1. \A s \in Seat : played[s] = {} /\ thrown[s] = {}
    BY <1>1, EmptyFacts
  <2>. QED BY <1>1, <1>3, <2>1, FreshCards DEF CardInv
<1>6. PlayInv
  BY <1>1 DEF PlayInv, TurnCanPlay, PassedSeatIsStuck
<1>7. ScoreInv
  BY <1>1, <1>2, SeatFacts DEF ScoreInv, OnlyTheWinnerIsAtTarget, Below
<1>. QED BY <1>4, <1>5, <1>6, <1>7 DEF GameInv

LEMMA DealHandInv ==
  ASSUME NEW dl \in Seat, NEW events, DealHand(dl, events),
         Below(scores'), winner' = NoSeat
  PROVE  GameInv'
<1>1. PICK deck \in Decks :
        /\ dealer' = dl /\ phase' = "discard"
        /\ hands' = DealtHands(deck, dl)
        /\ played' = Empty /\ thrown' = Empty /\ starter' = NoCard /\ rest' = deck[13]
        /\ pile' = <<>> /\ count' = 0 /\ gone' = NoneGone /\ lastPlayer' = dl
  BY DEF DealHand
<1>2. /\ hands' \in [Seat -> SUBSET Card]
      /\ \A s \in Seat : IsFiniteSet(hands'[s]) /\ Cardinality(hands'[s]) = 6
      /\ hands'[0] \cap hands'[1] = {}
      /\ rest' \in Card
  BY <1>1, DealtFacts
<1>3. TypeOK'
  BY <1>1, <1>2, EmptyFacts DEF TypeOK, Below
<1>4. CardInv'
  <2>1. \A s \in Seat : played'[s] = {} /\ thrown'[s] = {}
    BY <1>1, EmptyFacts
  <2>. QED BY <1>1, <1>2, <2>1, FreshCards DEF CardInv
<1>5. PlayInv'
  BY <1>1 DEF PlayInv, TurnCanPlay, PassedSeatIsStuck
<1>6. ScoreInv'
  BY <1>1, SeatFacts DEF ScoreInv, OnlyTheWinnerIsAtTarget, Below
<1>. QED BY <1>3, <1>4, <1>5, <1>6 DEF GameInv

-----------------------------------------------------------------------------
(* How a command ends.                                                     *)

LEMMA WinsWithFacts ==
  ASSUME NEW s \in Seat, NEW sc, WonBy(sc, s), NEW events, NEW reveals,
         WinsWith(s, sc, events, reveals)
  PROVE  /\ phase' = "complete"
         /\ winner' \in Seat \cup {NoSeat}
         /\ scores' \in [Seat -> 0..Target]
         /\ ScoreInv'
BY SeatFacts DEF WonBy, WinsWith, ScoreInv, OnlyTheWinnerIsAtTarget

LEMMA GoesOnFacts ==
  ASSUME NEW s \in Seat, NEW sc, ~Won(sc, s) => Below(sc), GoesOn(s, sc),
         winner = NoSeat, phase' # "complete"
  PROVE  /\ winner' = NoSeat
         /\ Below(scores')
         /\ ScoreInv'
BY SeatFacts DEF GoesOn, ScoreInv, OnlyTheWinnerIsAtTarget, Below

\* While the game is on, both seats are below the target.
LEMMA BelowTarget ==
  ASSUME GameInv, phase # "complete"
  PROVE  Below(scores) /\ winner = NoSeat
<1>1. winner = NoSeat
  BY DEF GameInv, ScoreInv, OnlyTheWinnerIsAtTarget
<1>2. \A s \in Seat : scores[s] \in 0..Target /\ scores[s] # Target
  BY <1>1, SeatFacts DEF GameInv, TypeOK, ScoreInv, OnlyTheWinnerIsAtTarget
<1>. QED BY <1>1, <1>2, TargetAssumption DEF GameInv, TypeOK, Below

-----------------------------------------------------------------------------
(* Discard.                                                                *)

LEMMA ThrowFacts ==
  ASSUME NEW two \in Throws
  PROVE  IsFiniteSet(two) /\ Cardinality(two) = 2 /\ two # {} /\ two \subseteq Card
<1>1. PICK a, b \in Card : a # b /\ two = {a, b}
  BY ThrowsAssumption
<1>2. two = {a} \cup {b}
  BY <1>1
<1>3. IsFiniteSet({a}) /\ Cardinality({a}) = 1
  BY FS_Singleton
<1>4. IsFiniteSet({a} \cup {b}) /\ Cardinality({a} \cup {b}) = 2
  BY <1>1, <1>3, FS_AddElement
<1>. QED BY <1>1, <1>2, <1>4

\* Where the cards are after a throw.
LEMMA DiscardCards ==
  ASSUME GameInv, NEW s \in Seat, NEW two \in Throws, Discard(s, two)
  PROVE  /\ hands' \in [Seat -> SUBSET Card]
         /\ thrown' \in [Seat -> SUBSET Card]
         /\ CardInv'
<1>. USE DEF GameInv, TypeOK
<1>1. /\ phase = "discard" /\ thrown[s] = {} /\ two \subseteq hands[s]
      /\ hands' = [hands EXCEPT ![s] = @ \ two]
      /\ thrown' = [thrown EXCEPT ![s] = two]
      /\ played' = played
  BY DEF Discard, Discarded
<1>2. IsFiniteSet(two) /\ Cardinality(two) = 2 /\ two # {} /\ two \subseteq Card
  BY ThrowFacts
<1>3. hands' \in [Seat -> SUBSET Card] /\ thrown' \in [Seat -> SUBSET Card]
  BY <1>1, <1>2
<1>4. \A t \in Seat :
        /\ IsFiniteSet(hands[t]) /\ IsFiniteSet(played[t]) /\ IsFiniteSet(thrown[t])
        /\ hands[t] \cap thrown[t] = {} /\ played[t] = {}
        /\ Cardinality(hands[t]) \in Nat /\ Cardinality(played[t]) \in Nat
        /\ Cardinality(thrown[t]) \in Nat
        /\ Cardinality(hands[t]) + Cardinality(played[t]) + Cardinality(thrown[t]) = 6
  BY <1>1, FS_CardinalityType DEF CardInv
<1>5. /\ IsFiniteSet(hands[s] \ two)
      /\ Cardinality(hands[s] \ two) = Cardinality(hands[s]) - 2
  <2>1. hands[s] \cap two = two
    BY <1>1
  <2>2. /\ IsFiniteSet(hands[s] \ two)
        /\ Cardinality(hands[s] \ two)
             = Cardinality(hands[s]) - Cardinality(hands[s] \cap two)
    BY <1>4, FS_Difference
  <2>. QED BY <2>1, <2>2, <1>2
<1>6. Cardinality(thrown[s]) = 0
  BY <1>1, FS_EmptySet
<1>7. /\ hands'[s] = hands[s] \ two /\ thrown'[s] = two
      /\ \A t \in Seat : t # s => hands'[t] = hands[t] /\ thrown'[t] = thrown[t]
  BY <1>1
<1>8. ASSUME NEW t \in Seat
      PROVE  /\ IsFiniteSet(hands'[t]) /\ IsFiniteSet(played'[t]) /\ IsFiniteSet(thrown'[t])
             /\ hands'[t] \cap thrown'[t] = {}
             /\ played'[t] \cap (hands'[t] \cup thrown'[t]) = {}
             /\ thrown'[t] # {} => Cardinality(thrown'[t]) = 2
             /\ Cardinality(hands'[t]) + Cardinality(played'[t]) + Cardinality(thrown'[t]) = 6
  <2>1. CASE t = s
    <3>1. /\ hands'[t] = hands[s] \ two /\ thrown'[t] = two /\ played'[t] = played[s]
          /\ played[s] = {}
      BY <2>1, <1>1, <1>4, <1>7
    <3>2. /\ IsFiniteSet(hands'[t]) /\ IsFiniteSet(played'[t]) /\ IsFiniteSet(thrown'[t])
          /\ hands'[t] \cap thrown'[t] = {}
          /\ played'[t] \cap (hands'[t] \cup thrown'[t]) = {}
      BY <3>1, <1>2, <1>4, <1>5
    <3>3. Cardinality(hands'[t]) = Cardinality(hands[s]) - 2
      BY <3>1, <1>5
    <3>4. Cardinality(thrown'[t]) = 2 /\ Cardinality(played'[t]) = Cardinality(played[s])
      BY <3>1, <1>2
    <3>6. Cardinality(hands[s]) \in Nat /\ Cardinality(played[s]) \in Nat
      BY <1>4, Zenon
    <3>7. Cardinality(hands[s]) + Cardinality(played[s]) + Cardinality(thrown[s]) = 6
      BY <1>4, Zenon
    <3>5. Cardinality(hands[s]) + Cardinality(played[s]) = 6
      BY ONLY <1>6, <3>6, <3>7
    <3>. QED BY <3>2, <3>3, <3>4, <3>5, <3>6
  <2>2. CASE t # s
    BY <2>2, <1>1, <1>4, <1>7 DEF CardInv
  <2>. QED BY <2>1, <2>2
<1>9. (hands'[0] \cup played'[0] \cup thrown'[0])
        \cap (hands'[1] \cup played'[1] \cup thrown'[1]) = {}
  <2>1. \A t \in Seat : hands'[t] \cup played'[t] \cup thrown'[t]
                         \subseteq hands[t] \cup played[t] \cup thrown[t]
    BY <1>1, <1>7
  <2>2. 0 \in Seat /\ 1 \in Seat
    BY DEF Seat
  <2>. QED BY <2>1, <2>2 DEF CardInv
<1>10. /\ phase' = "discard" => /\ rest' \in Card
                                /\ \A t \in Seat : played'[t] = {}
                                /\ \E t \in Seat : thrown'[t] = {}
       /\ phase' = "play" => /\ starter' \in Card
                             /\ \A t \in Seat : thrown'[t] # {}
  <2>1. CASE ~Discarded(Other(s)) /\ UNCHANGED <<phase, scores, starter, rest, winner>>
    <3>1. phase' = "discard" /\ rest' \in Card /\ \A t \in Seat : played'[t] = {}
      BY <2>1, <1>1, <1>4 DEF CardInv
    <3>2. Other(s) \in Seat /\ thrown'[Other(s)] = {}
      BY <2>1, <1>7, SeatFacts DEF Discarded
    <3>. QED BY <3>1, <3>2
  <2>2. CASE Discarded(Other(s)) /\ CutStarter(<<DiscardedBy(s, two)>>)
    <3>1. phase' # "discard" /\ starter' = rest
      BY <2>2 DEF CutStarter, WinsWith
    <3>2. rest \in Card
      BY <1>1 DEF CardInv
    <3>3. \A t \in Seat : thrown'[t] # {}
      BY <2>2, <1>2, <1>7, SeatFacts DEF Discarded
    <3>. QED BY <3>1, <3>2, <3>3
  <2>. QED BY <2>1, <2>2 DEF Discard
<1>11. CardInv'
  BY <1>8, <1>9, <1>10 DEF CardInv
<1>. QED BY <1>3, <1>11

LEMMA DiscardInv ==
  ASSUME GameInv, NEW s \in Seat, NEW two \in Throws, Discard(s, two)
  PROVE  GameInv'
<1>1. /\ phase = "discard" /\ played' = played
      /\ UNCHANGED <<dealer, played, pile, count, gone, lastPlayer>>
      /\ pile = <<>> /\ count = 0 /\ gone = NoneGone /\ lastPlayer = dealer
      /\ rest \in Card /\ dealer \in Seat
  BY DEF Discard, GameInv, PlayInv, CardInv, TypeOK
<1>2. /\ hands' \in [Seat -> SUBSET Card] /\ thrown' \in [Seat -> SUBSET Card]
      /\ CardInv'
  BY DiscardCards
<1>3. Below(scores) /\ winner = NoSeat
  BY <1>1, BelowTarget
<1>4. CASE UNCHANGED <<phase, scores, starter, rest, winner>>
  <2>1. TypeOK'
    BY <1>1, <1>2, <1>4 DEF GameInv, TypeOK
  <2>2. PlayInv'
    BY <1>1, <1>4 DEF PlayInv, TurnCanPlay, PassedSeatIsStuck
  <2>3. ScoreInv'
    BY <1>4 DEF GameInv, ScoreInv, OnlyTheWinnerIsAtTarget
  <2>. QED BY <2>1, <2>2, <2>3, <1>2 DEF GameInv
<1>5. CASE CutStarter(<<DiscardedBy(s, two)>>)
  <2>. DEFINE heels == IF rest.rank = Jack THEN 2 ELSE 0
              sc    == AddPoints(Target, scores, dealer, heels)
              cut   == Append(<<DiscardedBy(s, two)>>, StarterCut(rest, heels))
  <2>1. /\ starter' = rest /\ rest' = NoCard
        /\ \/ WinsWith(dealer, sc, cut, <<>>)
           \/ GoesOn(dealer, sc) /\ phase' = "play" /\ out' = cut
    BY <1>5 DEF CutStarter
  <2>2. heels \in Nat
    OBVIOUS
  <2>. HIDE DEF heels, cut
  <2>3. (~Won(sc, dealer) => Below(sc)) /\ (Won(sc, dealer) => WonBy(sc, dealer))
    BY <2>2, <1>1, <1>3, AwardFacts
  <2>. HIDE DEF sc
  <2>4. CASE WinsWith(dealer, sc, cut, <<>>)
    <3>1. WonBy(sc, dealer)
      BY <2>3, <2>4 DEF WinsWith
    <3>2. /\ phase' = "complete" /\ winner' \in Seat \cup {NoSeat}
          /\ scores' \in [Seat -> 0..Target] /\ ScoreInv'
      BY <3>1, <2>4, <1>1, WinsWithFacts
    <3>3. TypeOK'
      BY <3>2, <2>1, <1>1, <1>2 DEF GameInv, TypeOK
    <3>4. PlayInv'
      BY <3>2 DEF PlayInv, TurnCanPlay, PassedSeatIsStuck
    <3>. QED BY <3>2, <3>3, <3>4, <1>2 DEF GameInv
  <2>5. CASE GoesOn(dealer, sc) /\ phase' = "play"
    <3>1. winner' = NoSeat /\ Below(scores') /\ ScoreInv'
      BY <2>3, <2>5, <1>1, <1>3, GoesOnFacts
    <3>2. TypeOK'
      BY <3>1, <2>1, <2>5, <1>1, <1>2 DEF GameInv, TypeOK, Below
    <3>3. hands'[Pone] # {}
      <4>1. Pone \in Seat
        BY <1>1, SeatFacts DEF Pone
      <4>2. /\ Cardinality(hands'[Pone]) + Cardinality(played'[Pone])
                 + Cardinality(thrown'[Pone]) = 6
            /\ Cardinality(thrown'[Pone]) = 2
        BY <4>1, <2>5, <1>2 DEF CardInv
      <4>3. Cardinality(played'[Pone]) = 0
        BY <4>1, <1>1, FS_EmptySet DEF GameInv, CardInv
      <4>. QED BY <4>2, <4>3, FS_EmptySet
    <3>4. CanPlay(Pone)'
      <4>1. PICK c \in hands'[Pone] : TRUE
        BY <3>3
      <4>2. Pip(c) \in 1..10
        BY <4>1, <1>1, <1>2, CardFacts, SeatFacts DEF Pone
      <4>3. Pone' = Pone
        BY <1>1 DEF Pone
      <4>. QED BY <4>1, <4>2, <4>3, <1>1 DEF CanPlay, HasPlay, Fits
    <3>5. PlayInv'
      <4>1. Turn' = Pone' /\ Pone' = Pone
        BY <3>4, <1>1, EmptyFacts, SeatFacts DEF Turn, Pone
      <4>2. \A t \in Seat : ~gone'[t]
        BY <1>1, EmptyFacts
      <4>. QED BY <4>1, <4>2, <3>4, <2>5 DEF PlayInv, TurnCanPlay, PassedSeatIsStuck
    <3>. QED BY <3>1, <3>2, <3>5, <1>2 DEF GameInv
  <2>. QED BY <2>1, <2>4, <2>5
<1>. QED BY <1>4, <1>5 DEF Discard

-----------------------------------------------------------------------------
(* Play: what a legal card does to the cards, the count and the score.     *)

LEMMA LayFacts ==
  ASSUME GameInv, NEW s \in Seat, NEW c \in hands[s], LegalPlay(s, c)
  PROVE  /\ phase = "play" /\ winner = NoSeat /\ Below(scores)
         /\ c \in Card /\ Pip(c) \in 1..10
         /\ CountAfter(c) \in 0..31 /\ CountAfter(c) >= count
         /\ Append(pile, c) \in Seq(Card)
         /\ Score(pile, c) \in Nat
         /\ ~Won(Pegged(s, c), s) => Below(Pegged(s, c))
         /\ Won(Pegged(s, c), s) => WonBy(Pegged(s, c), s)
         /\ ~gone[s]
<1>1. phase = "play" /\ winner = NoSeat /\ Below(scores)
  BY BelowTarget DEF LegalPlay
<1>2. c \in Card /\ Pip(c) \in 1..10
  BY CardFacts DEF GameInv, TypeOK
<1>3. CountAfter(c) \in 0..31 /\ CountAfter(c) >= count
  <2>1. count \in 0..31
    BY DEF GameInv, TypeOK
  <2>2. count + Pip(c) <= 31
    BY DEF LegalPlay, Fits
  <2>. QED BY <1>2, <2>1, <2>2 DEF CountAfter
<1>4. Append(pile, c) \in Seq(Card) /\ Score(pile, c) \in Nat
  BY <1>2, ScoreIsNat DEF GameInv, TypeOK
<1>5. /\ ~Won(Pegged(s, c), s) => Below(Pegged(s, c))
      /\ Won(Pegged(s, c), s) => WonBy(Pegged(s, c), s)
  BY <1>1, <1>4, AwardFacts DEF Pegged
<1>6. ~gone[s]
  BY DEF GameInv, PlayInv, PassedSeatIsStuck, LegalPlay, CanPlay, HasPlay
<1>. QED BY <1>1, <1>2, <1>3, <1>4, <1>5, <1>6

LEMMA AfterFacts ==
  ASSUME GameInv, NEW s \in Seat, NEW c \in hands[s], LegalPlay(s, c)
  PROVE  /\ HandsAfter(s, c) \in [Seat -> SUBSET Card]
         /\ PlayedAfter(s, c) \in [Seat -> SUBSET Card]
         /\ HandsAfter(s, c)[Other(s)] = hands[Other(s)]
         /\ \A t \in Seat :
              /\ IsFiniteSet(HandsAfter(s, c)[t]) /\ IsFiniteSet(PlayedAfter(s, c)[t])
              /\ HandsAfter(s, c)[t] \cap thrown[t] = {}
              /\ PlayedAfter(s, c)[t] \cap (HandsAfter(s, c)[t] \cup thrown[t]) = {}
              /\ HandsAfter(s, c)[t] \cup PlayedAfter(s, c)[t] = hands[t] \cup played[t]
              /\ Cardinality(HandsAfter(s, c)[t]) + Cardinality(PlayedAfter(s, c)[t])
                   = Cardinality(hands[t]) + Cardinality(played[t])
<1>1. c \in Card
  BY LayFacts
<1>2. /\ hands \in [Seat -> SUBSET Card] /\ played \in [Seat -> SUBSET Card]
      /\ Other(s) \in Seat /\ Other(s) # s
  BY SeatFacts DEF GameInv, TypeOK
<1>3. /\ HandsAfter(s, c) \in [Seat -> SUBSET Card]
      /\ PlayedAfter(s, c) \in [Seat -> SUBSET Card]
      /\ HandsAfter(s, c)[s] = hands[s] \ {c} /\ PlayedAfter(s, c)[s] = played[s] \cup {c}
      /\ \A t \in Seat : t # s => /\ HandsAfter(s, c)[t] = hands[t]
                                  /\ PlayedAfter(s, c)[t] = played[t]
  BY <1>1, <1>2 DEF HandsAfter, PlayedAfter
<1>4. \A t \in Seat :
        /\ IsFiniteSet(hands[t]) /\ IsFiniteSet(played[t])
        /\ hands[t] \cap thrown[t] = {} /\ played[t] \cap (hands[t] \cup thrown[t]) = {}
        /\ Cardinality(hands[t]) \in Nat /\ Cardinality(played[t]) \in Nat
  BY FS_CardinalityType DEF GameInv, CardInv
<1>5. /\ IsFiniteSet(hands[s] \ {c}) /\ IsFiniteSet(played[s] \cup {c})
      /\ Cardinality(hands[s] \ {c}) = Cardinality(hands[s]) - 1
      /\ Cardinality(played[s] \cup {c}) = Cardinality(played[s]) + 1
  <2>1. c \notin played[s]
    BY <1>4
  <2>. QED BY <1>4, <2>1, FS_AddElement, FS_RemoveElement
<1>6. ASSUME NEW t \in Seat
      PROVE  /\ IsFiniteSet(HandsAfter(s, c)[t]) /\ IsFiniteSet(PlayedAfter(s, c)[t])
             /\ HandsAfter(s, c)[t] \cap thrown[t] = {}
             /\ PlayedAfter(s, c)[t] \cap (HandsAfter(s, c)[t] \cup thrown[t]) = {}
             /\ HandsAfter(s, c)[t] \cup PlayedAfter(s, c)[t] = hands[t] \cup played[t]
             /\ Cardinality(HandsAfter(s, c)[t]) + Cardinality(PlayedAfter(s, c)[t])
                  = Cardinality(hands[t]) + Cardinality(played[t])
  <2>1. CASE t = s
    <3>1. /\ IsFiniteSet(HandsAfter(s, c)[t]) /\ IsFiniteSet(PlayedAfter(s, c)[t])
      BY <2>1, <1>3, <1>5
    <3>2. /\ HandsAfter(s, c)[t] \cap thrown[t] = {}
          /\ PlayedAfter(s, c)[t] \cap (HandsAfter(s, c)[t] \cup thrown[t]) = {}
          /\ HandsAfter(s, c)[t] \cup PlayedAfter(s, c)[t] = hands[t] \cup played[t]
      BY <2>1, <1>3, <1>4
    <3>3. Cardinality(HandsAfter(s, c)[t]) = Cardinality(hands[s]) - 1
      BY <2>1, <1>3, <1>5
    <3>4. Cardinality(PlayedAfter(s, c)[t]) = Cardinality(played[s]) + 1
      BY <2>1, <1>3, <1>5
    <3>5. Cardinality(HandsAfter(s, c)[t]) + Cardinality(PlayedAfter(s, c)[t])
            = Cardinality(hands[t]) + Cardinality(played[t])
      BY <2>1, <3>3, <3>4, <1>4
    <3>. QED BY <3>1, <3>2, <3>5
  <2>2. CASE t # s
    BY <2>2, <1>3, <1>4
  <2>. QED BY <2>1, <2>2
<1>. QED BY <1>2, <1>3, <1>6

LEMMA LayCards ==
  ASSUME GameInv, NEW s \in Seat, NEW c \in hands[s], LegalPlay(s, c),
         hands' = HandsAfter(s, c), played' = PlayedAfter(s, c),
         UNCHANGED <<thrown, starter, rest>>, phase' \in {"play", "complete"}
  PROVE  /\ hands' \in [Seat -> SUBSET Card] /\ played' \in [Seat -> SUBSET Card]
         /\ CardInv'
<1>1. phase = "play" /\ CardInv
  BY DEF LegalPlay, GameInv
<1>2. \A t \in Seat :
       /\ IsFiniteSet(hands'[t]) /\ IsFiniteSet(played'[t]) /\ IsFiniteSet(thrown'[t])
       /\ hands'[t] \cap thrown'[t] = {}
       /\ played'[t] \cap (hands'[t] \cup thrown'[t]) = {}
       /\ thrown'[t] # {} => Cardinality(thrown'[t]) = 2
       /\ Cardinality(hands'[t]) + Cardinality(played'[t]) + Cardinality(thrown'[t]) = 6
       /\ hands'[t] \cup played'[t] = hands[t] \cup played[t]
  BY <1>1, AfterFacts DEF CardInv
<1>3. (hands'[0] \cup played'[0] \cup thrown'[0])
        \cap (hands'[1] \cup played'[1] \cup thrown'[1]) = {}
  BY <1>1, <1>2 DEF CardInv, Seat
<1>4. /\ phase' # "discard"
      /\ starter' \in Card /\ \A t \in Seat : thrown'[t] # {}
  BY <1>1 DEF CardInv
<1>. QED BY <1>2, <1>3, <1>4, AfterFacts DEF CardInv

-----------------------------------------------------------------------------
(* How a play ends: the game won, the series over, or the series going on. *)

LEMMA EndInv ==
  ASSUME GameInv, NEW s \in Seat, NEW c \in hands[s], LegalPlay(s, c),
         NEW w \in Seat, NEW sc, Won(sc, w) => WonBy(sc, w),
         NEW events, NEW reveals, WinsWith(w, sc, events, reveals),
         SeriesGoesOn(s, c), gone' \in [Seat -> BOOLEAN]
  PROVE  GameInv'
<1>1. /\ phase' = "complete" /\ winner' \in Seat \cup {NoSeat}
      /\ scores' \in [Seat -> 0..Target] /\ ScoreInv'
  <2>1. WonBy(sc, w)
    BY DEF WinsWith
  <2>. QED BY <2>1, WinsWithFacts
<1>2. /\ hands' = HandsAfter(s, c) /\ played' = PlayedAfter(s, c)
      /\ pile' = Append(pile, c) /\ count' = CountAfter(c) /\ lastPlayer' = s
      /\ UNCHANGED <<dealer, thrown, starter, rest>>
  BY DEF SeriesGoesOn
<1>3. /\ hands' \in [Seat -> SUBSET Card] /\ played' \in [Seat -> SUBSET Card]
      /\ CardInv'
  BY <1>1, <1>2, LayCards
<1>4. CountAfter(c) \in 0..31 /\ Append(pile, c) \in Seq(Card)
  BY LayFacts
<1>5. TypeOK'
  BY <1>1, <1>2, <1>3, <1>4 DEF GameInv, TypeOK
<1>6. PlayInv'
  BY <1>1 DEF PlayInv, TurnCanPlay, PassedSeatIsStuck
<1>. QED BY <1>1, <1>3, <1>5, <1>6 DEF GameInv

\* A new series is led by a seat that still has a card, and any card fits.
LEMMA SeriesEndsInv ==
  ASSUME GameInv, NEW s \in Seat, NEW c \in hands[s], LegalPlay(s, c),
         ~AllDown(s, c), SeriesEnds(s, c),
         NEW sc, ~Won(sc, s) => Below(sc), GoesOn(s, sc)
  PROVE  GameInv'
<1>0. PICK leader \in Seat : leader = LeaderAfter(HandsAfter(s, c), s)
  BY SeatFacts DEF LeaderAfter
<1>1. /\ hands' = HandsAfter(s, c) /\ played' = PlayedAfter(s, c)
      /\ pile' = <<>> /\ count' = 0 /\ gone' = NoneGone
      /\ lastPlayer' = Other(leader)
      /\ UNCHANGED <<dealer, thrown, starter, rest, phase>>
      /\ phase = "play" /\ phase' = "play"
  BY <1>0 DEF SeriesEnds, LegalPlay
<1>2. winner' = NoSeat /\ Below(scores') /\ ScoreInv'
  BY <1>1, LayFacts, GoesOnFacts
<1>3. /\ hands' \in [Seat -> SUBSET Card] /\ played' \in [Seat -> SUBSET Card]
      /\ CardInv'
  BY <1>1, LayCards
<1>4. HandsAfter(s, c)[leader] # {}
  BY <1>0, SeatFacts DEF LeaderAfter, AllDown
<1>5. TypeOK'
  BY <1>1, <1>2, <1>3, SeatFacts, EmptyFacts DEF GameInv, TypeOK, Below
<1>6. CanPlay(leader)'
  <2>1. PICK d \in hands'[leader] : TRUE
    BY <1>1, <1>4
  <2>2. d \in Card
    BY <1>3, <2>1
  <2>. QED BY <2>1, <2>2, <1>1, CardFacts DEF CanPlay, HasPlay, Fits
<1>7. PlayInv'
  <2>1. Other(lastPlayer') = leader
    BY <1>1, SeatFacts
  <2>2. Turn' = leader
    BY <2>1, <1>1, <1>6, EmptyFacts DEF Turn, CanPlay
  <2>. QED BY <2>2, <1>1, <1>6, EmptyFacts DEF PlayInv, TurnCanPlay, PassedSeatIsStuck
<1>. QED BY <1>2, <1>3, <1>5, <1>7 DEF GameInv

\* The series goes on: only what the turn depends on is left to show.
LEMMA SeriesGoesOnInv ==
  ASSUME GameInv, NEW s \in Seat, NEW c \in hands[s], LegalPlay(s, c),
         GoesOn(s, Pegged(s, c)), SeriesGoesOn(s, c), phase' = phase,
         gone' \in [Seat -> BOOLEAN], PlayInv'
  PROVE  GameInv'
<1>1. /\ hands' = HandsAfter(s, c) /\ played' = PlayedAfter(s, c)
      /\ pile' = Append(pile, c) /\ count' = CountAfter(c) /\ lastPlayer' = s
      /\ UNCHANGED <<dealer, thrown, starter, rest>>
      /\ phase' = "play"
  BY LayFacts DEF SeriesGoesOn
<1>2. /\ winner = NoSeat /\ (~Won(Pegged(s, c), s) => Below(Pegged(s, c)))
      /\ CountAfter(c) \in 0..31 /\ Append(pile, c) \in Seq(Card)
  BY LayFacts
<1>3. winner' = NoSeat /\ Below(scores') /\ ScoreInv'
  BY <1>1, <1>2, GoesOnFacts
<1>4. /\ hands' \in [Seat -> SUBSET Card] /\ played' \in [Seat -> SUBSET Card]
      /\ CardInv'
  BY <1>1, LayCards
<1>5. TypeOK'
  BY <1>1, <1>2, <1>3, <1>4 DEF GameInv, TypeOK, Below
<1>. QED BY <1>3, <1>4, <1>5 DEF GameInv

LEMMA PlayThenOpponentInv ==
  ASSUME GameInv, NEW s \in Seat, NEW c \in hands[s], PlayThenOpponent(s, c)
  PROVE  GameInv'
<1>1. /\ LegalPlay(s, c) /\ GoesOn(s, Pegged(s, c)) /\ SeriesGoesOn(s, c)
      /\ phase' = phase /\ gone' = gone
      /\ ~gone[Other(s)] /\ HasPlay(hands[Other(s)], CountAfter(c))
  BY DEF PlayThenOpponent, OpponentNext
<1>2. /\ hands' = HandsAfter(s, c) /\ count' = CountAfter(c) /\ lastPlayer' = s
      /\ phase' = "play" /\ ~gone[s]
  BY <1>1, LayFacts DEF SeriesGoesOn
<1>3. hands'[Other(s)] = hands[Other(s)]
  BY <1>1, <1>2, AfterFacts
<1>4. PlayInv'
  <2>1. Turn' = Other(s) /\ HasPlay(hands'[Other(s)], count')
    BY <1>1, <1>2, <1>3 DEF Turn, CanPlay
  <2>2. \A t \in Seat : ~gone'[t]
    BY <1>1, <1>2, SeatFacts
  <2>. QED BY <2>1, <2>2, <1>2 DEF PlayInv, TurnCanPlay, PassedSeatIsStuck, CanPlay
<1>. QED BY <1>1, <1>4, SeriesGoesOnInv DEF GameInv, TypeOK

\* The count only grows: a seat with nothing to play now has nothing later.
LEMMA StuckStaysStuck ==
  ASSUME NEW cards \in SUBSET Card, NEW m \in Nat, NEW n \in Nat, m <= n,
         ~HasPlay(cards, m)
  PROVE  ~HasPlay(cards, n)
BY CardFacts DEF HasPlay, Fits

LEMMA PlayThenSamePlayerInv ==
  ASSUME GameInv, NEW s \in Seat, NEW c \in hands[s], PlayThenSamePlayer(s, c)
  PROVE  GameInv'
<1>1. /\ LegalPlay(s, c) /\ GoesOn(s, Pegged(s, c)) /\ SeriesGoesOn(s, c)
      /\ phase' = phase /\ gone' = [gone EXCEPT ![Other(s)] = TRUE]
      /\ (gone[Other(s)] \/ ~HasPlay(hands[Other(s)], CountAfter(c)))
      /\ HasPlay(HandsAfter(s, c)[s], CountAfter(c))
  BY DEF PlayThenSamePlayer, OpponentNext, SamePlayerNext
<1>2. /\ hands' = HandsAfter(s, c) /\ count' = CountAfter(c) /\ lastPlayer' = s
      /\ phase = "play" /\ phase' = "play" /\ ~gone[s]
      /\ CountAfter(c) \in 0..31 /\ CountAfter(c) >= count
  BY <1>1, LayFacts DEF SeriesGoesOn
<1>3. /\ hands'[Other(s)] = hands[Other(s)] /\ hands[Other(s)] \in SUBSET Card
      /\ count \in 0..31 /\ gone \in [Seat -> BOOLEAN] /\ Other(s) \in Seat
  BY <1>1, <1>2, AfterFacts, SeatFacts DEF GameInv, TypeOK
<1>4. gone' \in [Seat -> BOOLEAN] /\ gone'[Other(s)] /\ ~gone'[s]
  BY <1>1, <1>2, <1>3, SeatFacts
<1>5. ~HasPlay(hands'[Other(s)], count')
  <2>1. CASE gone[Other(s)]
    <3>1. ~HasPlay(hands[Other(s)], count)
      BY <2>1, <1>2, <1>3 DEF GameInv, PlayInv, PassedSeatIsStuck, CanPlay
    <3>. QED BY <3>1, <1>2, <1>3, StuckStaysStuck
  <2>2. CASE ~HasPlay(hands[Other(s)], CountAfter(c))
    BY <2>2, <1>2, <1>3
  <2>. QED BY <2>1, <2>2, <1>1
<1>6. PlayInv'
  <2>1. Turn' = s /\ HasPlay(hands'[s], count')
    BY <1>1, <1>2, <1>4 DEF Turn
  <2>2. \A t \in Seat : gone'[t] => t = Other(s)
    BY <1>4, SeatFacts
  <2>. QED BY <2>1, <2>2, <1>2, <1>5 DEF PlayInv, TurnCanPlay, PassedSeatIsStuck, CanPlay
<1>. QED BY <1>1, <1>4, <1>6, SeriesGoesOnInv

LEMMA PlayWinsInv ==
  ASSUME GameInv, NEW s \in Seat, NEW c \in hands[s], PlayWins(s, c)
  PROVE  GameInv'
<1>1. /\ LegalPlay(s, c) /\ WinsWith(s, Pegged(s, c), Down(s, c), <<>>)
      /\ SeriesGoesOn(s, c) /\ gone' \in [Seat -> BOOLEAN]
  BY DEF PlayWins, GameInv, TypeOK
<1>2. Won(Pegged(s, c), s) => WonBy(Pegged(s, c), s)
  BY <1>1, LayFacts
<1>. QED BY <1>1, <1>2, EndInv

LEMMA PlayThirtyOneInv ==
  ASSUME GameInv, NEW s \in Seat, NEW c \in hands[s], PlayThirtyOne(s, c)
  PROVE  GameInv'
<1>1. /\ LegalPlay(s, c) /\ ~AllDown(s, c) /\ GoesOn(s, Pegged(s, c)) /\ SeriesEnds(s, c)
  BY DEF PlayThirtyOne
<1>2. ~Won(Pegged(s, c), s) => Below(Pegged(s, c))
  BY <1>1, LayFacts
<1>. QED BY <1>1, <1>2, SeriesEndsInv

LEMMA PlayGoInv ==
  ASSUME GameInv, NEW s \in Seat, NEW c \in hands[s], PlayGo(s, c)
  PROVE  GameInv'
<1>. DEFINE sc == AddPoints(Target, Pegged(s, c), s, 1)
            go == Append(Down(s, c) \o PassOf(Other(s)), GoAwarded(s))
<1>1. /\ LegalPlay(s, c) /\ ~AllDown(s, c) /\ ~Won(Pegged(s, c), s)
      /\ \/ /\ WinsWith(s, sc, go, <<>>)
            /\ SeriesGoesOn(s, c)
            /\ gone' = [gone EXCEPT ![Other(s)] = TRUE]
         \/ GoesOn(s, sc) /\ SeriesEnds(s, c)
  BY DEF PlayGo
<1>2. (~Won(sc, s) => Below(sc)) /\ (Won(sc, s) => WonBy(sc, s))
  BY <1>1, LayFacts, AwardFacts
<1>3. [gone EXCEPT ![Other(s)] = TRUE] \in [Seat -> BOOLEAN]
  BY DEF GameInv, TypeOK
<1>. HIDE DEF sc, go
<1>. QED BY <1>1, <1>2, <1>3, EndInv, SeriesEndsInv

-----------------------------------------------------------------------------
(* The last card and the show.                                             *)

LEMMA LastCardFacts ==
  ASSUME GameInv, NEW s \in Seat, NEW c \in hands[s], LastCard(s, c)
  PROVE  /\ LegalPlay(s, c)
         /\ ~Won(LastCardScores(s, c), s) => Below(LastCardScores(s, c))
         /\ Won(LastCardScores(s, c), s) => WonBy(LastCardScores(s, c), s)
<1>1. LegalPlay(s, c) /\ ~Won(Pegged(s, c), s)
  BY DEF LastCard
<1>2. Below(Pegged(s, c))
  BY <1>1, LayFacts
<1>3. CASE CountAfter(c) = 31
  BY <1>1, <1>2, <1>3 DEF LastCardScores
<1>4. CASE CountAfter(c) # 31
  BY <1>1, <1>2, <1>4, AwardFacts DEF LastCardScores
<1>. QED BY <1>1, <1>3, <1>4

LEMMA LastCardWinsInv ==
  ASSUME GameInv, NEW s \in Seat, NEW c \in hands[s], LastCardWins(s, c)
  PROVE  GameInv'
<1>1. /\ LastCard(s, c)
      /\ WinsWith(s, LastCardScores(s, c), LastCardEvents(s, c), <<>>)
      /\ SeriesGoesOn(s, c) /\ gone' \in [Seat -> BOOLEAN]
  BY DEF LastCardWins, GameInv, TypeOK
<1>. QED BY <1>1, LastCardFacts, EndInv

LEMMA ShowPointsAreNat ==
  ASSUME GameInv, NEW s \in Seat, NEW c \in hands[s], LegalPlay(s, c)
  PROVE  /\ ShowPoints(s, c).pone \in Nat
         /\ ShowPoints(s, c).dealer \in Nat
         /\ ShowPoints(s, c).crib \in Nat
<1>1. dealer \in Seat /\ Pone \in Seat /\ 0 \in Seat /\ 1 \in Seat
  BY SeatFacts DEF GameInv, TypeOK, Pone, Seat
<1>2. IsFiniteSet(PlayedAfter(s, c)[Pone]) /\ IsFiniteSet(PlayedAfter(s, c)[dealer])
  BY <1>1, AfterFacts
<1>3. IsFiniteSet(Crib)
  BY <1>1, FS_Union DEF GameInv, CardInv, Crib
<1>. QED BY <1>2, <1>3, HandScoreIsNat DEF ShowPoints

LEMMA ShowInv ==
  ASSUME GameInv, NEW s \in Seat, NEW c \in hands[s], Show(s, c)
  PROVE  GameInv'
<1>. DEFINE points == ShowPoints(s, c)
            laid   == PlayedAfter(s, c)
            sc1    == AddPoints(Target, LastCardScores(s, c), Pone, points.pone)
            sc2    == AddPoints(Target, sc1, dealer, points.dealer)
            sc3    == AddPoints(Target, sc2, dealer, points.crib)
            ev1    == Append(LastCardEvents(s, c), HandShown(Pone, laid[Pone], points.pone))
            ev2    == Append(ev1, HandShown(dealer, laid[dealer], points.dealer))
            ev3    == Append(ev2, CribShown(Crib, points.crib))
            noCrib == ShowNotCounted(dealer, Crib, TRUE)
            reveal == <<ShowNotCounted(dealer, laid[dealer], FALSE), noCrib>>
<1>1. /\ LastCard(s, c) /\ ~Won(LastCardScores(s, c), s)
      /\ \/ /\ WinsWith(Pone, sc1, ev1, reveal)
            /\ SeriesGoesOn(s, c) /\ gone' = gone
         \/ /\ ~Won(sc1, Pone)
            /\ WinsWith(dealer, sc2, ev2, <<noCrib>>)
            /\ SeriesGoesOn(s, c) /\ gone' = gone
         \/ /\ ~Won(sc1, Pone) /\ ~Won(sc2, dealer)
            /\ WinsWith(dealer, sc3, ev3, <<>>)
            /\ SeriesGoesOn(s, c) /\ gone' = gone
         \/ /\ ~Won(sc1, Pone) /\ ~Won(sc2, dealer)
            /\ GoesOn(dealer, sc3)
            /\ DealHand(Pone, ev3)
  BY DEF Show, ResolveShow
<1>2. /\ LegalPlay(s, c) /\ Below(LastCardScores(s, c)) /\ winner = NoSeat
      /\ dealer \in Seat /\ Pone \in Seat /\ gone \in [Seat -> BOOLEAN]
  BY <1>1, LastCardFacts, LayFacts, SeatFacts DEF GameInv, TypeOK, Pone
<1>3. points.pone \in Nat /\ points.dealer \in Nat /\ points.crib \in Nat
  BY <1>2, ShowPointsAreNat
<1>. HIDE DEF points, laid, ev1, ev2, ev3, noCrib, reveal
<1>4. (~Won(sc1, Pone) => Below(sc1)) /\ (Won(sc1, Pone) => WonBy(sc1, Pone))
  BY <1>2, <1>3, AwardFacts
<1>. HIDE DEF sc1
<1>5. Below(sc1) => /\ ~Won(sc2, dealer) => Below(sc2)
                    /\ Won(sc2, dealer) => WonBy(sc2, dealer)
  BY <1>2, <1>3, AwardFacts
<1>. HIDE DEF sc2
<1>6. Below(sc2) => /\ ~Won(sc3, dealer) => Below(sc3)
                    /\ Won(sc3, dealer) => WonBy(sc3, dealer)
  BY <1>2, <1>3, AwardFacts
<1>. HIDE DEF sc3
<1>7. CASE WinsWith(Pone, sc1, ev1, reveal) /\ SeriesGoesOn(s, c) /\ gone' = gone
  BY <1>2, <1>4, <1>7, EndInv
<1>8. CASE /\ ~Won(sc1, Pone)
           /\ WinsWith(dealer, sc2, ev2, <<noCrib>>)
           /\ SeriesGoesOn(s, c) /\ gone' = gone
  BY <1>2, <1>4, <1>5, <1>8, EndInv
<1>9. CASE /\ ~Won(sc1, Pone) /\ ~Won(sc2, dealer)
           /\ WinsWith(dealer, sc3, ev3, <<>>)
           /\ SeriesGoesOn(s, c) /\ gone' = gone
  BY <1>2, <1>4, <1>5, <1>6, <1>9, EndInv
<1>10. CASE /\ ~Won(sc1, Pone) /\ ~Won(sc2, dealer)
            /\ GoesOn(dealer, sc3)
            /\ DealHand(Pone, ev3)
  <2>1. Below(scores') /\ winner' = NoSeat
    BY <1>2, <1>4, <1>5, <1>6, <1>10 DEF GoesOn
  <2>. QED BY <2>1, <1>2, <1>10, DealHandInv
<1>. QED BY <1>1, <1>7, <1>8, <1>9, <1>10

-----------------------------------------------------------------------------
(* The theorems.                                                           *)

LEMMA NextInv == GameInv /\ [Next]_vars => GameInv'
<1>. SUFFICES ASSUME GameInv, [Next]_vars PROVE GameInv'
  OBVIOUS
<1>1. ASSUME NEW s \in Seat, NEW two \in Throws, Discard(s, two) PROVE GameInv'
  BY <1>1, DiscardInv
<1>2. ASSUME NEW s \in Seat, NEW c \in hands[s], Play(s, c) PROVE GameInv'
  BY <1>2, PlayWinsInv, PlayThenOpponentInv, PlayThenSamePlayerInv, PlayThirtyOneInv,
     PlayGoInv, LastCardWinsInv, ShowInv DEF Play
<1>3. CASE UNCHANGED vars
  BY <1>3 DEF vars, GameInv, TypeOK, CardInv, PlayInv, ScoreInv, TurnCanPlay,
     PassedSeatIsStuck, OnlyTheWinnerIsAtTarget, CanPlay, Turn
<1>. QED BY <1>1, <1>2, <1>3 DEF Next, RejectGameOver

(***************************************************************************)
(* The invariant of the engine, with all that makes it inductive: where    *)
(* the cards are, who can go, and who is at the target.                    *)
(***************************************************************************)
THEOREM GameInvariant == Spec => []GameInv
BY InitInv, NextInv, PTL DEF Spec

(***************************************************************************)
(* Every field of the game keeps its type: scores never pass the target    *)
(* and the count never passes thirty-one.                                  *)
(***************************************************************************)
THEOREM TypeCorrect == Spec => []TypeOK
<1>1. GameInv => TypeOK
  BY DEF GameInv
<1>. QED BY <1>1, GameInvariant, PTL

(***************************************************************************)
(* The play never gets stuck: the seat turn() names always holds a card    *)
(* that fits, and a seat that has passed has nothing to play until the     *)
(* series is reset, whatever was dealt, thrown and played.                 *)
(***************************************************************************)
THEOREM PlayGoesOn == Spec => []PlayNeverSticks
<1>1. GameInv => PlayNeverSticks
  BY DEF GameInv, PlayInv, PlayNeverSticks
<1>. QED BY <1>1, GameInvariant, PTL

(***************************************************************************)
(* One seat is at the target exactly when the game is complete, and it is  *)
(* the winner.                                                             *)
(***************************************************************************)
THEOREM WinnerIsAtTarget == Spec => []OnlyTheWinnerIsAtTarget
<1>1. GameInv => OnlyTheWinnerIsAtTarget
  BY DEF GameInv, ScoreInv
<1>. QED BY <1>1, GameInvariant, PTL

-----------------------------------------------------------------------------
(***************************************************************************)
(* What a command tells.  Only a show has events that count cards; its     *)
(* first is the non-dealer's hand, and what the dealer counts comes later. *)
(***************************************************************************)

\* A sequence of events that count no cards.
Quiet(ev) == \E S : ev \in Seq(S) /\ \A e \in S : ~CountedCards(e)

\* Its first counted event is p; the others come later and are in R.
Told(ev, p, R) ==
  \E S : /\ ev \in Seq(S)
         /\ \E k \in 1..Len(ev) :
              /\ ev[k] = p
              /\ \A i \in 1..Len(ev) :
                   CountedCards(ev[i]) => i = k \/ (i > k /\ ev[i] \in R)

LEMMA QuietEvents ==
  /\ \A s, two : ~CountedCards(DiscardedBy(s, two))
  /\ \A c, h : ~CountedCards(StarterCut(c, h))
  /\ \A s, c, pts : ~CountedCards(CardPlayed(s, c, pts))
  /\ \A s : ~CountedCards(Pass(s)) /\ ~CountedCards(GoAwarded(s))
  /\ \A l : ~CountedCards(SeriesReset(l)) /\ ~CountedCards(GameWon(l))
  /\ \A s, cs, b : ~CountedCards(ShowNotCounted(s, cs, b))
  /\ \A dl, hs : ~CountedCards(HandDealt(dl, hs))
BY DEF CountedCards, DiscardedBy, StarterCut, CardPlayed, Pass, GoAwarded,
   SeriesReset, GameWon, ShowNotCounted, HandDealt

LEMMA QuietOne == ASSUME NEW x, ~CountedCards(x) PROVE Quiet(<<x>>)
<1>1. PICK S : S = {x}
  OBVIOUS
<1>2. <<x>> \in Seq(S) /\ \A e \in S : ~CountedCards(e)
  BY <1>1
<1>. QED BY <1>2 DEF Quiet

LEMMA QuietNone == Quiet(<<>>)
<1>1. PICK S : S = {}
  OBVIOUS
<1>2. <<>> \in Seq(S) /\ \A e \in S : ~CountedCards(e)
  BY <1>1
<1>. QED BY <1>2 DEF Quiet

LEMMA QuietMore ==
  ASSUME NEW ev, Quiet(ev), NEW x, ~CountedCards(x)
  PROVE  Quiet(Append(ev, x))
<1>1. PICK S : ev \in Seq(S) /\ \A e \in S : ~CountedCards(e)
  BY DEF Quiet
<1>2. ev \in Seq(S \cup {x})
  BY <1>1
<1>3. Append(ev, x) \in Seq(S \cup {x})
  BY <1>2
<1>. QED BY <1>1, <1>3 DEF Quiet

LEMMA QuietJoin ==
  ASSUME NEW ev, Quiet(ev), NEW more, Quiet(more)
  PROVE  Quiet(ev \o more)
<1>1. PICK S : ev \in Seq(S) /\ \A e \in S : ~CountedCards(e)
  BY DEF Quiet
<1>2. PICK T : more \in Seq(T) /\ \A e \in T : ~CountedCards(e)
  BY DEF Quiet
<1>3. ev \in Seq(S \cup T) /\ more \in Seq(S \cup T)
  BY <1>1, <1>2
<1>4. ev \o more \in Seq(S \cup T)
  BY <1>3
<1>. QED BY <1>1, <1>2, <1>4 DEF Quiet

LEMMA QuietTells ==
  ASSUME NEW ev, Quiet(ev), NEW i \in DOMAIN ev
  PROVE  ~CountedCards(ev[i])
<1>1. PICK S : ev \in Seq(S) /\ \A e \in S : ~CountedCards(e)
  BY DEF Quiet
<1>. QED BY <1>1

LEMMA AppendFacts ==
  ASSUME NEW S, NEW ev \in Seq(S), NEW x
  PROVE  /\ Append(ev, x) \in Seq(S \cup {x})
         /\ Len(ev) \in Nat /\ Len(Append(ev, x)) = Len(ev) + 1
         /\ Append(ev, x)[Len(ev) + 1] = x
         /\ \A i \in 1..Len(ev) : Append(ev, x)[i] = ev[i]
<1>1. ev \in Seq(S \cup {x})
  OBVIOUS
<1>. QED BY <1>1

LEMMA ToldFirst ==
  ASSUME NEW ev, Quiet(ev), NEW p
  PROVE  Told(Append(ev, p), p, {})
<1>. DEFINE n == Append(ev, p)
<1>1. PICK S : ev \in Seq(S) /\ \A e \in S : ~CountedCards(e)
  BY DEF Quiet
<1>2. /\ n \in Seq(S \cup {p}) /\ Len(ev) \in Nat /\ Len(n) = Len(ev) + 1
      /\ n[Len(ev) + 1] = p /\ \A i \in 1..Len(ev) : n[i] = ev[i] /\ ev[i] \in S
  BY <1>1, AppendFacts
<1>. HIDE DEF n
<1>3. ASSUME NEW i \in 1..Len(n), CountedCards(n[i]) PROVE i = Len(ev) + 1
  <2>1. i \in 1..Len(ev) \/ i = Len(ev) + 1
    BY <1>2
  <2>. QED BY <1>1, <1>2, <1>3, <2>1
<1>4. Len(ev) + 1 \in 1..Len(n)
  BY <1>2
<1>5. Told(n, p, {})
  BY <1>2, <1>3, <1>4 DEF Told
<1>. QED BY <1>5 DEF n

LEMMA ToldMore ==
  ASSUME NEW ev, NEW p, NEW R, Told(ev, p, R), NEW x,
         NEW Q, R \subseteq Q, CountedCards(x) => x \in Q
  PROVE  Told(Append(ev, x), p, Q)
<1>. DEFINE n == Append(ev, x)
<1>1. PICK S : /\ ev \in Seq(S)
               /\ \E k \in 1..Len(ev) :
                    /\ ev[k] = p
                    /\ \A i \in 1..Len(ev) :
                         CountedCards(ev[i]) => i = k \/ (i > k /\ ev[i] \in R)
  BY DEF Told
<1>2. PICK k \in 1..Len(ev) :
             /\ ev[k] = p
             /\ \A i \in 1..Len(ev) :
                  CountedCards(ev[i]) => i = k \/ (i > k /\ ev[i] \in R)
  BY <1>1
<1>3. /\ n \in Seq(S \cup {x}) /\ Len(ev) \in Nat /\ Len(n) = Len(ev) + 1
      /\ n[Len(ev) + 1] = x /\ \A i \in 1..Len(ev) : n[i] = ev[i]
  BY <1>1, AppendFacts
<1>. HIDE DEF n
<1>4. k \in 1..Len(n) /\ n[k] = p /\ Len(ev) + 1 > k
  BY <1>2, <1>3
<1>5. ASSUME NEW i \in 1..Len(n), CountedCards(n[i])
      PROVE  i = k \/ (i > k /\ n[i] \in Q)
  <2>1. CASE i \in 1..Len(ev)
    BY <1>2, <1>3, <1>5, <2>1
  <2>2. CASE i = Len(ev) + 1
    BY <1>3, <1>4, <1>5, <2>2
  <2>. QED BY <1>3, <2>1, <2>2
<1>6. Told(n, p, Q)
  BY <1>3, <1>4, <1>5 DEF Told
<1>. QED BY <1>6 DEF n

\* Adding a short sequence is appending its elements.
LEMMA JoinIsAppend ==
  ASSUME NEW S, NEW ev \in Seq(S), NEW a, NEW b
  PROVE  /\ ev \o <<>> = ev
         /\ ev \o <<a>> = Append(ev, a)
         /\ ev \o <<a, b>> = Append(Append(ev, a), b)
<1>1. ev \in Seq(S \cup {a, b})
  OBVIOUS
<1>. QED BY <1>1
\* Everything a play itself emits counts no cards.
LEMMA QuietPlay ==
  ASSUME NEW s, NEW c
  PROVE  /\ Quiet(Down(s, c))
         /\ Quiet(PassOf(s))
         /\ Quiet(LastCardEvents(s, c))
         /\ \A l : ~CountedCards(ResetEvent(s, c)) /\ ~CountedCards(GameWon(l))
<1>1. Quiet(Down(s, c))
  BY QuietOne, QuietEvents DEF Down
<1>2. Quiet(PassOf(s))
  BY QuietOne, QuietNone, QuietEvents DEF PassOf
<1>3. Quiet(Append(Down(s, c), GoAwarded(s)))
  BY <1>1, QuietMore, QuietEvents
<1>. QED BY <1>1, <1>2, <1>3, QuietEvents DEF LastCardEvents, ResetEvent

LEMMA QuietWin ==
  ASSUME NEW s, NEW sc, NEW ev, Quiet(ev), WinsWith(s, sc, ev, <<>>)
  PROVE  Quiet(out')
<1>1. Quiet(Append(ev, GameWon(s)))
  BY QuietMore, QuietEvents
<1>2. Quiet(Append(ev, GameWon(s)) \o <<>>)
  BY <1>1, QuietNone, QuietJoin
<1>. QED BY <1>2 DEF WinsWith

LEMMA QuietDiscard ==
  ASSUME NEW s \in Seat, NEW two \in Throws, Discard(s, two)
  PROVE  Quiet(out')
<1>1. Quiet(<<DiscardedBy(s, two)>>)
  BY QuietOne, QuietEvents
<1>. DEFINE ev == <<DiscardedBy(s, two)>>
            heels == IF rest.rank = Jack THEN 2 ELSE 0
            sc == AddPoints(Target, scores, dealer, heels)
            cut == Append(ev, StarterCut(rest, heels))
<1>2. Quiet(cut)
  BY <1>1, QuietMore, QuietEvents
<1>3. out' = ev \/ out' = cut \/ WinsWith(dealer, sc, cut, <<>>)
  BY DEF Discard, CutStarter
<1>. HIDE DEF ev, cut, sc
<1>4. Quiet(ev)
  BY <1>1 DEF ev
<1>. QED BY <1>2, <1>3, <1>4, QuietWin

LEMMA QuietUnlessShow ==
  ASSUME NEW s \in Seat, NEW c \in hands[s], Play(s, c), ~Show(s, c)
  PROVE  Quiet(out')
<1>. DEFINE down == Down(s, c)
            pass == down \o PassOf(Other(s))
            go   == Append(pass, GoAwarded(s))
            last == LastCardEvents(s, c)
<1>1. Quiet(down) /\ Quiet(last) /\ Quiet(PassOf(Other(s)))
      /\ ~CountedCards(ResetEvent(s, c))
  BY QuietPlay
<1>2. Quiet(pass)
  BY <1>1, QuietJoin
<1>3. Quiet(go)
  BY <1>2, QuietMore, QuietEvents
<1>4. Quiet(Append(down, ResetEvent(s, c))) /\ Quiet(Append(go, ResetEvent(s, c)))
  BY <1>1, <1>3, QuietMore
<1>5. CASE PlayWins(s, c)
  BY <1>1, <1>5, QuietWin DEF PlayWins
<1>6. CASE PlayThenOpponent(s, c)
  BY <1>1, <1>6 DEF PlayThenOpponent
<1>7. CASE PlayThenSamePlayer(s, c)
  BY <1>2, <1>7 DEF PlayThenSamePlayer
<1>8. CASE PlayThirtyOne(s, c)
  BY <1>4, <1>8 DEF PlayThirtyOne
<1>9. CASE PlayGo(s, c)
  <2>. DEFINE sc == AddPoints(Target, Pegged(s, c), s, 1)
  <2>1. WinsWith(s, sc, go, <<>>) \/ out' = Append(go, ResetEvent(s, c))
    BY <1>9 DEF PlayGo
  <2>. HIDE DEF go, sc
  <2>. QED BY <2>1, <1>3, <1>4, QuietWin
<1>10. CASE LastCardWins(s, c)
  BY <1>1, <1>10, QuietWin DEF LastCardWins
<1>. QED BY <1>5, <1>6, <1>7, <1>8, <1>9, <1>10 DEF Play

LEMMA ToldJoin ==
  ASSUME NEW ev, NEW p, NEW R, Told(ev, p, R),
         NEW a, ~CountedCards(a), NEW b, ~CountedCards(b)
  PROVE  /\ Told(ev \o <<>>, p, R)
         /\ Told(ev \o <<a>>, p, R)
         /\ Told(ev \o <<a, b>>, p, R)
<1>1. PICK S : ev \in Seq(S)
  BY DEF Told
<1>2. /\ ev \o <<>> = ev
      /\ ev \o <<a>> = Append(ev, a)
      /\ ev \o <<a, b>> = Append(Append(ev, a), b)
  BY <1>1, JoinIsAppend
<1>3. Told(Append(ev, a), p, R)
  BY ToldMore
<1>4. Told(Append(Append(ev, a), b), p, R)
  BY <1>3, ToldMore
<1>. QED BY <1>2, <1>3, <1>4

\* The events of a show that count cards.
ShowsPone(s, c)   == HandShown(Pone, PlayedAfter(s, c)[Pone], ShowPoints(s, c).pone)
ShowsDealer(s, c) == HandShown(dealer, PlayedAfter(s, c)[dealer], ShowPoints(s, c).dealer)
ShowsCrib(s, c)   == CribShown(Crib, ShowPoints(s, c).crib)

\* What the last card pays never lowers a score.
LEMMA LastCardPays ==
  ASSUME GameInv, NEW s \in Seat, NEW c \in hands[s], LastCard(s, c), NEW t \in Seat
  PROVE  /\ LastCardScores(s, c)[t] >= scores[t]
         /\ scores[t] \in Nat
         /\ LastCardScores(s, c)[t] \in Int
<1>1. /\ LegalPlay(s, c) /\ ~Won(Pegged(s, c), s)
      /\ Below(scores) /\ Score(pile, c) \in Nat /\ Below(Pegged(s, c))
  BY LayFacts DEF LastCard
<1>2. Pegged(s, c)[t] >= scores[t]
  BY <1>1, AwardFacts, SeatFacts DEF Pegged, Below
<1>3. Pegged(s, c)[t] \in 0..Target /\ scores[t] \in 0..Target
  BY <1>1 DEF Below
<1>. DEFINE after == AddPoints(Target, Pegged(s, c), s, 1)
<1>4. after[t] >= Pegged(s, c)[t] /\ after[t] \in 0..Target
  <2>1. Below(after) \/ WonBy(after, s)
    BY <1>1, AwardFacts
  <2>2. after[t] \in 0..Target
    BY <2>1 DEF Below, WonBy
  <2>3. after[s] >= Pegged(s, c)[s] /\ after[Other(s)] = Pegged(s, c)[Other(s)]
    BY <1>1, AwardFacts
  <2>4. t = s \/ t = Other(s)
    BY SeatFacts
  <2>5. Pegged(s, c)[t] \in Int
    BY <1>3
  <2>. QED BY <2>2, <2>3, <2>4, <2>5
<1>. HIDE DEF after
<1>5. LastCardScores(s, c) \in {Pegged(s, c), after}
  BY DEF LastCardScores, after
<1>. QED BY <1>2, <1>3, <1>4, <1>5, TargetAssumption

LEMMA AwardReaches ==
  ASSUME NEW sc, Below(sc), NEW s \in Seat, NEW pts \in Nat, sc[s] + pts >= Target
  PROVE  Won(AddPoints(Target, sc, s, pts), s)
BY TargetAssumption DEF Below, Won, AddPoints

\* A show counts the non-dealer's hand first; what it counts for the dealer
\* comes later, and only if the non-dealer has not won.
LEMMA ShowTells ==
  ASSUME GameInv, NEW s \in Seat, NEW c \in hands[s], Show(s, c)
  PROVE  /\ \E R \in SUBSET {ShowsDealer(s, c), ShowsCrib(s, c)} :
              Told(out', ShowsPone(s, c), R) /\ (R # {} => winner' # Pone)
         /\ scores[Pone] + ShowPoints(s, c).pone >= Target => winner' = Pone
<1>. DEFINE points == ShowPoints(s, c)
            laid   == PlayedAfter(s, c)
            hp     == ShowsPone(s, c)
            hd     == ShowsDealer(s, c)
            cr     == ShowsCrib(s, c)
            sc1    == AddPoints(Target, LastCardScores(s, c), Pone, points.pone)
            sc2    == AddPoints(Target, sc1, dealer, points.dealer)
            sc3    == AddPoints(Target, sc2, dealer, points.crib)
            ev1    == Append(LastCardEvents(s, c), hp)
            ev2    == Append(ev1, hd)
            ev3    == Append(ev2, cr)
            noCrib == ShowNotCounted(dealer, Crib, TRUE)
            noHand == ShowNotCounted(dealer, laid[dealer], FALSE)
<1>1. /\ LastCard(s, c) /\ ~Won(LastCardScores(s, c), s)
      /\ \/ WinsWith(Pone, sc1, ev1, <<noHand, noCrib>>)
         \/ /\ ~Won(sc1, Pone)
            /\ WinsWith(dealer, sc2, ev2, <<noCrib>>)
         \/ /\ ~Won(sc1, Pone)
            /\ WinsWith(dealer, sc3, ev3, <<>>)
         \/ /\ ~Won(sc1, Pone)
            /\ GoesOn(dealer, sc3)
            /\ DealHand(Pone, ev3)
  BY DEF Show, ResolveShow, ShowsPone, ShowsDealer, ShowsCrib
<1>2. /\ LegalPlay(s, c) /\ Below(LastCardScores(s, c)) /\ winner = NoSeat
      /\ Pone \in Seat /\ Pone # dealer /\ Pone # NoSeat
  BY <1>1, LastCardFacts, LayFacts, SeatFacts DEF GameInv, TypeOK, Pone
<1>3. scores[Pone] + points.pone >= Target => Won(sc1, Pone)
  <2>1. points.pone \in Nat
    BY <1>2, ShowPointsAreNat
  <2>2. /\ LastCardScores(s, c)[Pone] >= scores[Pone]
        /\ scores[Pone] \in Nat /\ LastCardScores(s, c)[Pone] \in Int
    BY <1>1, <1>2, LastCardPays
  <2>. HIDE DEF points
  <2>3. scores[Pone] + points.pone >= Target
          => LastCardScores(s, c)[Pone] + points.pone >= Target
    BY <2>1, <2>2, TargetAssumption
  <2>. QED BY <2>1, <2>3, <1>2, AwardReaches
<1>4. ~CountedCards(noCrib) /\ ~CountedCards(noHand)
      /\ \A w : ~CountedCards(GameWon(w))
      /\ \A dl, hs : ~CountedCards(HandDealt(dl, hs))
  BY QuietEvents
<1>5. Told(ev1, hp, {})
  BY QuietPlay, ToldFirst
<1>6. Told(ev2, hp, {hd})
  BY <1>5, ToldMore
<1>7. Told(ev3, hp, {hd, cr})
  BY <1>6, ToldMore
<1>. HIDE DEF hp, hd, cr, ev1, ev2, ev3, sc1, sc2, sc3, noCrib, noHand, points
<1>8. CASE WinsWith(Pone, sc1, ev1, <<noHand, noCrib>>)
  <2>1. Told(Append(ev1, GameWon(Pone)), hp, {})
    BY <1>4, <1>5, ToldMore
  <2>2. Told(Append(ev1, GameWon(Pone)) \o <<noHand, noCrib>>, hp, {})
    BY <2>1, <1>4, ToldJoin
  <2>3. Told(out', hp, {}) /\ winner' = Pone
    BY <2>2, <1>8 DEF WinsWith
  <2>. QED BY <2>3 DEF hp
<1>9. CASE ~Won(sc1, Pone) /\ WinsWith(dealer, sc2, ev2, <<noCrib>>)
  <2>1. Told(Append(ev2, GameWon(dealer)), hp, {hd})
    BY <1>4, <1>6, ToldMore
  <2>2. Told(Append(ev2, GameWon(dealer)) \o <<noCrib>>, hp, {hd})
    BY <2>1, <1>4, ToldJoin
  <2>3. Told(out', hp, {hd}) /\ winner' # Pone
    BY <2>2, <1>2, <1>9 DEF WinsWith
  <2>. QED BY <2>3, <1>3, <1>9 DEF hp, hd, points
<1>10. CASE ~Won(sc1, Pone) /\ WinsWith(dealer, sc3, ev3, <<>>)
  <2>1. Told(Append(ev3, GameWon(dealer)), hp, {hd, cr})
    BY <1>4, <1>7, ToldMore
  <2>2. Told(Append(ev3, GameWon(dealer)) \o <<>>, hp, {hd, cr})
    BY <2>1, <1>4, ToldJoin
  <2>3. Told(out', hp, {hd, cr}) /\ winner' # Pone
    BY <2>2, <1>2, <1>10 DEF WinsWith
  <2>. QED BY <2>3, <1>3, <1>10 DEF hp, hd, cr, points
<1>11. CASE ~Won(sc1, Pone) /\ GoesOn(dealer, sc3) /\ DealHand(Pone, ev3)
  <2>1. PICK deck \in Decks : out' = Append(ev3, HandDealt(Pone, DealtHands(deck, Pone)))
    BY <1>11 DEF DealHand
  <2>2. Told(out', hp, {hd, cr})
    BY <2>1, <1>4, <1>7, ToldMore
  <2>3. winner' # Pone
    BY <1>2, <1>11 DEF GoesOn
  <2>. QED BY <2>2, <2>3, <1>3, <1>11 DEF hp, hd, cr, points
<1>. QED BY <1>1, <1>8, <1>9, <1>10, <1>11

(***************************************************************************)
(* The non-dealer counts first: a hand that takes it to the target wins,   *)
(* and the dealer's hand and crib are counted only after it and only if it *)
(* did not win.                                                            *)
(***************************************************************************)
THEOREM PoneIsCountedFirst == Spec => PoneCountsFirst
<1>. DEFINE First == \A i \in DOMAIN out' :
              /\ CountedForPone(out'[i]) /\ scores[Other(dealer)] + out'[i].points >= Target
                   => winner' = Other(dealer)
              /\ CountedForDealer(out'[i])
                   => /\ winner' # Other(dealer)
                      /\ \E j \in 1..(i - 1) : CountedForPone(out'[j])
<1>1. ASSUME Quiet(out') PROVE First
  <2>1. \A i \in DOMAIN out' : ~CountedCards(out'[i])
    BY <1>1, QuietTells
  <2>2. \A e : CountedForPone(e) \/ CountedForDealer(e) => CountedCards(e)
    BY DEF CountedCards, CountedForPone, CountedForDealer
  <2>. QED BY <2>1, <2>2
<1>2. ASSUME GameInv, NEW s \in Seat, NEW c \in hands[s], Show(s, c) PROVE First
  <2>. DEFINE hp == ShowsPone(s, c)
  <2>1. /\ dealer # Other(dealer)
        /\ hp.type = "hand_shown" /\ hp.seat = Other(dealer)
        /\ hp.points = ShowPoints(s, c).pone
        /\ \A e \in {ShowsDealer(s, c), ShowsCrib(s, c)} : ~CountedForPone(e)
    BY <1>2, SeatFacts
    DEF ShowsPone, ShowsDealer, ShowsCrib, HandShown, CribShown, Pone, CountedForPone,
        GameInv, TypeOK
  <2>2. CountedForPone(hp) /\ ~CountedForDealer(hp)
    BY <2>1 DEF CountedForPone, CountedForDealer
  <2>3. PICK R \in SUBSET {ShowsDealer(s, c), ShowsCrib(s, c)} :
          Told(out', hp, R) /\ (R # {} => winner' # Other(dealer))
    BY <1>2, ShowTells DEF Pone
  <2>4. scores[Other(dealer)] + hp.points >= Target => winner' = Other(dealer)
    BY <1>2, <2>1, ShowTells DEF Pone
  <2>. HIDE DEF hp
  <2>5. PICK S : /\ out' \in Seq(S)
                 /\ \E k \in 1..Len(out') :
                      /\ out'[k] = hp
                      /\ \A i \in 1..Len(out') : CountedCards(out'[i])
                           => i = k \/ (i > k /\ out'[i] \in R)
    BY <2>3 DEF Told
  <2>6. PICK k \in 1..Len(out') :
          /\ out'[k] = hp
          /\ \A i \in 1..Len(out') : CountedCards(out'[i])
               => i = k \/ (i > k /\ out'[i] \in R)
    BY <2>5
  <2>7. ASSUME NEW i \in DOMAIN out'
        PROVE  /\ CountedForPone(out'[i])
                    /\ scores[Other(dealer)] + out'[i].points >= Target
                    => winner' = Other(dealer)
               /\ CountedForDealer(out'[i])
                    => /\ winner' # Other(dealer)
                       /\ \E j \in 1..(i - 1) : CountedForPone(out'[j])
    <3>1. i \in 1..Len(out') /\ Len(out') \in Nat
      BY <2>5, <2>7
    <3>2. CountedForPone(out'[i]) \/ CountedForDealer(out'[i]) => CountedCards(out'[i])
      BY DEF CountedCards, CountedForPone, CountedForDealer
    <3>3. CASE ~CountedCards(out'[i])
      BY <3>2, <3>3
    <3>4. CASE i = k
      BY <3>4, <2>2, <2>4, <2>6
    <3>5. CASE i > k /\ out'[i] \in R
      <4>1. ~CountedForPone(out'[i]) /\ winner' # Other(dealer)
        BY <3>5, <2>1, <2>3
      <4>2. k \in 1..(i - 1) /\ CountedForPone(out'[k])
        BY <3>1, <3>5, <2>2, <2>6
      <4>. QED BY <4>1, <4>2
    <3>. QED BY <3>1, <3>3, <3>4, <3>5, <2>6
  <2>. QED BY <2>7
<1>3. GameInv /\ [Next]_vars => First \/ UNCHANGED vars
  <2>. SUFFICES ASSUME GameInv, Next PROVE First \/ UNCHANGED vars
    BY DEF vars
  <2>. HIDE DEF First
  <2>1. ASSUME NEW s \in Seat, NEW two \in Throws, Discard(s, two) PROVE First
    BY <2>1, <1>1, QuietDiscard
  <2>2. ASSUME NEW s \in Seat, NEW c \in hands[s], Play(s, c) PROVE First
    BY <2>2, <1>1, <1>2, QuietUnlessShow
  <2>. QED BY <2>1, <2>2 DEF Next, RejectGameOver
<1>4. GameInv /\ [Next]_vars => [First]_vars
  BY <1>3
<1>. QED BY <1>4, GameInvariant, PTL DEF Spec, PoneCountsFirst

-----------------------------------------------------------------------------
(***************************************************************************)
(* What the scorers are given.  The card that is cut is never one of the   *)
(* cards that are counted with it, and a hand or a crib is four cards.     *)
(***************************************************************************)

\* The card to be cut, and then the starter, is nobody's.
CutInv ==
  \A s \in Seat :
    /\ phase = "discard" => rest \notin hands[s] \cup thrown[s]
    /\ phase = "play" => starter \notin hands[s] \cup played[s] \cup thrown[s]

LEMMA InitCut == Init => CutInv
<1>. SUFFICES ASSUME Init PROVE CutInv
  OBVIOUS
<1>1. PICK open \in Openings, deck \in Decks :
        /\ phase = "discard" /\ thrown = Empty
        /\ hands = DealtHands(deck, open.dealer) /\ rest = deck[13]
  BY DEF Init
<1>2. open.dealer \in Seat
  BY OpeningFacts
<1>3. \A s \in Seat : rest \notin hands[s]
  BY <1>1, <1>2, DealtFacts
<1>. QED BY <1>1, <1>3, EmptyFacts DEF CutInv

LEMMA DealHandCut ==
  ASSUME NEW dl \in Seat, NEW events, DealHand(dl, events)
  PROVE  CutInv'
<1>1. PICK deck \in Decks :
        /\ phase' = "discard" /\ thrown' = Empty
        /\ hands' = DealtHands(deck, dl) /\ rest' = deck[13]
  BY DEF DealHand
<1>2. \A s \in Seat : rest' \notin hands'[s]
  BY <1>1, DealtFacts
<1>. QED BY <1>1, <1>2, EmptyFacts DEF CutInv

LEMMA DiscardCut ==
  ASSUME GameInv, CutInv, NEW s \in Seat, NEW two \in Throws, Discard(s, two)
  PROVE  CutInv'
<1>1. /\ phase = "discard" /\ two \subseteq hands[s] /\ played' = played
      /\ hands' = [hands EXCEPT ![s] = @ \ two]
      /\ thrown' = [thrown EXCEPT ![s] = two]
      /\ hands \in [Seat -> SUBSET Card] /\ thrown \in [Seat -> SUBSET Card]
      /\ \A t \in Seat : played[t] = {}
  BY DEF Discard, GameInv, TypeOK, CardInv
<1>2. \A t \in Seat : hands'[t] \cup thrown'[t] \subseteq hands[t] \cup thrown[t]
  BY <1>1
<1>3. \/ phase' = phase /\ rest' = rest
      \/ starter' = rest /\ phase' \in {"play", "complete"}
  BY DEF Discard, CutStarter, WinsWith
<1>4. \A t \in Seat : rest \notin hands[t] \cup thrown[t]
  BY <1>1 DEF CutInv
<1>. QED BY <1>1, <1>2, <1>3, <1>4 DEF CutInv

LEMMA PlayCut ==
  ASSUME GameInv, CutInv, NEW s \in Seat, NEW c \in hands[s], Play(s, c)
  PROVE  CutInv'
<1>. DEFINE Lays == /\ LegalPlay(s, c)
                    /\ hands' = HandsAfter(s, c) /\ played' = PlayedAfter(s, c)
                    /\ UNCHANGED <<thrown, starter>>
                    /\ phase' \in {"play", "complete"}
<1>1. Lays \/ (\E events : DealHand(Pone, events))
  <2>1. LegalPlay(s, c) => phase = "play"
    BY DEF LegalPlay
  <2>2. CASE PlayWins(s, c)
    BY <2>2 DEF PlayWins, WinsWith, SeriesGoesOn
  <2>3. CASE PlayThenOpponent(s, c)
    BY <2>1, <2>3 DEF PlayThenOpponent, SeriesGoesOn
  <2>4. CASE PlayThenSamePlayer(s, c)
    BY <2>1, <2>4 DEF PlayThenSamePlayer, SeriesGoesOn
  <2>5. CASE PlayThirtyOne(s, c)
    BY <2>1, <2>5 DEF PlayThirtyOne, SeriesEnds
  <2>6. CASE PlayGo(s, c)
    BY <2>1, <2>6 DEF PlayGo, WinsWith, SeriesGoesOn, SeriesEnds
  <2>7. CASE LastCardWins(s, c)
    BY <2>7 DEF LastCardWins, LastCard, WinsWith, SeriesGoesOn
  <2>8. CASE Show(s, c)
    BY <2>8 DEF Show, LastCard, ResolveShow, WinsWith, SeriesGoesOn
  <2>. QED BY <2>2, <2>3, <2>4, <2>5, <2>6, <2>7, <2>8 DEF Play
<1>2. CASE Lays
  <2>1. \A t \in Seat : hands'[t] \cup played'[t] = hands[t] \cup played[t]
    BY <1>2, AfterFacts
  <2>2. phase = "play"
    BY <1>2 DEF LegalPlay
  <2>3. \A t \in Seat : starter \notin hands[t] \cup played[t] \cup thrown[t]
    BY <2>2 DEF CutInv
  <2>. QED BY <1>2, <2>1, <2>3 DEF CutInv
<1>3. CASE \E events : DealHand(Pone, events)
  <2>1. Pone \in Seat
    BY SeatFacts DEF Pone, GameInv, TypeOK
  <2>. QED BY <1>3, <2>1, DealHandCut
<1>. QED BY <1>1, <1>2, <1>3

LEMMA NextCut == GameInv /\ CutInv /\ [Next]_vars => CutInv'
<1>. SUFFICES ASSUME GameInv, CutInv, [Next]_vars PROVE CutInv'
  OBVIOUS
<1>1. CASE UNCHANGED vars
  BY <1>1 DEF vars, CutInv
<1>. QED BY <1>1, DiscardCut, PlayCut DEF Next, RejectGameOver

\* Two cards from each seat make a crib of four.
LEMMA CribIsFour ==
  ASSUME GameInv, phase = "play"
  PROVE  IsFiniteSet(Crib) /\ Cardinality(Crib) = 4
<1>1. /\ 0 \in Seat /\ 1 \in Seat
      /\ IsFiniteSet(thrown[0]) /\ Cardinality(thrown[0]) = 2
      /\ IsFiniteSet(thrown[1]) /\ Cardinality(thrown[1]) = 2
      /\ thrown[0] \cap thrown[1] = {}
  BY DEF GameInv, CardInv, Seat
<1>2. /\ IsFiniteSet(thrown[0] \cup thrown[1])
      /\ Cardinality(thrown[0] \cup thrown[1])
           = Cardinality(thrown[0]) + Cardinality(thrown[1])
               - Cardinality(thrown[0] \cap thrown[1])
  BY <1>1, FS_Union
<1>3. Cardinality(thrown[0] \cap thrown[1]) = 0
  BY <1>1, FS_EmptySet
<1>. QED BY <1>1, <1>2, <1>3 DEF Crib

\* Six dealt and two thrown leave a hand of four once all are down.
LEMMA HandsAreFour ==
  ASSUME GameInv, NEW s \in Seat, NEW c \in hands[s], LastCard(s, c), NEW t \in Seat
  PROVE  IsFiniteSet(PlayedAfter(s, c)[t]) /\ Cardinality(PlayedAfter(s, c)[t]) = 4
<1>1. LegalPlay(s, c) /\ HandsAfter(s, c)[t] = {} /\ phase = "play"
  BY DEF LastCard, AllDown, LegalPlay
<1>2. /\ IsFiniteSet(PlayedAfter(s, c)[t])
      /\ Cardinality(HandsAfter(s, c)[t]) + Cardinality(PlayedAfter(s, c)[t])
           = Cardinality(hands[t]) + Cardinality(played[t])
  BY <1>1, AfterFacts
<1>3. /\ Cardinality(thrown[t]) = 2
      /\ Cardinality(hands[t]) + Cardinality(played[t]) + Cardinality(thrown[t]) = 6
      /\ IsFiniteSet(hands[t]) /\ IsFiniteSet(played[t])
  BY <1>1 DEF GameInv, CardInv
<1>4. /\ Cardinality(hands[t]) \in Nat /\ Cardinality(played[t]) \in Nat
      /\ Cardinality(PlayedAfter(s, c)[t]) \in Nat
  BY <1>2, <1>3, FS_CardinalityType
<1>5. Cardinality(HandsAfter(s, c)[t]) = 0
  BY <1>1, FS_EmptySet
<1>. QED BY <1>2, <1>3, <1>4, <1>5

(***************************************************************************)
(* mustHandScore never panics: whatever is dealt, thrown and played, each  *)
(* hand and crib it counts is four cards and the starter a fifth.          *)
(***************************************************************************)
THEOREM ScorersAreFedRight == Spec => ScorersGetFiveCards
<1>. DEFINE Four(cards) == /\ IsFiniteSet(cards) /\ Cardinality(cards) = 4
                           /\ starter \in Card \ cards
            Fed == \A i \in DOMAIN out' : CountedCards(out'[i]) => Four(out'[i].cards)
<1>1. ASSUME Quiet(out') PROVE Fed
  BY <1>1, QuietTells
<1>2. ASSUME GameInv, CutInv, NEW s \in Seat, NEW c \in hands[s], Show(s, c) PROVE Fed
  <2>1. LastCard(s, c) /\ LegalPlay(s, c) /\ phase = "play"
    BY <1>2 DEF Show, LastCard, LegalPlay
  <2>2. dealer \in Seat /\ Pone \in Seat /\ 0 \in Seat /\ 1 \in Seat
    BY <1>2, SeatFacts DEF GameInv, TypeOK, Pone, Seat
  <2>3. \A t \in Seat : PlayedAfter(s, c)[t] \subseteq hands[t] \cup played[t]
    BY <1>2, <2>1, AfterFacts
  <2>4. /\ starter \in Card
        /\ \A t \in Seat : starter \notin hands[t] \cup played[t] \cup thrown[t]
    BY <1>2, <2>1 DEF GameInv, CardInv, CutInv
  <2>5. Four(PlayedAfter(s, c)[Pone]) /\ Four(PlayedAfter(s, c)[dealer])
    BY <1>2, <2>1, <2>2, <2>3, <2>4, HandsAreFour
  <2>6. Four(Crib)
    BY <1>2, <2>1, <2>2, <2>4, CribIsFour DEF Crib
  <2>7. \A e \in {ShowsPone(s, c), ShowsDealer(s, c), ShowsCrib(s, c)} : Four(e.cards)
    BY <2>5, <2>6 DEF ShowsPone, ShowsDealer, ShowsCrib, HandShown, CribShown
  <2>8. PICK R \in SUBSET {ShowsDealer(s, c), ShowsCrib(s, c)} :
          Told(out', ShowsPone(s, c), R)
    BY <1>2, ShowTells
  <2>9. PICK S : /\ out' \in Seq(S)
                 /\ \E k \in 1..Len(out') :
                      /\ out'[k] = ShowsPone(s, c)
                      /\ \A i \in 1..Len(out') : CountedCards(out'[i])
                           => i = k \/ (i > k /\ out'[i] \in R)
    BY <2>8 DEF Told
  <2>10. \A i \in DOMAIN out' : CountedCards(out'[i]) => out'[i] \in R \cup {ShowsPone(s, c)}
    BY <2>9
  <2>. HIDE DEF Four
  <2>. QED BY <2>7, <2>8, <2>10
<1>3. GameInv /\ CutInv /\ [Next]_vars => Fed \/ UNCHANGED vars
  <2>. SUFFICES ASSUME GameInv, CutInv, Next PROVE Fed \/ UNCHANGED vars
    BY DEF vars
  <2>. HIDE DEF Fed
  <2>1. ASSUME NEW s \in Seat, NEW two \in Throws, Discard(s, two) PROVE Fed
    BY <2>1, <1>1, QuietDiscard
  <2>2. ASSUME NEW s \in Seat, NEW c \in hands[s], Play(s, c) PROVE Fed
    BY <2>2, <1>1, <1>2, QuietUnlessShow
  <2>. QED BY <2>1, <2>2 DEF Next, RejectGameOver
<1>4. GameInv /\ CutInv /\ [Next]_vars
        => [\A i \in DOMAIN out' :
              CountedCards(out'[i]) => /\ IsFiniteSet(out'[i].cards)
                                       /\ Cardinality(out'[i].cards) = 4
                                       /\ starter \in Card \ out'[i].cards]_vars
  BY <1>3
<1>5. Init => CutInv
  BY InitCut
<1>6. GameInv /\ CutInv /\ [Next]_vars => CutInv'
  BY NextCut
<1>. QED BY <1>4, <1>5, <1>6, GameInvariant, PTL DEF Spec, ScorersGetFiveCards

-----------------------------------------------------------------------------
(***************************************************************************)
(* Induction over the naturals, as a fact about a set of them: the less-   *)
(* than relation is well founded, so what is not in the set has a least    *)
(* element.                                                                *)
(***************************************************************************)
LEMMA LeastNatural ==
  ASSUME NEW T \in SUBSET Nat, T # {}
  PROVE  \E n \in T : \A m \in T : n <= m
<1>1. PICK R : IsWellFoundedOn(R, Nat) /\ \A a, b \in Nat : a < b => <<a, b>> \in R
  BY NatLessThanWellFounded DEF OpToRel
<1>2. IsWellFoundedOn(R, Nat) /\ T \subseteq Nat /\ T # {}
  BY <1>1
<1>3. PICK n \in T : \A m \in T : ~(<<m, n>> \in R)
  BY ONLY <1>2, WFMin, Zenon
<1>4. ASSUME NEW m \in T PROVE n <= m
  <2>1. n \in Nat /\ m \in Nat /\ ~(m < n)
    BY <1>1, <1>3
  <2>. QED BY <2>1
<1>. QED BY <1>4

LEMMA InductionOverNat ==
  ASSUME NEW G \in SUBSET Nat, 0 \in G, \A n \in G : n + 1 \in G
  PROVE  G = Nat
<1>. SUFFICES ASSUME Nat \ G # {} PROVE FALSE
  OBVIOUS
<1>1. PICK n \in Nat \ G : \A m \in Nat \ G : n <= m
  BY LeastNatural
<1>2. n - 1 \in Nat /\ ~(n <= n - 1) /\ (n - 1) + 1 = n
  BY <1>1
<1>3. n - 1 \in G
  BY <1>1, <1>2
<1>4. (n - 1) + 1 \in G
  BY <1>3
<1>. QED BY <1>1, <1>2, <1>4

-----------------------------------------------------------------------------
(***************************************************************************)
(* The count of a series.  RunningCount adds the cards up from the first;  *)
(* the count the engine keeps is the same number.                          *)
(***************************************************************************)

\* f holds the sums of the heads of a series.
Sums(f, series) ==
  f = [n \in 0..Len(series) |-> IF n = 0 THEN 0 ELSE f[n - 1] + Pip(series[n])]

LEMMA SumsAreUnique ==
  ASSUME NEW series \in Seq(Card), NEW f, Sums(f, series), NEW g, Sums(g, series)
  PROVE  f[Len(series)] = g[Len(series)]
<1>. DEFINE G == {n \in Nat : n <= Len(series) => f[n] = g[n]}
<1>1. 0 \in G
  BY DEF Sums
<1>2. ASSUME NEW n \in G PROVE n + 1 \in G
  <2>1. CASE n + 1 <= Len(series)
    <3>1. n + 1 \in 0..Len(series) /\ n + 1 # 0 /\ (n + 1) - 1 = n /\ f[n] = g[n]
      BY <2>1
    <3>2. f[n + 1] = f[n] + Pip(series[n + 1]) /\ g[n + 1] = g[n] + Pip(series[n + 1])
      BY <3>1 DEF Sums
    <3>. QED BY <3>1, <3>2
  <2>2. CASE ~(n + 1 <= Len(series))
    BY <2>2
  <2>. QED BY <2>1, <2>2
<1>3. G = Nat
  <2>. HIDE DEF G
  <2>1. G \in SUBSET Nat
    BY DEF G
  <2>. QED BY <1>1, <1>2, <2>1, InductionOverNat
<1>4. Len(series) \in G
  BY <1>3
<1>. QED BY <1>4

\* The sums of a series go on from those of the series before its last card.
LEMMA SumsGoOn ==
  ASSUME NEW series \in Seq(Card), NEW f \in [0..Len(series) -> Nat], Sums(f, series),
         NEW card \in Card
  PROVE  LET all == Append(series, card)
             g   == [n \in 0..Len(all) |-> IF n = Len(all) THEN f[n - 1] + Pip(card)
                                                           ELSE f[n]]
         IN  /\ Sums(g, all)
             /\ g \in [0..Len(all) -> Nat]
             /\ g[Len(all)] = f[Len(series)] + Pip(card)
<1>. DEFINE all == Append(series, card)
            l   == Len(series)
            g   == [n \in 0..(l + 1) |-> IF n = l + 1 THEN f[n - 1] + Pip(card) ELSE f[n]]
<1>1. /\ all \in Seq(Card) /\ Len(all) = l + 1 /\ l \in Nat
      /\ all[l + 1] = card /\ \A n \in 1..l : all[n] = series[n]
  OBVIOUS
<1>2. Pip(card) \in Nat
  BY CardFacts
<1>. HIDE DEF all
<1>3. \A n \in 0..l : f[n] \in Nat
  OBVIOUS
<1>4. g \in [0..(l + 1) -> Nat] /\ g[l + 1] = f[l] + Pip(card)
  <2>1. l + 1 \in 0..(l + 1) /\ (l + 1) - 1 = l /\ l \in 0..l
    BY <1>1
  <2>2. \A n \in 0..(l + 1) : n # l + 1 => n \in 0..l
    BY <1>1
  <2>. QED BY <1>2, <1>3, <2>1, <2>2
<1>5. ASSUME NEW n \in 0..(l + 1)
      PROVE  g[n] = IF n = 0 THEN 0 ELSE g[n - 1] + Pip(all[n])
  <2>1. CASE n = 0
    BY <1>1, <2>1 DEF Sums
  <2>2. CASE n = l + 1
    <3>1. n - 1 = l /\ l \in 0..(l + 1) /\ l # l + 1 /\ n # 0 /\ g[l] = f[l]
      BY <1>1, <2>2
    <3>. HIDE DEF g
    <3>. QED BY <1>1, <1>4, <2>2, <3>1
  <2>3. CASE n \in 1..l
    <3>1. /\ n \in 0..l /\ n # 0 /\ n # l + 1
          /\ n - 1 \in 0..(l + 1) /\ n - 1 # l + 1
      BY <1>1, <2>3
    <3>2. g[n] = f[n] /\ g[n - 1] = f[n - 1]
      BY <3>1
    <3>3. f[n] = f[n - 1] + Pip(series[n])
      BY <3>1 DEF Sums
    <3>. HIDE DEF g
    <3>. QED BY <1>1, <2>3, <3>1, <3>2, <3>3
  <2>. QED BY <1>1, <2>1, <2>2, <2>3
<1>6. Sums(g, all)
  <2>1. g = [n \in 0..(l + 1) |-> g[n]]
    OBVIOUS
  <2>. HIDE DEF g
  <2>. QED BY <1>1, <1>5, <2>1 DEF Sums
<1>. QED BY <1>1, <1>4, <1>6 DEF all

LEMMA SumsExist ==
  ASSUME NEW series \in Seq(Card)
  PROVE  \E f \in [0..Len(series) -> Nat] : Sums(f, series)
<1>. DEFINE G == {n \in Nat : \A s \in Seq(Card) :
                    Len(s) = n => \E f \in [0..Len(s) -> Nat] : Sums(f, s)}
<1>1. 0 \in G
  <2>. SUFFICES ASSUME NEW s \in Seq(Card), Len(s) = 0
                PROVE  \E f \in [0..Len(s) -> Nat] : Sums(f, s)
    OBVIOUS
  <2>. DEFINE f == [n \in 0..Len(s) |-> 0]
  <2>1. f \in [0..Len(s) -> Nat] /\ Sums(f, s)
    BY DEF Sums
  <2>. QED BY <2>1
<1>2. ASSUME NEW n \in G PROVE n + 1 \in G
  <2>. SUFFICES ASSUME NEW s \in Seq(Card), Len(s) = n + 1
                PROVE  \E f \in [0..Len(s) -> Nat] : Sums(f, s)
    OBVIOUS
  <2>. DEFINE head == SubSeq(s, 1, n)
  <2>1. /\ head \in Seq(Card) /\ Len(head) = n
        /\ s[n + 1] \in Card /\ s = Append(head, s[n + 1])
    OBVIOUS
  <2>. HIDE DEF head
  <2>2. PICK f \in [0..Len(head) -> Nat] : Sums(f, head)
    BY <2>1
  <2>. QED BY <2>1, <2>2, SumsGoOn
<1>3. G = Nat
  <2>. HIDE DEF G
  <2>1. G \in SUBSET Nat
    BY DEF G
  <2>. QED BY <1>1, <1>2, <2>1, InductionOverNat
<1>4. Len(series) \in G
  BY <1>3
<1>. QED BY <1>4

LEMMA RunningCountIs ==
  ASSUME NEW series \in Seq(Card), NEW f, Sums(f, series)
  PROVE  RunningCount(series) = f[Len(series)]
<1>1. \E g : Sums(g, series) /\ RunningCount(series) = g[Len(series)]
  BY DEF Sums, RunningCount
<1>. QED BY <1>1, SumsAreUnique

\* A card adds its pips to the count.
LEMMA RunningCountGrows ==
  ASSUME NEW series \in Seq(Card), NEW card \in Card
  PROVE  RunningCount(Append(series, card)) = RunningCount(series) + Pip(card)
<1>1. PICK f \in [0..Len(series) -> Nat] : Sums(f, series)
  BY SumsExist
<1>2. PICK g : /\ Sums(g, Append(series, card))
               /\ g[Len(Append(series, card))] = f[Len(series)] + Pip(card)
  BY <1>1, SumsGoOn
<1>3. Append(series, card) \in Seq(Card)
  OBVIOUS
<1>. QED BY <1>1, <1>2, <1>3, RunningCountIs

LEMMA RunningCountOfNothing == RunningCount(<<>>) = 0
<1>1. <<>> \in Seq(Card) /\ Len(<<>>) = 0
  OBVIOUS
<1>2. PICK f \in [0..0 -> Nat] : Sums(f, <<>>)
  BY <1>1, SumsExist
<1>3. f[0] = 0
  BY <1>1, <1>2 DEF Sums
<1>. QED BY <1>1, <1>2, <1>3, RunningCountIs

\* The count the engine keeps is the sum of the series on the table.
CountedInv == count = RunningCount(pile)

\* How a play leaves the series: longer by its card, or empty.
LEMMA PlayMovesSeries ==
  ASSUME NEW s \in Seat, NEW c \in hands[s], Play(s, c)
  PROVE  /\ LegalPlay(s, c)
         /\ \/ pile' = Append(pile, c) /\ count' = CountAfter(c)
            \/ pile' = <<>> /\ count' = 0
<1>1. CASE PlayWins(s, c)
  BY <1>1 DEF PlayWins, SeriesGoesOn
<1>2. CASE PlayThenOpponent(s, c)
  BY <1>2 DEF PlayThenOpponent, SeriesGoesOn
<1>3. CASE PlayThenSamePlayer(s, c)
  BY <1>3 DEF PlayThenSamePlayer, SeriesGoesOn
<1>4. CASE PlayThirtyOne(s, c)
  BY <1>4 DEF PlayThirtyOne, SeriesEnds
<1>5. CASE PlayGo(s, c)
  BY <1>5 DEF PlayGo, SeriesGoesOn, SeriesEnds
<1>6. CASE LastCardWins(s, c)
  BY <1>6 DEF LastCardWins, LastCard, SeriesGoesOn
<1>7. CASE Show(s, c)
  <2>1. LegalPlay(s, c) /\ (SeriesGoesOn(s, c) \/ \E events : DealHand(Pone, events))
    BY <1>7 DEF Show, LastCard, ResolveShow
  <2>. QED BY <2>1 DEF SeriesGoesOn, DealHand
<1>. QED BY <1>1, <1>2, <1>3, <1>4, <1>5, <1>6, <1>7 DEF Play

LEMMA NextCounted == GameInv /\ CountedInv /\ [Next]_vars => CountedInv'
<1>. SUFFICES ASSUME GameInv, CountedInv, [Next]_vars PROVE CountedInv'
  OBVIOUS
<1>1. ASSUME NEW s \in Seat, NEW two \in Throws, Discard(s, two) PROVE CountedInv'
  BY <1>1 DEF Discard, CountedInv
<1>2. ASSUME NEW s \in Seat, NEW c \in hands[s], Play(s, c) PROVE CountedInv'
  <2>1. CASE pile' = Append(pile, c) /\ count' = CountAfter(c)
    <3>1. pile \in Seq(Card) /\ c \in Card
      BY <1>2, PlayMovesSeries, LayFacts DEF GameInv, TypeOK
    <3>. QED BY <2>1, <3>1, RunningCountGrows DEF CountedInv, CountAfter
  <2>2. CASE pile' = <<>> /\ count' = 0
    BY <2>2, RunningCountOfNothing DEF CountedInv
  <2>. QED BY <1>2, <2>1, <2>2, PlayMovesSeries
<1>3. CASE UNCHANGED vars
  BY <1>3 DEF vars, CountedInv
<1>. QED BY <1>1, <1>2, <1>3 DEF Next, RejectGameOver

(***************************************************************************)
(* The count the engine keeps beside the series is at every step the sum   *)
(* the scorers compute from the series itself.                             *)
(***************************************************************************)
THEOREM CountIsTheSum == Spec => [](count = RunningCount(pile))
<1>1. Init => CountedInv
  BY RunningCountOfNothing DEF Init, CountedInv
<1>2. CountedInv => count = RunningCount(pile)
  BY DEF CountedInv
<1>. QED BY <1>1, <1>2, NextCounted, GameInvariant, PTL DEF Spec

-----------------------------------------------------------------------------
(***************************************************************************)
(* What a series pays.  The events of a command open with the card, and    *)
(* at most one of them awards a go.                                        *)
(***************************************************************************)

IsGo(e) == e.type = "go_awarded"

\* The events ev open with x, and award the gos of G: none or one.
Awards(ev, x, G) ==
  \E S : /\ ev \in Seq(S) /\ Len(ev) > 0 /\ ev[1] = x
         /\ \/ G = {} /\ Gos(ev) = {}
            \/ \E i \in 1..Len(ev) : Gos(ev) = {i} /\ G = {ev[i]}

GoFree(more) == \E T : more \in Seq(T) /\ \A e \in T : ~IsGo(e)

LEMMA EventsNoGo ==
  /\ \A s, c, pts : ~IsGo(CardPlayed(s, c, pts)) /\ \A t : ~IsGo(Pass(t))
  /\ \A l : ~IsGo(SeriesReset(l)) /\ ~IsGo(GameWon(l))
  /\ \A s, cs, p : ~IsGo(HandShown(s, cs, p)) /\ ~IsGo(CribShown(cs, p))
  /\ \A s, cs, b : ~IsGo(ShowNotCounted(s, cs, b))
  /\ \A dl, hs : ~IsGo(HandDealt(dl, hs))
  /\ \A s : IsGo(GoAwarded(s))
BY DEF IsGo, CardPlayed, Pass, GoAwarded, SeriesReset, GameWon, HandShown,
   CribShown, ShowNotCounted, HandDealt

LEMMA AwardsOfOne == ASSUME NEW x, ~IsGo(x) PROVE Awards(<<x>>, x, {})
<1>0. PICK S : S = {x}
  OBVIOUS
<1>1. <<x>> \in Seq(S) /\ Len(<<x>>) > 0 /\ <<x>>[1] = x
  BY <1>0
<1>2. Gos(<<x>>) = {}
  BY <1>1 DEF Gos, IsGo
<1>. QED BY <1>1, <1>2 DEF Awards

LEMMA AwardsAppend ==
  ASSUME NEW ev, NEW x, NEW G, Awards(ev, x, G), NEW y
  PROVE  /\ ~IsGo(y) => Awards(Append(ev, y), x, G)
         /\ IsGo(y) /\ G = {} => Awards(Append(ev, y), x, {y})
<1>. DEFINE n == Append(ev, y)
<1>1. PICK S : /\ ev \in Seq(S) /\ Len(ev) > 0 /\ ev[1] = x
               /\ \/ G = {} /\ Gos(ev) = {}
                  \/ \E i \in 1..Len(ev) : Gos(ev) = {i} /\ G = {ev[i]}
  BY DEF Awards
<1>2. ev \in Seq(S \cup {y})
  BY <1>1
<1>3. /\ n \in Seq(S \cup {y}) /\ Len(n) = Len(ev) + 1 /\ n[Len(n)] = y
      /\ \A i \in 1..Len(ev) : n[i] = ev[i]
      /\ DOMAIN n = 1..Len(n) /\ DOMAIN ev = 1..Len(ev) /\ Len(ev) \in Nat
  BY <1>2
<1>. HIDE DEF n
<1>4. Len(n) > 0 /\ n[1] = x
  BY <1>1, <1>3
<1>5. Gos(n) = Gos(ev) \cup (IF IsGo(y) THEN {Len(n)} ELSE {})
  <2>1. \A i \in DOMAIN n : i \in 1..Len(ev) \/ i = Len(n)
    BY <1>3
  <2>2. \A i \in 1..Len(ev) : i \in DOMAIN n /\ i # Len(n)
    BY <1>3
  <2>3. Len(n) \in DOMAIN n
    BY <1>3
  <2>. QED BY <1>3, <2>1, <2>2, <2>3 DEF Gos, IsGo
<1>6. ASSUME ~IsGo(y) PROVE Awards(n, x, G)
  <2>1. Gos(n) = Gos(ev)
    BY <1>5, <1>6
  <2>2. CASE G = {} /\ Gos(ev) = {}
    BY <1>3, <1>4, <2>1, <2>2 DEF Awards
  <2>3. ASSUME NEW i \in 1..Len(ev), Gos(ev) = {i}, G = {ev[i]}
        PROVE  Awards(n, x, G)
    <3>1. i \in 1..Len(n) /\ Gos(n) = {i} /\ G = {n[i]}
      BY <1>3, <2>1, <2>3
    <3>. QED BY <1>3, <1>4, <3>1 DEF Awards
  <2>. QED BY <1>1, <2>2, <2>3
<1>7. ASSUME IsGo(y), G = {} PROVE Awards(n, x, {y})
  <2>1. Gos(ev) = {}
    BY <1>1, <1>7
  <2>2. Len(n) \in 1..Len(n) /\ Gos(n) = {Len(n)} /\ {y} = {n[Len(n)]}
    BY <1>3, <1>5, <1>7, <2>1
  <2>. QED BY <1>3, <1>4, <2>2 DEF Awards
<1>. QED BY <1>6, <1>7 DEF n

LEMMA AwardsThen ==
  ASSUME NEW ev, NEW x, NEW G, Awards(ev, x, G), NEW more, GoFree(more)
  PROVE  Awards(ev \o more, x, G)
<1>. DEFINE n == ev \o more
<1>1. PICK S : /\ ev \in Seq(S) /\ Len(ev) > 0 /\ ev[1] = x
               /\ \/ G = {} /\ Gos(ev) = {}
                  \/ \E i \in 1..Len(ev) : Gos(ev) = {i} /\ G = {ev[i]}
  BY DEF Awards
<1>2. PICK T : more \in Seq(T) /\ \A e \in T : ~IsGo(e)
  BY DEF GoFree
<1>3. ev \in Seq(S \cup T) /\ more \in Seq(S \cup T)
  BY <1>1, <1>2
<1>4. /\ n \in Seq(S \cup T) /\ Len(n) = Len(ev) + Len(more)
      /\ \A i \in 1..Len(ev) : n[i] = ev[i]
      /\ \A i \in (Len(ev) + 1)..Len(n) : n[i] = more[i - Len(ev)]
      /\ DOMAIN n = 1..Len(n) /\ DOMAIN ev = 1..Len(ev)
      /\ Len(ev) \in Nat /\ Len(more) \in Nat
  BY <1>3
<1>5. \A j \in 1..Len(more) : more[j] \in T
  BY <1>2
<1>. HIDE DEF n
<1>6. Len(n) > 0 /\ n[1] = x
  BY <1>1, <1>4
<1>7. Gos(n) = Gos(ev)
  <2>1. \A i \in DOMAIN n : i \in 1..Len(ev) \/ i \in (Len(ev) + 1)..Len(n)
    BY <1>4
  <2>2. \A i \in (Len(ev) + 1)..Len(n) : i - Len(ev) \in 1..Len(more)
    BY <1>4
  <2>3. \A i \in (Len(ev) + 1)..Len(n) : n[i] \in T
    BY <1>4, <1>5, <2>2
  <2>4. \A i \in 1..Len(ev) : i \in DOMAIN n
    BY <1>4
  <2>. QED BY <1>2, <1>4, <2>1, <2>3, <2>4 DEF Gos, IsGo
<1>8. CASE G = {} /\ Gos(ev) = {}
  BY <1>4, <1>6, <1>7, <1>8 DEF Awards, n
<1>9. ASSUME NEW i \in 1..Len(ev), Gos(ev) = {i}, G = {ev[i]}
      PROVE  Awards(n, x, G)
  <2>1. i \in 1..Len(n) /\ Gos(n) = {i} /\ G = {n[i]}
    BY <1>4, <1>7, <1>9
  <2>. QED BY <1>4, <1>6, <2>1 DEF Awards
<1>. QED BY <1>1, <1>8, <1>9 DEF n

LEMMA ShortGoFree ==
  /\ GoFree(<<>>)
  /\ \A a : ~IsGo(a) => GoFree(<<a>>)
  /\ \A a, b : ~IsGo(a) /\ ~IsGo(b) => GoFree(<<a, b>>)
<1>1. GoFree(<<>>)
  <2>1. PICK T : T = {}
    OBVIOUS
  <2>2. <<>> \in Seq(T) /\ \A e \in T : ~IsGo(e)
    BY <2>1
  <2>. QED BY <2>2 DEF GoFree
<1>2. ASSUME NEW a, ~IsGo(a) PROVE GoFree(<<a>>)
  <2>1. PICK T : T = {a}
    OBVIOUS
  <2>2. <<a>> \in Seq(T) /\ \A e \in T : ~IsGo(e)
    BY <1>2, <2>1
  <2>. QED BY <2>2 DEF GoFree
<1>3. ASSUME NEW a, NEW b, ~IsGo(a), ~IsGo(b) PROVE GoFree(<<a, b>>)
  <2>1. PICK T : T = {a, b}
    OBVIOUS
  <2>2. <<a, b>> \in Seq(T) /\ \A e \in T : ~IsGo(e)
    BY <1>3, <2>1
  <2>. QED BY <2>2 DEF GoFree
<1>. QED BY <1>1, <1>2, <1>3

\* What the card is paid: the scorer's points, by the engine's count.
LEMMA CardIsPaid ==
  ASSUME GameInv, CountedInv, NEW s \in Seat, NEW c \in hands[s], LegalPlay(s, c)
  PROVE  /\ Score(pile, c) = PaidByTheCard(c)
         /\ scores[s] + PaidByTheCard(c) < Target <=> ~Won(Pegged(s, c), s)
<1>. DEFINE all == Append(pile, c)
<1>1. /\ Below(scores) /\ c \in Card /\ all \in Seq(Card) /\ pile \in Seq(Card)
      /\ Score(pile, c) \in Nat
  BY LayFacts DEF GameInv, TypeOK
<1>2. RunningCount(all) = CountAfter(c)
  BY <1>1, RunningCountGrows DEF CountedInv, CountAfter
<1>. HIDE DEF all
<1>3. Fifteen(all) \in Nat
  BY DEF Fifteen
<1>4. PairPoints(all) \in Nat
  BY <1>1, PositionsAreFinite, PairsAreNat DEF PairPoints, TrailingSameRank
<1>5. RunPoints(all) \in Nat
  <2>1. LongestRunSuffix(all) \in SUBSET (DOMAIN all)
    BY DEF LongestRunSuffix
  <2>. QED BY <1>1, <2>1, PositionsAreFinite DEF RunPoints
<1>6. Score(pile, c) = Fifteen(all) + ThirtyOne(all) + PairPoints(all) + RunPoints(all)
  BY DEF Score, all
<1>7. PaidByTheCard(c) = Fifteen(all) + PairPoints(all) + RunPoints(all) + ThirtyOne(all)
  BY <1>2 DEF PaidByTheCard, ThirtyOne, all
<1>8. ThirtyOne(all) \in Nat
  BY DEF ThirtyOne
<1>9. Score(pile, c) = PaidByTheCard(c)
  BY <1>3, <1>4, <1>5, <1>6, <1>7, <1>8
<1>10. scores[s] + Score(pile, c) < Target <=> ~Won(Pegged(s, c), s)
  BY <1>1, TargetAssumption DEF Pegged, Won, AddPoints, Below
<1>. QED BY <1>9, <1>10

\* A seat that passed, or has nothing that fits, cannot follow: that neither
\* seat can is what the engine's two questions ask.
LEMMA OverIsNobodyNext ==
  ASSUME GameInv, NEW s \in Seat, NEW c \in hands[s], LegalPlay(s, c)
  PROVE  /\ SeriesOver(s, c) <=> ~OpponentNext(s, c) /\ ~SamePlayerNext(s, c)
         /\ AllDown(s, c) => SeriesOver(s, c)
<1>1. Other(s) \in Seat /\ \A t \in Seat : t = s \/ t = Other(s)
  BY SeatFacts DEF Seat, Other
<1>2. HandsAfter(s, c)[Other(s)] = hands[Other(s)]
  BY AfterFacts
<1>3. gone[Other(s)] => ~HasPlay(hands[Other(s)], CountAfter(c))
  <2>. SUFFICES ASSUME gone[Other(s)], NEW d \in hands[Other(s)], Fits(d, CountAfter(c))
                PROVE  FALSE
    BY DEF HasPlay
  <2>1. d \in Card /\ Pip(d) \in 1..10
    BY <1>1, CardFacts DEF GameInv, TypeOK
  <2>2. count \in 0..31 /\ CountAfter(c) \in 0..31 /\ CountAfter(c) >= count
    BY LayFacts DEF GameInv, TypeOK
  <2>3. Fits(d, count)
    BY <2>1, <2>2 DEF Fits
  <2>. QED BY <1>1, <2>3 DEF GameInv, PlayInv, PassedSeatIsStuck, LegalPlay, CanPlay, HasPlay
<1>4. OpponentNext(s, c) <=> HasPlay(hands[Other(s)], CountAfter(c))
  BY <1>3 DEF OpponentNext
<1>5. SeriesOver(s, c) <=> ~OpponentNext(s, c) /\ ~SamePlayerNext(s, c)
  BY <1>1, <1>2, <1>4 DEF SeriesOver, SamePlayerNext
<1>6. AllDown(s, c) => SeriesOver(s, c)
  BY DEF AllDown, SeriesOver, HasPlay
<1>. QED BY <1>5, <1>6

\* The go is due when neither seat can follow a card that did not make
\* thirty-one and did not win.
GoDue(s, c) == SeriesOver(s, c) /\ CountAfter(c) # 31 /\ ~Won(Pegged(s, c), s)

LEMMA AwardsPay ==
  ASSUME GameInv, CountedInv, NEW s \in Seat, NEW c \in hands[s], LegalPlay(s, c),
         NEW G, Awards(out', CardPlayed(s, c, Score(pile, c)), G),
         G = IF GoDue(s, c) THEN {GoAwarded(s)} ELSE {}
  PROVE  /\ out'[1] = CardPlayed(s, c, PaidByTheCard(c))
         /\ PaysForTheLast(s, c, out')
<1>1. /\ Score(pile, c) = PaidByTheCard(c)
      /\ scores[s] + PaidByTheCard(c) < Target <=> ~Won(Pegged(s, c), s)
  BY CardIsPaid
<1>2. PICK S : /\ out' \in Seq(S) /\ Len(out') > 0 /\ out'[1] = CardPlayed(s, c, Score(pile, c))
               /\ \/ G = {} /\ Gos(out') = {}
                  \/ \E i \in 1..Len(out') : Gos(out') = {i} /\ G = {out'[i]}
  BY DEF Awards
<1>3. CASE GoDue(s, c)
  <2>1. PICK i \in 1..Len(out') : Gos(out') = {i} /\ out'[i] = GoAwarded(s)
    BY <1>2, <1>3
  <2>2. i \in Gos(out') /\ out'[i].seat = s /\ out'[i].points = 1
    BY <2>1 DEF GoAwarded
  <2>. QED BY <1>1, <1>2, <1>3, <2>1, <2>2 DEF PaysForTheLast, GoDue
<1>4. CASE ~GoDue(s, c)
  <2>1. Gos(out') = {}
    BY <1>2, <1>4
  <2>. QED BY <1>1, <1>2, <1>4, <2>1 DEF PaysForTheLast, GoDue
<1>. QED BY <1>3, <1>4

\* The last card's events, and those of a show after it.
LEMMA ShowAwards ==
  ASSUME GameInv, NEW s \in Seat, NEW c \in hands[s], Show(s, c), NEW x, NEW G,
         Awards(LastCardEvents(s, c), x, G)
  PROVE  Awards(out', x, G)
<1>. DEFINE points == ShowPoints(s, c)
            laid   == PlayedAfter(s, c)
            hp     == HandShown(Pone, laid[Pone], points.pone)
            hd     == HandShown(dealer, laid[dealer], points.dealer)
            cr     == CribShown(Crib, points.crib)
            noHand == ShowNotCounted(dealer, laid[dealer], FALSE)
            noCrib == ShowNotCounted(dealer, Crib, TRUE)
            ev1    == Append(LastCardEvents(s, c), hp)
            ev2    == Append(ev1, hd)
            ev3    == Append(ev2, cr)
<1>1. \/ out' = Append(ev1, GameWon(Pone)) \o <<noHand, noCrib>>
      \/ out' = Append(ev2, GameWon(dealer)) \o <<noCrib>>
      \/ out' = Append(ev3, GameWon(dealer)) \o <<>>
      \/ \E deck \in Decks : out' = Append(ev3, HandDealt(Pone, DealtHands(deck, Pone)))
  BY DEF Show, ResolveShow, WinsWith, DealHand
<1>2. ~IsGo(hp) /\ ~IsGo(hd) /\ ~IsGo(cr) /\ ~IsGo(noHand) /\ ~IsGo(noCrib)
      /\ (\A w : ~IsGo(GameWon(w))) /\ (\A dl, hs : ~IsGo(HandDealt(dl, hs)))
  BY EventsNoGo
<1>. HIDE DEF hp, hd, cr, noHand, noCrib
<1>3. Awards(ev1, x, G)
  BY <1>2, AwardsAppend
<1>. HIDE DEF ev1
<1>4. Awards(ev2, x, G)
  BY <1>2, <1>3, AwardsAppend
<1>. HIDE DEF ev2
<1>5. Awards(ev3, x, G)
  BY <1>2, <1>4, AwardsAppend
<1>. HIDE DEF ev3
<1>6. CASE out' = Append(ev1, GameWon(Pone)) \o <<noHand, noCrib>>
  <2>1. Awards(Append(ev1, GameWon(Pone)), x, G)
    BY <1>2, <1>3, AwardsAppend
  <2>. QED BY <1>2, <1>6, <2>1, AwardsThen, ShortGoFree
<1>7. CASE out' = Append(ev2, GameWon(dealer)) \o <<noCrib>>
  <2>1. Awards(Append(ev2, GameWon(dealer)), x, G)
    BY <1>2, <1>4, AwardsAppend
  <2>. QED BY <1>2, <1>7, <2>1, AwardsThen, ShortGoFree
<1>8. CASE out' = Append(ev3, GameWon(dealer)) \o <<>>
  <2>1. Awards(Append(ev3, GameWon(dealer)), x, G)
    BY <1>2, <1>5, AwardsAppend
  <2>. QED BY <1>8, <2>1, AwardsThen, ShortGoFree
<1>9. CASE \E deck \in Decks : out' = Append(ev3, HandDealt(Pone, DealtHands(deck, Pone)))
  BY <1>2, <1>5, <1>9, AwardsAppend
<1>. QED BY <1>1, <1>6, <1>7, <1>8, <1>9

LEMMA PlayAwards ==
  ASSUME GameInv, NEW s \in Seat, NEW c \in hands[s], Play(s, c)
  PROVE  Awards(out', CardPlayed(s, c, Score(pile, c)),
                IF GoDue(s, c) THEN {GoAwarded(s)} ELSE {})
<1>. DEFINE x == CardPlayed(s, c, Score(pile, c))
            due == {GoAwarded(s)}
<1>1. LegalPlay(s, c) /\ Down(s, c) = <<x>>
  BY PlayMovesSeries DEF Down
<1>2. ~IsGo(x) /\ (\A t : ~IsGo(Pass(t))) /\ (\A w : ~IsGo(GameWon(w)))
      /\ (\A l : ~IsGo(SeriesReset(l))) /\ IsGo(GoAwarded(s))
  BY EventsNoGo
<1>. HIDE DEF x
<1>3. Awards(<<x>>, x, {})
  BY <1>2, AwardsOfOne
<1>4. Awards(<<x>> \o PassOf(Other(s)), x, {})
  <2>1. GoFree(PassOf(Other(s)))
    BY <1>2, ShortGoFree DEF PassOf
  <2>. QED BY <1>3, <2>1, AwardsThen
<1>5. GoFree(<<>>)
  BY ShortGoFree
<1>6. /\ SeriesOver(s, c) <=> ~OpponentNext(s, c) /\ ~SamePlayerNext(s, c)
      /\ AllDown(s, c) => SeriesOver(s, c)
  BY <1>1, OverIsNobodyNext
<1>7. CASE PlayWins(s, c)
  <2>1. out' = Append(<<x>>, GameWon(s)) \o <<>> /\ Won(Pegged(s, c), s)
    BY <1>1, <1>7 DEF PlayWins, WinsWith
  <2>2. Awards(Append(<<x>>, GameWon(s)), x, {})
    BY <1>2, <1>3, AwardsAppend
  <2>3. Awards(out', x, {})
    BY <1>5, <2>1, <2>2, AwardsThen
  <2>. QED BY <2>1, <2>3 DEF GoDue, x
<1>8. CASE PlayThenOpponent(s, c)
  <2>1. out' = <<x>> /\ ~GoDue(s, c)
    BY <1>1, <1>6, <1>8 DEF PlayThenOpponent, GoDue
  <2>. QED BY <1>3, <2>1 DEF x
<1>9. CASE PlayThenSamePlayer(s, c)
  <2>1. out' = <<x>> \o PassOf(Other(s)) /\ ~GoDue(s, c)
    BY <1>1, <1>6, <1>9 DEF PlayThenSamePlayer, GoDue
  <2>. QED BY <1>4, <2>1 DEF x
<1>10. CASE PlayThirtyOne(s, c)
  <2>1. out' = Append(<<x>>, ResetEvent(s, c)) /\ ~GoDue(s, c)
    BY <1>1, <1>10 DEF PlayThirtyOne, GoDue
  <2>2. ~IsGo(ResetEvent(s, c))
    BY <1>2 DEF ResetEvent
  <2>3. Awards(out', x, {})
    BY <1>3, <2>1, <2>2, AwardsAppend
  <2>. QED BY <2>1, <2>3 DEF x
<1>11. CASE PlayGo(s, c)
  <2>. DEFINE go == Append(<<x>> \o PassOf(Other(s)), GoAwarded(s))
  <2>1. /\ GoDue(s, c)
        /\ \/ out' = Append(go, GameWon(s)) \o <<>>
           \/ out' = Append(go, ResetEvent(s, c))
    BY <1>1, <1>6, <1>11 DEF PlayGo, GoDue, WinsWith
  <2>2. Awards(go, x, due)
    BY <1>2, <1>4, AwardsAppend
  <2>. HIDE DEF go, due
  <2>3. ~IsGo(ResetEvent(s, c))
    BY <1>2 DEF ResetEvent
  <2>4. Awards(Append(go, GameWon(s)), x, due) /\ Awards(Append(go, ResetEvent(s, c)), x, due)
    BY <1>2, <2>2, <2>3, AwardsAppend
  <2>5. Awards(Append(go, GameWon(s)) \o <<>>, x, due)
    BY <1>5, <2>4, AwardsThen
  <2>6. Awards(out', x, due)
    BY <2>1, <2>4, <2>5
  <2>. QED BY <2>1, <2>6 DEF x, due
<1>12. ASSUME LastCard(s, c)
       PROVE  Awards(LastCardEvents(s, c), x, IF GoDue(s, c) THEN due ELSE {})
  <2>1. GoDue(s, c) <=> CountAfter(c) # 31
    BY <1>6, <1>12 DEF LastCard, GoDue
  <2>2. CASE CountAfter(c) = 31
    BY <1>1, <1>3, <2>1, <2>2 DEF LastCardEvents
  <2>3. CASE CountAfter(c) # 31
    <3>1. Awards(Append(<<x>>, GoAwarded(s)), x, due)
      BY <1>2, <1>3, AwardsAppend
    <3>. QED BY <1>1, <2>1, <2>3, <3>1 DEF LastCardEvents
  <2>. QED BY <2>2, <2>3
<1>13. CASE LastCardWins(s, c)
  <2>. DEFINE G == IF GoDue(s, c) THEN due ELSE {}
  <2>1. LastCard(s, c) /\ out' = Append(LastCardEvents(s, c), GameWon(s)) \o <<>>
    BY <1>13 DEF LastCardWins, WinsWith
  <2>2. Awards(LastCardEvents(s, c), x, G)
    BY <1>12, <2>1
  <2>. HIDE DEF G
  <2>3. Awards(Append(LastCardEvents(s, c), GameWon(s)), x, G)
    BY <1>2, <2>2, AwardsAppend
  <2>4. Awards(out', x, G)
    BY <1>5, <2>1, <2>3, AwardsThen
  <2>. QED BY <2>4 DEF G, x
<1>14. CASE Show(s, c)
  <2>1. LastCard(s, c)
    BY <1>14 DEF Show
  <2>. QED BY <1>12, <1>14, <2>1, ShowAwards DEF x
<1>. QED BY <1>7, <1>8, <1>9, <1>10, <1>11, <1>13, <1>14 DEF Play

(***************************************************************************)
(* Every series pays its last card, once: the two points of thirty-one, or *)
(* the one for the go or the last card; no other card is paid a go.        *)
(***************************************************************************)
THEOREM SeriesPays == Spec => SeriesPaysItsLastPlayer
<1>. DEFINE Pays == out'[1].type = "card_played" =>
                      /\ out'[1].points = PaidByTheCard(out'[1].card)
                      /\ PaysForTheLast(out'[1].seat, out'[1].card, out')
<1>1. ASSUME GameInv, CountedInv, NEW s \in Seat, NEW c \in hands[s], Play(s, c)
      PROVE  Pays
  <2>1. LegalPlay(s, c)
    BY <1>1, PlayMovesSeries
  <2>2. /\ out'[1] = CardPlayed(s, c, PaidByTheCard(c))
        /\ PaysForTheLast(s, c, out')
    BY <1>1, <2>1, PlayAwards, AwardsPay
  <2>. QED BY <2>2 DEF CardPlayed
<1>2. ASSUME NEW s \in Seat, NEW two \in Throws, Discard(s, two) PROVE Pays
  <2>1. out'[1] = DiscardedBy(s, two)
    BY <1>2 DEF Discard, CutStarter, WinsWith
  <2>. QED BY <2>1 DEF DiscardedBy
<1>3. GameInv /\ CountedInv /\ [Next]_vars => [Pays]_vars
  <2>. SUFFICES ASSUME GameInv, CountedInv, Next PROVE Pays \/ UNCHANGED vars
    BY DEF vars
  <2>. HIDE DEF Pays
  <2>. QED BY <1>1, <1>2 DEF Next, RejectGameOver
<1>4. Init => CountedInv
  BY RunningCountOfNothing DEF Init, CountedInv
<1>. QED BY <1>3, <1>4, NextCounted, GameInvariant, PTL DEF Spec, SeriesPaysItsLastPlayer
-----------------------------------------------------------------------------
(***************************************************************************)
(* What a bot believes (Belief).  A pass leaves no mark in the view: it is *)
(* read off the end of the pile, and the invariant is that it reads right. *)
(***************************************************************************)

\* A prefix of a series is not changed by the card that follows it, and the
\* whole is a prefix of itself.
LEMMA Prefixes ==
  ASSUME NEW series \in Seq(Card), NEW card \in Card
  PROVE  /\ DOMAIN Append(series, card) = 1..(Len(series) + 1)
         /\ DOMAIN series = 1..Len(series) /\ Len(series) \in Nat
         /\ \A i \in 1..Len(series) : Append(series, card)[i] = series[i]
         /\ Append(series, card)[Len(series) + 1] = card
         /\ Len(Append(series, card)) = Len(series) + 1
         /\ Append(series, card) # <<>>
         /\ \A i \in 1..Len(series) :
              SubSeq(Append(series, card), 1, i) = SubSeq(series, 1, i)
         /\ SubSeq(Append(series, card), 1, Len(series) + 1) = Append(series, card)
<1>. DEFINE longer == Append(series, card)
<1>1. /\ longer \in Seq(Card) /\ Len(series) \in Nat /\ Len(longer) = Len(series) + 1
      /\ DOMAIN longer = 1..(Len(series) + 1) /\ DOMAIN series = 1..Len(series)
      /\ \A i \in 1..Len(series) : longer[i] = series[i]
      /\ longer[Len(series) + 1] = card
      /\ longer # <<>>
  OBVIOUS
<1>2. ASSUME NEW i \in 1..Len(series) PROVE SubSeq(longer, 1, i) = SubSeq(series, 1, i)
  <2>1. \A k \in 1..i : longer[k] = series[k]
    BY <1>1
  <2>2. /\ SubSeq(longer, 1, i) = [k \in 1..i |-> longer[k]]
        /\ SubSeq(series, 1, i) = [k \in 1..i |-> series[k]]
    <3>1. i \in Nat /\ 1 <= i /\ i <= Len(longer) /\ i <= Len(series)
      BY <1>1
    <3>. QED BY <3>1, <1>1
  <2>. QED BY <2>1, <2>2
<1>3. SubSeq(longer, 1, Len(series) + 1) = longer
  <2>1. SubSeq(longer, 1, Len(series) + 1) = [k \in 1..(Len(series) + 1) |-> longer[k]]
    BY <1>1
  <2>. QED BY <2>1, <1>1
<1>. QED BY <1>1, <1>2, <1>3

\* Nobody has passed before the first card of a series, and no card is down.
LEMMA PassOfNothing ==
  ASSUME pile = <<>>, gone = NoneGone
  PROVE  PassInv
<1>1. DOMAIN pile = {}
  OBVIOUS
<1>. QED BY <1>1, SeatFacts, EmptyFacts DEF PassInv, PileIsPlayed, LastLaid, PassReads

\* What a play that does not end the series does to it.
LaysOn(s, c) ==
  /\ hands' = HandsAfter(s, c) /\ played' = PlayedAfter(s, c)
  /\ pile' = Append(pile, c) /\ count' = CountAfter(c) /\ lastPlayer' = s

LEMMA PlayPasses ==
  ASSUME NEW s \in Seat, NEW c \in hands[s], Play(s, c)
  PROVE  \/ pile' = <<>> /\ gone' = NoneGone
         \/ LaysOn(s, c) /\ phase' = "complete"
         \/ LaysOn(s, c) /\ OpponentNext(s, c) /\ gone' = gone
         \/ /\ LaysOn(s, c) /\ ~OpponentNext(s, c)
            /\ gone' = [gone EXCEPT ![Other(s)] = TRUE]
<1>1. CASE PlayWins(s, c)
  BY <1>1 DEF PlayWins, WinsWith, SeriesGoesOn, LaysOn
<1>2. CASE PlayThenOpponent(s, c)
  BY <1>2 DEF PlayThenOpponent, SeriesGoesOn, LaysOn
<1>3. CASE PlayThenSamePlayer(s, c)
  BY <1>3 DEF PlayThenSamePlayer, SeriesGoesOn, LaysOn
<1>4. CASE PlayThirtyOne(s, c)
  BY <1>4 DEF PlayThirtyOne, SeriesEnds
<1>5. CASE PlayGo(s, c)
  BY <1>5 DEF PlayGo, WinsWith, SeriesGoesOn, SeriesEnds, LaysOn
<1>6. CASE LastCardWins(s, c)
  BY <1>6 DEF LastCardWins, WinsWith, SeriesGoesOn, LaysOn
<1>7. CASE Show(s, c)
  BY <1>7 DEF Show, ResolveShow, WinsWith, SeriesGoesOn, LaysOn, DealHand
<1>. QED BY <1>1, <1>2, <1>3, <1>4, <1>5, <1>6, <1>7 DEF Play

\* The cards on the table and in the hands, after a card is laid on them.
LEMMA LaidFacts ==
  ASSUME GameInv, PileIsPlayed, NEW s \in Seat, NEW c \in hands[s], LegalPlay(s, c),
         LaysOn(s, c)
  PROVE  /\ PileIsPlayed'
         /\ pile \in Seq(Card) /\ c \in Card
         /\ played'[s] = played[s] \cup {c} /\ hands'[Other(s)] = hands[Other(s)]
         /\ \A i \in DOMAIN pile : pile[i] # c
<1>1. /\ pile \in Seq(Card) /\ c \in Card /\ Other(s) \in Seat /\ Other(s) # s
      /\ played \in [Seat -> SUBSET Card] /\ hands \in [Seat -> SUBSET Card]
      /\ s \in {0, 1} /\ 0 \in Seat /\ 1 \in Seat
  BY SeatFacts, LayFacts DEF GameInv, TypeOK, Seat
<1>2. /\ played'[s] = played[s] \cup {c} /\ hands'[Other(s)] = hands[Other(s)]
      /\ \A t \in Seat : played[t] \subseteq played'[t]
  BY <1>1 DEF LaysOn, PlayedAfter, HandsAfter
<1>3. PileIsPlayed'
  <2>1. ASSUME NEW i \in DOMAIN pile' PROVE pile'[i] \in played'[0] \cup played'[1]
    <3>1. CASE i \in 1..Len(pile)
      <4>1. pile'[i] = pile[i] /\ i \in DOMAIN pile
        BY <3>1, <1>1, Prefixes DEF LaysOn
      <4>. QED BY <4>1, <1>1, <1>2 DEF PileIsPlayed
    <3>2. CASE i = Len(pile) + 1
      <4>1. pile'[i] = c
        BY <3>2, <1>1, Prefixes DEF LaysOn
      <4>. QED BY <4>1, <1>1, <1>2
    <3>3. i \in 1..(Len(pile) + 1) /\ Len(pile) \in Nat
      BY <1>1, <2>1, Prefixes DEF LaysOn
    <3>. QED BY <3>1, <3>2, <3>3
  <2>. QED BY <2>1 DEF PileIsPlayed
<1>4. c \notin played[0] \cup played[1]
  BY <1>1 DEF GameInv, CardInv
<1>5. \A i \in DOMAIN pile : pile[i] # c
  BY <1>4 DEF PileIsPlayed
<1>. QED BY <1>1, <1>2, <1>3, <1>5

\* A run of s's cards that starts before the new card started there already.
LEMMA TrailBefore ==
  ASSUME GameInv, PileIsPlayed, NEW s \in Seat, NEW c \in hands[s], LegalPlay(s, c),
         LaysOn(s, c), NEW i \in 1..Len(pile), TrailStarts(s, i)'
  PROVE  TrailStarts(s, i)
<1>1. /\ pile \in Seq(Card) /\ c \in Card /\ played'[s] = played[s] \cup {c}
      /\ \A k \in DOMAIN pile : pile[k] # c
  BY LaidFacts
<1>2. /\ \A k \in 1..Len(pile) : pile'[k] = pile[k] /\ k \in DOMAIN pile
      /\ Len(pile') = Len(pile) + 1 /\ Len(pile) \in Nat
  BY <1>1, Prefixes DEF LaysOn
<1>3. \A j \in i..Len(pile) : pile[j] \in played[s]
  <2>1. ASSUME NEW j \in i..Len(pile) PROVE pile[j] \in played[s]
    <3>1. j \in 1..Len(pile) /\ j \in i..Len(pile')
      BY <1>2
    <3>2. pile'[j] \in played'[s]
      BY <3>1 DEF TrailStarts
    <3>. QED BY <3>1, <3>2, <1>1, <1>2
  <2>. QED BY <2>1
<1>4. i > 1 => pile[i - 1] \notin played[s]
  <2>1. i > 1 => i - 1 \in 1..Len(pile) /\ pile'[i - 1] \notin played'[s]
    BY <1>2 DEF TrailStarts
  <2>. QED BY <2>1, <1>1, <1>2
<1>. QED BY <1>3, <1>4 DEF TrailStarts

LEMMA PlayPass ==
  ASSUME GameInv, CountedInv, PassInv, NEW s \in Seat, NEW c \in hands[s], Play(s, c)
  PROVE  PassInv'
<1>1. LegalPlay(s, c) /\ phase = "play" /\ ~gone[s]
  BY PlayMovesSeries, LayFacts
<1>2. /\ Other(s) \in Seat /\ Other(s) # s /\ Other(Other(s)) = s
      /\ \A t \in Seat : t = s \/ t = Other(s)
      /\ gone \in [Seat -> BOOLEAN]
  BY SeatFacts DEF GameInv, TypeOK
<1>3. CASE pile' = <<>> /\ gone' = NoneGone
  <2>1. DOMAIN pile' = {}
    BY <1>3
  <2>. QED BY <1>3, <2>1, SeatFacts, EmptyFacts DEF PassInv, PileIsPlayed, LastLaid, PassReads
<1>4. ASSUME LaysOn(s, c)
      PROVE  /\ PileIsPlayed' /\ pile \in Seq(Card) /\ c \in Card
             /\ pile' # <<>> /\ pile'[Len(pile')] \in played'[s] /\ lastPlayer' = s
             /\ hands'[Other(s)] = hands[Other(s)]
  <2>1. /\ PileIsPlayed' /\ pile \in Seq(Card) /\ c \in Card
        /\ played'[s] = played[s] \cup {c} /\ hands'[Other(s)] = hands[Other(s)]
    BY <1>1, <1>4, LaidFacts DEF PassInv
  <2>2. pile' # <<>> /\ pile'[Len(pile')] = c
    BY <1>4, <2>1, Prefixes DEF LaysOn
  <2>. QED BY <2>1, <2>2, <1>4 DEF LaysOn
<1>5. CASE LaysOn(s, c) /\ phase' = "complete"
  BY <1>4, <1>5 DEF PassInv, LastLaid, PassReads
<1>6. CASE LaysOn(s, c) /\ OpponentNext(s, c) /\ gone' = gone
  <2>1. CanPlay(Other(s))'
    BY <1>4, <1>6 DEF OpponentNext, CanPlay, LaysOn
  <2>2. \A t \in Seat : ~gone'[Other(t)]
    BY <1>1, <1>2, <1>6 DEF OpponentNext
  <2>. QED BY <1>4, <1>6, <2>1, <2>2 DEF PassInv, LastLaid, PassReads
<1>7. CASE /\ LaysOn(s, c) /\ ~OpponentNext(s, c)
           /\ gone' = [gone EXCEPT ![Other(s)] = TRUE]
  <2>1. gone'[Other(s)] /\ ~gone'[s]
    BY <1>1, <1>2, <1>7
  <2>2. LastLaid'
    BY <1>4, <1>7, <2>1 DEF LastLaid
  <2>3. ASSUME NEW i \in DOMAIN pile', TrailStarts(s, i)', NEW d \in hands[Other(s)]
        PROVE  ~(Pip(d) <= 31 - RunningCount(SubSeq(pile', 1, i)))
    <3>1. /\ pile' = Append(pile, c) /\ Len(pile) \in Nat
          /\ i \in 1..(Len(pile) + 1) /\ DOMAIN pile = 1..Len(pile)
          /\ Len(pile') = Len(pile) + 1
      BY <1>4, <1>7, <2>3, Prefixes DEF LaysOn
    <3>2. CASE i \in 1..Len(pile)
      <4>1. TrailStarts(s, i)
        BY <1>1, <1>7, <2>3, <3>2, TrailBefore DEF PassInv
      <4>2. pile[Len(pile)] \in played[s] /\ pile # <<>>
        <5>1. Len(pile) \in i..Len(pile) /\ Len(pile) # 0
          BY <3>1, <3>2
        <5>. QED BY <4>1, <5>1 DEF TrailStarts
      <4>3. lastPlayer = s
        <5>1. lastPlayer \in Seat /\ pile[Len(pile)] \in played[lastPlayer]
          BY <1>1, <4>2 DEF PassInv, LastLaid, GameInv, TypeOK
        <5>2. played[0] \cap played[1] = {}
          BY DEF GameInv, CardInv
        <5>. QED BY <4>2, <5>1, <5>2 DEF Seat
      <4>4. gone[Other(s)]
        <5>1. ~gone[Other(s)] => CanPlay(Other(s))
          BY <1>1, <4>2, <4>3 DEF PassInv, LastLaid
        <5>2. s = Turn
          BY <1>1 DEF LegalPlay
        <5>. QED BY <1>2, <4>3, <5>1, <5>2 DEF Turn
      <4>5. ~(Pip(d) <= 31 - RunningCount(SubSeq(pile, 1, i)))
        BY <1>1, <3>1, <3>2, <4>1, <4>4 DEF PassInv, PassReads
      <4>6. SubSeq(pile', 1, i) = SubSeq(pile, 1, i)
        BY <1>4, <1>7, <3>1, <3>2, Prefixes
      <4>. QED BY <4>5, <4>6
    <3>3. CASE i = Len(pile) + 1
      <4>1. ~gone[Other(s)]
        <5>1. SUFFICES ASSUME gone[Other(s)] PROVE FALSE
          OBVIOUS
        <5>2. pile # <<>> /\ lastPlayer = s /\ pile[Len(pile)] \in played[s]
          BY <1>1, <5>1 DEF PassInv, PassReads, LastLaid
        <5>3. Len(pile) \in 1..Len(pile) /\ pile'[Len(pile)] = pile[Len(pile)]
          <6>1. Len(pile) # 0
            BY <1>4, <1>7, <5>2
          <6>2. Len(pile) \in 1..Len(pile)
            BY <3>1, <6>1
          <6>. QED BY <1>4, <1>7, <3>1, <6>2, Prefixes
        <5>4. pile'[Len(pile)] \notin played'[s]
          <6>1. i > 1 /\ i - 1 = Len(pile)
            BY <3>1, <3>3, <5>3
          <6>. QED BY <2>3, <6>1 DEF TrailStarts
        <5>5. played'[s] = played[s] \cup {c}
          BY <1>1, <1>7, LaidFacts DEF PassInv
        <5>. QED BY <5>2, <5>3, <5>4, <5>5
      <4>2. ~Fits(d, CountAfter(c))
        BY <1>7, <4>1 DEF OpponentNext, HasPlay
      <4>3. SubSeq(pile', 1, i) = pile'
        BY <1>4, <1>7, <3>1, <3>3, Prefixes
      <4>4. RunningCount(pile') = CountAfter(c)
        BY <1>4, <1>7, <3>1, RunningCountGrows DEF CountedInv, CountAfter
      <4>5. CountAfter(c) \in Int /\ Pip(d) \in Int
        <5>1. d \in Card
          BY <1>2 DEF GameInv, TypeOK
        <5>2. CountAfter(c) \in 0..31
          BY <1>1, LayFacts
        <5>3. Pip(d) \in 1..10
          BY <5>1, CardFacts
        <5>. QED BY ONLY <5>2, <5>3, SMT
      <4>6. \A n, p \in Int : ~(n + p <= 31) => ~(p <= 31 - n)
        OBVIOUS
      <4>7. RunningCount(SubSeq(pile', 1, i)) = CountAfter(c)
        BY <4>3, <4>4
      <4>8. ~(CountAfter(c) + Pip(d) <= 31)
        BY <4>2 DEF Fits
      <4>. QED BY ONLY <4>5, <4>6, <4>7, <4>8, Zenon
    <3>. QED BY <3>1, <3>2, <3>3
  <2>4. PassReads'
    <3>1. ASSUME NEW t \in Seat, gone'[Other(t)]
          PROVE  /\ pile' # <<>> /\ lastPlayer' = t
                 /\ \A i \in DOMAIN pile' : TrailStarts(t, i)' =>
                      \A d \in hands'[Other(t)] :
                        ~(Pip(d) <= 31 - RunningCount(SubSeq(pile', 1, i)))
      <4>1. t = s
        BY <1>2, <2>1, <3>1
      <4>. QED BY <1>4, <1>7, <2>3, <4>1
    <3>. QED BY <3>1 DEF PassReads
  <2>. QED BY <1>4, <1>7, <2>2, <2>4 DEF PassInv
<1>. QED BY <1>3, <1>5, <1>6, <1>7, PlayPasses

LEMMA NextPass == GameInv /\ CountedInv /\ PassInv /\ [Next]_vars => PassInv'
<1>. SUFFICES ASSUME GameInv, CountedInv, PassInv, [Next]_vars PROVE PassInv'
  OBVIOUS
<1>1. ASSUME NEW s \in Seat, NEW two \in Throws, Discard(s, two) PROVE PassInv'
  <2>1. pile' = <<>> /\ gone' = NoneGone
    BY <1>1 DEF Discard, GameInv, PlayInv
  <2>2. DOMAIN pile' = {}
    BY <2>1
  <2>. QED BY <2>1, <2>2, SeatFacts, EmptyFacts DEF PassInv, PileIsPlayed, LastLaid, PassReads
<1>2. CASE UNCHANGED vars
  BY <1>2 DEF vars, PassInv, PileIsPlayed, LastLaid, PassReads, TrailStarts, CanPlay, Turn
<1>. QED BY <1>1, <1>2, PlayPass DEF Next, RejectGameOver

\* What the invariants say of the two hands when a seat is on turn.
LEMMA InvTellsTheTruth ==
  ASSUME GameInv, CutInv, PassInv
  PROVE  BeliefHoldsTheTruth
<1>. SUFFICES ASSUME phase = "play"
              PROVE  /\ \A c \in hands[Other(Turn)] : MayHold(Turn, c)
                     /\ OppHandSize(Turn) = Cardinality(hands[Other(Turn)])
  BY DEF BeliefHoldsTheTruth
<1>. DEFINE me == Turn
            you == Other(Turn)
<1>1. /\ me \in Seat /\ you \in Seat /\ you # me /\ lastPlayer \in Seat
      /\ Other(you) = me
  BY SeatFacts DEF Turn, GameInv, TypeOK
<1>2. /\ played[me] \cap played[you] = {} /\ hands[me] \cap hands[you] = {}
      /\ thrown[me] \cap hands[you] = {} /\ played[me] \cap hands[you] = {}
      /\ played[you] \cap hands[you] = {}
      /\ starter \notin hands[you]
      /\ \A i \in DOMAIN pile : pile[i] \in played[me] \cup played[you]
  BY <1>1 DEF GameInv, CardInv, CutInv, PassInv, PileIsPlayed, Seat
<1>3. pile \in Seq(Card)
  BY DEF GameInv, TypeOK
<1>4. ASSUME NEW c \in hands[you], RuledOut(me, c) PROVE FALSE
  <2>1. PICK i \in DOMAIN pile :
          TrailStarts(me, i) /\ Pip(c) <= 31 - RunningCount(SubSeq(pile, 1, i))
    BY <1>4 DEF RuledOut
  <2>2. pile # <<>> /\ pile[Len(pile)] \in played[me]
    <3>1. Len(pile) \in i..Len(pile) /\ pile # <<>>
      BY <1>3, <2>1
    <3>. QED BY <2>1, <3>1 DEF TrailStarts
  <2>3. lastPlayer = me
    <3>1. pile[Len(pile)] \in played[lastPlayer]
      BY <2>2 DEF PassInv, LastLaid
    <3>2. lastPlayer = me \/ lastPlayer = you
      BY <1>1, SeatFacts
    <3>. QED BY <1>2, <2>2, <3>1, <3>2
  <2>4. gone[you]
    <3>1. ~gone[you] => CanPlay(you)
      BY <2>2, <2>3 DEF PassInv, LastLaid
    <3>. QED BY <1>1, <2>3, <3>1 DEF Turn
  <2>5. ~(Pip(c) <= 31 - RunningCount(SubSeq(pile, 1, i)))
    BY <1>1, <1>4, <2>1, <2>4 DEF PassInv, PassReads
  <2>. QED BY <2>1, <2>5
<1>5. ASSUME NEW c \in hands[you] PROVE MayHold(me, c)
  BY <1>2, <1>4, <1>5 DEF MayHold, InPool, Unseen
<1>6. OppHandSize(me) = Cardinality(hands[you])
  <2>1. \A s \in Seat :
          /\ IsFiniteSet(hands[s]) /\ IsFiniteSet(played[s])
          /\ Cardinality(thrown[s]) = 2
          /\ Cardinality(hands[s]) + Cardinality(played[s]) + Cardinality(thrown[s]) = 6
    BY DEF GameInv, CardInv
  <2>2. \A s \in Seat : Cardinality(hands[s]) \in Nat /\ Cardinality(played[s]) \in Nat
    BY <2>1, FS_CardinalityType
  <2>. QED BY <1>1, <2>1, <2>2 DEF OppHandSize
<1>. QED BY <1>5, <1>6

(***************************************************************************)
(* The bot's inferences are sound for every deck, start and line of play:  *)
(* calibratedBelief and oppPassConstraint never rule out a card the        *)
(* opponent holds, and oppHandSize is the size of its hand.                *)
(***************************************************************************)
THEOREM BeliefIsSound == Spec => []BeliefHoldsTheTruth
<1>1. Init => CutInv /\ CountedInv /\ PassInv
  BY InitCut, RunningCountOfNothing, PassOfNothing DEF Init, CountedInv
<1>. QED BY <1>1, GameInvariant, NextCut, NextCounted, NextPass, InvTellsTheTruth, PTL DEF Spec

-----------------------------------------------------------------------------
(* The bots' objective.                                                    *)

(***************************************************************************)
(* A finite set of numbers has a greatest one: the one with the fewest     *)
(* numbers above it.                                                       *)
(***************************************************************************)
LEMMA MaxOfFinite ==
  ASSUME NEW S, IsFiniteSet(S), S # {}, S \subseteq Int
  PROVE  Max(S) \in S /\ \A y \in S : y <= Max(S)
<1> DEFINE above(x) == {y \in S : y > x}
<1>1. \A x \in S : IsFiniteSet(above(x)) /\ Cardinality(above(x)) \in Nat
  BY FS_Subset, FS_CardinalityType
<1>2. PICK x \in S : \A z \in S : Cardinality(above(x)) <= Cardinality(above(z))
  <2> DEFINE T == {Cardinality(above(z)) : z \in S}
  <2>1. T \in SUBSET Nat /\ T # {}
    BY <1>1
  <2>2. PICK n \in T : \A m \in T : n <= m
    <3>. HIDE DEF T
    <3>. QED BY <2>1, LeastNatural
  <2>3. PICK z \in S : n = Cardinality(above(z))
    BY <2>2
  <2>. QED BY <2>2, <2>3
<1>3. \A y \in S : y <= x
  <2> SUFFICES ASSUME NEW y \in S, ~ (y <= x) PROVE FALSE
    OBVIOUS
  <2>1. above(y) \subseteq above(x) /\ y \in above(x) /\ y \notin above(y)
    <3>1. x \in Int /\ y \in Int /\ y > x /\ ~ (y > y)
      OBVIOUS
    <3>2. ASSUME NEW z \in S, z > y PROVE z > x
      <4>1. z \in Int
        OBVIOUS
      <4>. QED BY <3>1, <3>2, <4>1
    <3>. QED BY <3>1, <3>2
  <2>2. Cardinality(above(y)) <= Cardinality(above(x)) /\ Cardinality(above(y)) # Cardinality(above(x))
    <3>. HIDE DEF above
    <3>. QED BY <1>1, <2>1, FS_Subset
  <2>. QED BY <2>2, <1>1, <1>2
<1>. QED BY <1>3 DEF Max

\* The most each role pegs is a number, and the table has it.
LEMMA PegMost ==
  /\ \E m \in PegJoint : m.d = Max({c.d : c \in PegJoint})
  /\ \E m \in PegJoint : m.p = Max({c.p : c \in PegJoint})
  /\ \A c \in PegJoint : /\ c.d <= Max({b.d : b \in PegJoint})
                         /\ c.p <= Max({b.p : b \in PegJoint})
<1> DEFINE ds == {c.d : c \in PegJoint}
           ps == {c.p : c \in PegJoint}
<1>1. ds # {} /\ ps # {} /\ ds \subseteq Int /\ ps \subseteq Int
  BY PegAssumption
<1>2. IsFiniteSet(ds)
  <2> DEFINE f == [c \in PegJoint |-> c.d]
  <2>1. f \in Surjection(PegJoint, ds)
    BY DEF Surjection
  <2>. QED BY <2>1, PegAssumption, FS_Surjection
<1>3. IsFiniteSet(ps)
  <2> DEFINE f == [c \in PegJoint |-> c.p]
  <2>1. f \in Surjection(PegJoint, ps)
    BY DEF Surjection
  <2>. QED BY <2>1, PegAssumption, FS_Surjection
<1>4. Max(ds) \in ds /\ \A y \in ds : y <= Max(ds)
  <2>. HIDE DEF ds
  <2>. QED BY <1>1, <1>2, MaxOfFinite
<1>5. Max(ps) \in ps /\ \A y \in ps : y <= Max(ps)
  <2>. HIDE DEF ps
  <2>. QED BY <1>1, <1>3, MaxOfFinite
<1>. QED BY <1>4, <1>5

(***************************************************************************)
(* The bots change over from points to the chance to win at exactly the    *)
(* scores from which some outcome of a deal ends the game: at every pair   *)
(* of scores, in either role, whatever table of peggings is generated.     *)
(***************************************************************************)
THEOREM ObjectiveTurnsInTime ==
  \A my, opp \in Int, iAmDealer \in BOOLEAN : FarIsOutOfReach(my, opp, iAmDealer)
<1> SUFFICES ASSUME NEW my \in Int, NEW opp \in Int, NEW iAmDealer \in BOOLEAN
             PROVE  FarIsOutOfReach(my, opp, iAmDealer)
  OBVIOUS
<1> DEFINE dealerAt == IF iAmDealer THEN my ELSE opp
           poneAt   == IF iAmDealer THEN opp ELSE my
           md       == Max({c.d : c \in PegJoint})
           mp       == Max({c.p : c \in PegJoint})
<1>1. dealerAt \in Int /\ poneAt \in Int
  OBVIOUS
<1>2. PICK cd \in PegJoint : cd.d = md
  BY PegMost
<1>3. PICK cp \in PegJoint : cp.p = mp
  BY PegMost
<1>4. md \in Nat /\ mp \in Nat
  BY <1>2, <1>3, PegAssumption
<1>5. \A c \in PegJoint : c.d \in Nat /\ c.p \in Nat /\ c.d <= md /\ c.p <= mp
  BY PegMost, PegAssumption
<1>6. FarFromEnd(my, opp, iAmDealer)
        <=> 121 - dealerAt > 2 + md + 2 * 29 /\ 121 - poneAt > mp + 29
  BY <1>4 DEF FarFromEnd, FarNeed, Finish, Heels, BestHand
<1> HIDE DEF md, mp, dealerAt, poneAt
<1>7. ASSUME NEW cell \in PegJoint, NEW hand \in 0..29, 121 - poneAt > mp + 29
      PROVE  ~ (poneAt + (cell.p + hand) >= 121)
  BY <1>1, <1>4, <1>5, <1>7
<1>8. ASSUME NEW cell \in PegJoint, NEW hand \in 0..29, NEW heels \in {0, 2},
             NEW crib \in 0..29, 121 - dealerAt > 2 + md + 2 * 29
      PROVE  ~ (dealerAt + (heels + cell.d + hand + crib) >= 121)
  BY <1>1, <1>4, <1>5, <1>8
<1>9. ASSUME ~ (121 - poneAt > mp + 29)
      PROVE  poneAt + (cp.p + 29) >= 121
  BY <1>1, <1>3, <1>4, <1>9
<1>10. ASSUME ~ (121 - dealerAt > 2 + md + 2 * 29)
       PROVE  dealerAt + (2 + cd.d + 29 + 29) >= 121
  BY <1>1, <1>2, <1>4, <1>10
<1>11. SomebodyCan(my, opp, iAmDealer)
         <=> \E cell \in PegJoint, hand \in 0..29 :
               \/ poneAt + (cell.p + hand) >= 121
               \/ \E heels \in {0, 2}, crib \in 0..29 :
                    dealerAt + (heels + cell.d + hand + crib) >= 121
  BY DEF SomebodyCan, dealerAt, poneAt, PoneGain, DealerGain, Finish, Heels, BestHand
<1>12. 29 \in 0..29 /\ 2 \in {0, 2}
  OBVIOUS
<1>13. CASE FarFromEnd(my, opp, iAmDealer)
  <2>1. ~ SomebodyCan(my, opp, iAmDealer)
    BY <1>6, <1>7, <1>8, <1>11, <1>13, Zenon
  <2>. QED BY <2>1, <1>13 DEF FarIsOutOfReach
<1>14. CASE ~ FarFromEnd(my, opp, iAmDealer)
  <2>1. SomebodyCan(my, opp, iAmDealer)
    BY <1>6, <1>9, <1>10, <1>11, <1>12, <1>14, Zenon
  <2>. QED BY <2>1, <1>14 DEF FarIsOutOfReach
<1>. QED BY <1>13, <1>14

-----------------------------------------------------------------------------
(***************************************************************************)
(* The two scorers of a play and the reference of their tests.             *)
(***************************************************************************)
LEMMA GreatestOfFinite ==
  ASSUME NEW S, IsFiniteSet(S), S # {}, S \subseteq Int
  PROVE  Sets!Max(S) \in S /\ \A y \in S : y <= Sets!Max(S)
<1>1. Max(S) \in S /\ \A y \in S : y <= Max(S)
  BY MaxOfFinite
<1>2. \A x, y \in S : y <= x <=> x >= y
  OBVIOUS
<1>3. \E x \in S : \A y \in S : x >= y
  BY <1>1, <1>2
<1>4. Sets!Max(S) \in S /\ \A y \in S : Sets!Max(S) >= y
  BY <1>3 DEF Sets!Max
<1>. QED BY <1>2, <1>4

LEMMA MaxIs ==
  ASSUME NEW S, S \subseteq Int, NEW m \in S, \A y \in S : y <= m
  PROVE  Sets!Max(S) = m
<1>1. \A y \in S : m >= y
  OBVIOUS
<1>2. Sets!Max(S) \in S /\ \A y \in S : Sets!Max(S) >= y
  BY <1>1 DEF Sets!Max
<1>3. m \in Int /\ Sets!Max(S) \in Int /\ m <= Sets!Max(S) /\ Sets!Max(S) <= m
  BY <1>2
<1>. QED BY ONLY <1>3

LEMMA MinIs ==
  ASSUME NEW S, S \subseteq Int, NEW m \in S, \A y \in S : m <= y
  PROVE  Sets!Min(S) = m
<1>1. Sets!Min(S) \in S /\ \A y \in S : Sets!Min(S) <= y
  BY DEF Sets!Min
<1>2. m \in Int /\ Sets!Min(S) \in Int /\ m <= Sets!Min(S) /\ Sets!Min(S) <= m
  BY <1>1
<1>. QED BY ONLY <1>2

\* As many ranks as places from the lowest to the highest: an interval.
LEMMA FullSpanIsInterval ==
  ASSUME NEW R \in SUBSET Rank, R # {}, NEW l \in Nat, l >= 1
  PROVE  (Cardinality(R) = l /\ Sets!Max(R) - Sets!Min(R) = l - 1)
           <=> \E lo \in Rank : R = lo..(lo + l - 1)
<1>1. IsFiniteSet(R) /\ R \subseteq Int /\ R \in SUBSET Nat
  <2>1. IsFiniteSet(1..13) /\ R \in SUBSET (1..13)
    <3>1. 1 \in Int /\ 13 \in Int
      OBVIOUS
    <3>2. IsFiniteSet(1..13)
      BY <3>1, FS_Interval
    <3>. QED BY <3>2 DEF Rank
  <2>2. IsFiniteSet(R)
    BY ONLY <2>1, FS_Subset
  <2>. QED BY <2>1, <2>2
<1>2. PICK a \in R : \A y \in R : a <= y
  BY <1>1, LeastNatural
<1>3. Sets!Max(R) \in R /\ \A y \in R : y <= Sets!Max(R)
  BY <1>1, GreatestOfFinite
<1>. DEFINE b == Sets!Max(R)
<1>4. Sets!Min(R) = a
  BY <1>1, <1>2, MinIs
<1>5. a \in Rank /\ a \in Int /\ b \in Int /\ a <= b
  BY <1>1, <1>2, <1>3
<1>6. R \subseteq a..b
  BY <1>1, <1>2, <1>3
<1>7. IsFiniteSet(a..b) /\ Cardinality(a..b) = b - a + 1
  BY <1>5, FS_Interval
<1>8. ASSUME Cardinality(R) = l, b - a = l - 1
      PROVE  \E lo \in Rank : R = lo..(lo + l - 1)
  <2>1. Cardinality(a..b) = Cardinality(R)
    BY <1>5, <1>7, <1>8
  <2>2. R = a..b
    BY <1>6, <1>7, <2>1, FS_Subset
  <2>3. b = a + l - 1
    BY <1>5, <1>8
  <2>4. R = a..(a + l - 1)
    BY <2>2, <2>3
  <2>. QED BY <1>5, <2>4
<1>9. ASSUME NEW lo \in Rank, R = lo..(lo + l - 1)
      PROVE  Cardinality(R) = l /\ b - a = l - 1
  <2>1. lo \in Int /\ lo + l - 1 \in Int /\ lo <= lo + l - 1 /\ (lo + l - 1) - lo + 1 = l
    BY DEF Rank
  <2>2. Cardinality(R) = l
    BY <1>9, <2>1, FS_Interval
  <2>3. lo \in R /\ lo + l - 1 \in R /\ \A y \in R : lo <= y /\ y <= lo + l - 1
    BY <1>9, <2>1
  <2>4. b = lo + l - 1
    BY <1>1, <2>3, MaxIs
  <2>5. a = lo
    BY <1>1, <1>4, <2>3, MinIs
  <2>. QED BY <2>1, <2>2, <2>4, <2>5
<1>. HIDE DEF b
<1>. QED BY <1>4, <1>8, <1>9 DEF b

\* The last l cards of a series are those at its last l places.
LEMMA LastCardsAre ==
  ASSUME NEW all \in Seq(Card), NEW l \in 1..Len(all)
  PROVE  /\ Len(LastCards(all, l)) = l
         /\ Ranks(LastCards(all, l)) = {all[i].rank : i \in (Len(all) - l + 1)..Len(all)}
         /\ Ranks(LastCards(all, l)) \in SUBSET Rank
         /\ Ranks(LastCards(all, l)) # {}
<1>. DEFINE n  == Len(all)
            lc == LastCards(all, l)
<1>1. n \in Nat /\ l \in Nat /\ 1 <= l /\ l <= n /\ all \in Seq(Card)
  OBVIOUS
<1>2. /\ lc \in Seq(Card) /\ Len(lc) = l
      /\ \A i \in 1..l : lc[i] = all[n - l + i]
  BY <1>1 DEF LastCards
<1>3. DOMAIN lc = 1..l
  BY <1>2
<1>. HIDE DEF lc
<1>4. Ranks(lc) = {all[i].rank : i \in (n - l + 1)..n}
  <2>1. ASSUME NEW i \in 1..l PROVE n - l + i \in (n - l + 1)..n
    BY <1>1
  <2>2. ASSUME NEW i \in (n - l + 1)..n PROVE i - (n - l) \in 1..l /\ n - l + (i - (n - l)) = i
    BY <1>1
  <2>3. Ranks(lc) = {lc[i].rank : i \in 1..l}
    BY <1>3 DEF Ranks
  <2>4. ASSUME NEW r \in Ranks(lc) PROVE r \in {all[i].rank : i \in (n - l + 1)..n}
    <3>1. PICK i \in 1..l : r = lc[i].rank
      BY <2>3
    <3>. QED BY <1>2, <2>1, <3>1
  <2>5. ASSUME NEW r \in {all[i].rank : i \in (n - l + 1)..n} PROVE r \in Ranks(lc)
    <3>1. PICK i \in (n - l + 1)..n : r = all[i].rank
      OBVIOUS
    <3>2. lc[i - (n - l)] = all[i]
      BY <1>2, <2>2
    <3>. QED BY <2>2, <2>3, <3>1, <3>2
  <2>. QED BY <2>4, <2>5
<1>5. \A i \in (n - l + 1)..n : i \in 1..n /\ all[i].rank \in Rank
  <2>1. ASSUME NEW i \in (n - l + 1)..n PROVE i \in 1..n /\ all[i] \in Card
    BY <1>1
  <2>. QED BY <2>1 DEF Card
<1>6. n \in (n - l + 1)..n
  BY <1>1
<1>. QED BY <1>2, <1>4, <1>5, <1>6 DEF lc

LEMMA RunIsReferenceRun ==
  ASSUME NEW all \in Seq(Card), NEW l \in 1..Len(all)
  PROVE  IsRun(LastCards(all, l)) <=> ReferenceRun(all, l)
<1>1. /\ Len(LastCards(all, l)) = l
      /\ Ranks(LastCards(all, l)) \in SUBSET Rank
      /\ Ranks(LastCards(all, l)) # {}
  BY LastCardsAre
<1>2. l \in Nat /\ l >= 1
  OBVIOUS
<1>3. (/\ Cardinality(Ranks(LastCards(all, l))) = l
       /\ Sets!Max(Ranks(LastCards(all, l))) - Sets!Min(Ranks(LastCards(all, l))) = l - 1)
        <=> \E lo \in Rank : Ranks(LastCards(all, l)) = lo..(lo + l - 1)
  BY ONLY <1>1, <1>2, FullSpanIsInterval
<1>4. IsRun(LastCards(all, l))
        <=> /\ Cardinality(Ranks(LastCards(all, l))) = l
            /\ Sets!Max(Ranks(LastCards(all, l))) - Sets!Min(Ranks(LastCards(all, l))) = l - 1
  BY <1>1 DEF IsRun
<1>5. ReferenceRun(all, l)
        <=> \E lo \in Rank : Ranks(LastCards(all, l)) = lo..(lo + l - 1)
  BY DEF ReferenceRun
<1>. QED BY ONLY <1>3, <1>4, <1>5

\* What the run suffixes cover is the longest of them.
LEMMA RunSuffixesAreNested ==
  ASSUME NEW all \in Seq(Card)
  PROVE  RunPoints(all) = IF RunLengths(all) = {} THEN 0 ELSE Sets!Max(RunLengths(all))
<1>. DEFINE n    == Len(all)
            runs == RunLengths(all)
<1>1. n \in Nat /\ DOMAIN all = 1..n
  OBVIOUS
<1>2. LongestRunSuffix(all) = {i \in 1..n : \E l \in runs : i > n - l}
  BY <1>1 DEF LongestRunSuffix, RunLengths
<1>3. runs \in SUBSET (3..n)
  BY DEF RunLengths
<1>4. IsFiniteSet(runs) /\ runs \subseteq Int
  <2>1. IsFiniteSet(3..n)
    BY <1>1, FS_Interval
  <2>. QED BY <1>1, <1>3, <2>1, FS_Subset
<1>. HIDE DEF runs, n
<1>5. CASE runs = {}
  <2>1. LongestRunSuffix(all) = {}
    BY <1>2, <1>5
  <2>. QED BY <1>5, <2>1, FS_EmptySet DEF RunPoints, runs
<1>6. CASE runs # {}
  <2>. DEFINE m == Sets!Max(runs)
  <2>1. m \in runs /\ \A l \in runs : l <= m
    BY <1>4, <1>6, GreatestOfFinite
  <2>. HIDE DEF m
  <2>2. m \in Int /\ 3 <= m /\ m <= n /\ \A l \in runs : l \in Int
    BY <1>1, <1>3, <2>1
  <2>3. ASSUME NEW i \in 1..n, NEW l \in runs, i > n - l PROVE i \in (n - m + 1)..n
    <3>1. i \in Int /\ l \in Int /\ l <= m /\ i <= n
      BY <1>1, <2>1, <2>2
    <3>. QED BY ONLY <3>1, <2>2, <2>3, <1>1
  <2>4. ASSUME NEW i \in (n - m + 1)..n PROVE i \in 1..n /\ i > n - m
    BY <1>1, <2>2
  <2>5. LongestRunSuffix(all) = (n - m + 1)..n
    BY <1>2, <2>1, <2>3, <2>4
  <2>6. n - m + 1 \in Int /\ n \in Int /\ ~(n - m + 1 > n) /\ n - (n - m + 1) + 1 = m
    BY <1>1, <2>2
  <2>7. Cardinality((n - m + 1)..n) = m
    BY <2>6, FS_Interval
  <2>. QED BY <1>6, <2>5, <2>7 DEF RunPoints, runs, m
<1>. QED BY <1>5, <1>6

\* The ordered pairs of different members.
LEMMA OrderedPairs ==
  ASSUME NEW S, IsFiniteSet(S)
  PROVE  Cardinality({p \in S \X S : p[1] # p[2]}) = Cardinality(S) * (Cardinality(S) - 1)
<1>. DEFINE D == {p \in S \X S : p[1] = p[2]}
            f == [x \in S |-> <<x, x>>]
<1>1. IsFiniteSet(S \X S) /\ Cardinality(S \X S) = Cardinality(S) * Cardinality(S)
  BY FS_Product
<1>2. Cardinality(S) \in Nat
  BY FS_CardinalityType
<1>3. ExistsBijection(S, D)
  <2>1. f \in [S -> D]
    OBVIOUS
  <2>2. \A a, b \in S : f[a] = f[b] => a = b
    OBVIOUS
  <2>3. \A p \in D : \E x \in S : f[x] = p
    <3>1. ASSUME NEW p \in D PROVE p[1] \in S /\ f[p[1]] = p
      OBVIOUS
    <3>. QED BY <3>1
  <2>. HIDE DEF f
  <2>4. f \in Bijection(S, D)
    BY <2>1, <2>2, <2>3 DEF Bijection, Injection, Surjection, IsInjective
  <2>. QED BY <2>4 DEF ExistsBijection
<1>4. Cardinality(D) = Cardinality(S)
  BY <1>3, FS_Bijection
<1>5. {p \in S \X S : p[1] # p[2]} = (S \X S) \ D /\ (S \X S) \cap D = D
  OBVIOUS
<1>6. Cardinality((S \X S) \ D) = Cardinality(S) * Cardinality(S) - Cardinality(S)
  <2>. DEFINE P == S \X S
  <2>1. IsFiniteSet(P) /\ P \cap D = D /\ Cardinality(P) = Cardinality(S) * Cardinality(S)
    BY <1>1, <1>5
  <2>. HIDE DEF P, D
  <2>2. Cardinality(P \ D) = Cardinality(P) - Cardinality(P \cap D)
    BY ONLY <2>1, FS_Difference
  <2>. QED BY <1>4, <2>1, <2>2 DEF P
<1>7. \A k \in Nat : k * k - k = k * (k - 1)
  OBVIOUS
<1>. QED BY <1>2, <1>5, <1>6, <1>7

\* The trailing cards of the last one's rank: how many, by any of the counts.
LEMMA TrailingCardsAre ==
  ASSUME NEW all \in Seq(Card), all # <<>>, NEW rank, rank = all[Len(all)].rank
  PROVE  LET n    == Len(all)
             same == {i \in DOMAIN all : \A j \in i..n : all[j].rank = rank}
             k    == Sets!Max({i \in 1..n : \A r \in Ranks(LastCards(all, i)) : r = rank})
         IN  /\ IsFiniteSet(same)
             /\ TrailingSameRank(all) = Cardinality(same)
             /\ k = Cardinality(same)
<1>. DEFINE n    == Len(all)
            same == {i \in DOMAIN all : \A j \in i..n : all[j].rank = rank}
            K    == {i \in 1..n : \A r \in Ranks(LastCards(all, i)) : r = rank}
<1>1. n \in Nat /\ n >= 1 /\ DOMAIN all = 1..n
  OBVIOUS
<1>2. TrailingSameRank(all) = Cardinality(same)
  BY DEF TrailingSameRank
<1>3. \A l \in 1..n : Ranks(LastCards(all, l)) = {all[i].rank : i \in (n - l + 1)..n}
  BY LastCardsAre
<1>4. \A l \in 1..n : l \in K <=> n - l + 1 \in same
  <2>1. ASSUME NEW l \in 1..n PROVE n - l + 1 \in 1..n
    BY <1>1
  <2>2. ASSUME NEW l \in 1..n
        PROVE  l \in K <=> \A j \in (n - l + 1)..n : all[j].rank = rank
    <3>1. Ranks(LastCards(all, l)) = {all[i].rank : i \in (n - l + 1)..n}
      BY <1>3
    <3>2. l \in K <=> \A r \in Ranks(LastCards(all, l)) : r = rank
      OBVIOUS
    <3>. HIDE DEF K, n
    <3>3. (\A r \in {all[i].rank : i \in (n - l + 1)..n} : r = rank)
            <=> \A j \in (n - l + 1)..n : all[j].rank = rank
      OBVIOUS
    <3>. QED BY ONLY <3>1, <3>2, <3>3
  <2>3. \A i \in 1..n : i \in same <=> \A j \in i..n : all[j].rank = rank
    BY <1>1
  <2>. HIDE DEF K, same, n
  <2>. QED BY <2>1, <2>2, <2>3
<1>5. n \in same /\ same \in SUBSET Nat /\ same \subseteq 1..n
  <2>1. \A j \in n..n : j = n
    <3>1. ASSUME NEW j \in n..n PROVE j \in Int /\ n \in Int /\ n <= j /\ j <= n
      BY <1>1
    <3>. QED BY <3>1
  <2>. QED BY <1>1, <2>1
<1>6. \A a \in same : \A i \in a..n : i \in same
  <2>1. ASSUME NEW a \in same, NEW i \in a..n, NEW j \in i..n PROVE j \in a..n
    BY <1>1
  <2>2. ASSUME NEW a \in same, NEW i \in a..n PROVE i \in 1..n
    BY <1>1
  <2>. QED BY <1>1, <2>1, <2>2
<1>. HIDE DEF same, K
<1>7. PICK a \in same : \A i \in same : a <= i
  BY <1>5, LeastNatural
<1>8. a \in 1..n
  BY <1>5
<1>9. same = a..n
  <2>1. ASSUME NEW i \in same PROVE i \in a..n
    BY <1>1, <1>5, <1>7
  <2>. QED BY <1>6, <2>1
<1>10. IsFiniteSet(same) /\ Cardinality(same) = n - a + 1
  <2>1. a \in Int /\ n \in Int /\ ~(a > n)
    BY <1>1, <1>8
  <2>. QED BY <1>9, <2>1, FS_Interval
<1>11. n - a + 1 \in 1..n /\ n - (n - a + 1) + 1 = a
  BY <1>1, <1>8
<1>12. n - a + 1 \in K
  BY <1>4, <1>11
<1>13. ASSUME NEW l \in K PROVE l <= n - a + 1
  <2>1. l \in 1..n
    BY DEF K
  <2>2. a <= n - l + 1
    BY <1>4, <1>7, <1>13, <2>1
  <2>. QED BY ONLY <1>1, <1>8, <2>1, <2>2
<1>14. IsFiniteSet(K) /\ K \subseteq Int
  <2>1. K \in SUBSET (1..n) /\ IsFiniteSet(1..n)
    BY <1>1, FS_Interval DEF K
  <2>2. IsFiniteSet(K)
    BY ONLY <2>1, FS_Subset
  <2>. QED BY <2>1, <2>2
<1>15. Sets!Max(K) = n - a + 1
  BY <1>12, <1>13, <1>14, MaxIs
<1>. QED BY <1>2, <1>10, <1>15 DEF same, K

(***************************************************************************)
(* The itemised breakdown (Score), the bots' total (Total) and the         *)
(* reference of the tests give a play the same points, on a series of any  *)
(* length: the trailing cards of a rank counted one way or the other,      *)
(* their ordered pairs, and the run suffixes, nested as they are, with     *)
(* their ranks in an interval.                                             *)
(***************************************************************************)
THEOREM PlayScorersAreOne ==
  ASSUME NEW series \in Seq(Card), NEW card \in Card
  PROVE  PlayScoredRight(series, card)
<1>. DEFINE all   == Append(series, card)
            n     == Len(all)
            same  == {i \in DOMAIN all : \A j \in i..n : all[j].rank = card.rank}
            k     == Sets!Max({i \in 1..n : \A r \in Ranks(LastCards(all, i)) : r = card.rank})
            runs  == RunLengths(all)
            rruns == {l \in 3..n : ReferenceRun(all, l)}
            longest == IF runs = {} THEN 0 ELSE Sets!Max(runs)
            pairs == {p \in same \X same : p[1] # p[2]}
            total == RunningCount(all)
<1>1. all \in Seq(Card) /\ all # <<>> /\ card = all[n]
  OBVIOUS
<1>2. /\ IsFiniteSet(same)
      /\ TrailingSameRank(all) = Cardinality(same)
      /\ k = Cardinality(same)
  <2>1. card.rank = all[Len(all)].rank
    BY <1>1
  <2>. HIDE DEF all
  <2>. QED BY <1>1, <2>1, TrailingCardsAre
<1>3. runs = rruns
  <2>1. \A l \in 3..n : l \in 1..Len(all)
    BY <1>1
  <2>. HIDE DEF all
  <2>. QED BY <1>1, <2>1, RunIsReferenceRun DEF RunLengths
<1>4. RunPoints(all) = longest
  <2>. HIDE DEF all
  <2>. QED BY <1>1, RunSuffixesAreNested
<1>5. Cardinality(pairs) = Cardinality(same) * (Cardinality(same) - 1)
  <2>. HIDE DEF same
  <2>. QED BY <1>2, OrderedPairs
<1>6. PairPoints(all) = k * (k - 1)
  BY <1>2 DEF PairPoints
<1>7. Score(series, card)
        = (IF total = 15 THEN 2 ELSE 0) + (IF total = 31 THEN 2 ELSE 0)
            + PairPoints(all) + RunPoints(all)
  BY DEF Score, Fifteen, ThirtyOne
<1>8. Total(series, card) = (IF total \in {15, 31} THEN 2 ELSE 0) + k * (k - 1) + longest
  BY DEF Total
<1>9. ReferenceTotal(series, card)
        = (IF total = 15 THEN 2 ELSE 0) + (IF total = 31 THEN 2 ELSE 0)
            + Cardinality(pairs) + (IF rruns = {} THEN 0 ELSE Sets!Max(rruns))
  BY DEF ReferenceTotal
<1>10. (IF total = 15 THEN 2 ELSE 0) + (IF total = 31 THEN 2 ELSE 0)
         = IF total \in {15, 31} THEN 2 ELSE 0
  OBVIOUS
<1>11. (IF rruns = {} THEN 0 ELSE Sets!Max(rruns)) = longest /\ Cardinality(pairs) = k * (k - 1)
  BY <1>2, <1>3, <1>5
<1>. HIDE DEF all, n, same, k, runs, rruns, longest, pairs, total
<1>12. Score(series, card) = Total(series, card)
  BY <1>4, <1>6, <1>7, <1>8, <1>10
<1>13. Score(series, card) = ReferenceTotal(series, card)
  BY <1>4, <1>6, <1>7, <1>9, <1>11
<1>. QED BY <1>12, <1>13 DEF PlayScoredRight
-----------------------------------------------------------------------------
(***************************************************************************)
(* The two scorers of a show and the reference of their tests.             *)
(***************************************************************************)
\* Pairs are counted rank by rank, in any grouping of the ranks.
LEMMA PairPointsAdd ==
  ASSUME NEW cards, IsFiniteSet(cards), NEW A, NEW B, A \cap B = {}
  PROVE  PairPointsIn(cards, A \cup B) = PairPointsIn(cards, A) + PairPointsIn(cards, B)
<1>. DEFINE P(ranks) == {p \in cards \X cards :
                           p[1] # p[2] /\ p[1].rank = p[2].rank /\ p[1].rank \in ranks}
<1>1. IsFiniteSet(cards \X cards)
  BY FS_Product
<1>2. \A ranks : IsFiniteSet(P(ranks)) /\ Cardinality(P(ranks)) \in Nat
  <2>1. \A ranks : P(ranks) \in SUBSET (cards \X cards)
    OBVIOUS
  <2>2. ASSUME NEW ranks PROVE IsFiniteSet(P(ranks))
    <3>. HIDE DEF P
    <3>. QED BY <1>1, <2>1, FS_Subset
  <2>. HIDE DEF P
  <2>. QED BY <2>2, FS_CardinalityType
<1>3. P(A \cup B) = P(A) \cup P(B) /\ P(A) \cap P(B) = {}
  OBVIOUS
<1>4. \A ranks : PairPointsIn(cards, ranks) = Cardinality(P(ranks))
  BY DEF PairPointsIn
<1>. HIDE DEF P
<1>5. Cardinality(P(A) \cap P(B)) = 0
  BY <1>3, FS_EmptySet
<1>6. Cardinality(P(A) \cup P(B)) = Cardinality(P(A)) + Cardinality(P(B))
  <2>1. Cardinality(P(A) \cup P(B)) = Cardinality(P(A)) + Cardinality(P(B)) - 0
    BY <1>2, <1>5, FS_Union
  <2>. QED BY <1>2, <2>1
<1>7. /\ PairPointsIn(cards, A \cup B) = Cardinality(P(A) \cup P(B))
      /\ PairPointsIn(cards, A) = Cardinality(P(A))
      /\ PairPointsIn(cards, B) = Cardinality(P(B))
  <2>1. PairPointsIn(cards, A \cup B) = Cardinality(P(A \cup B))
    BY <1>4
  <2>. QED BY <1>3, <1>4, <2>1
<1>. QED BY <1>6, <1>7

LEMMA PairPointsOfRank ==
  ASSUME NEW cards, IsFiniteSet(cards), NEW r
  PROVE  PairPointsIn(cards, {r}) = Count(cards, r) * (Count(cards, r) - 1)
<1>. DEFINE C == {c \in cards : c.rank = r}
<1>1. IsFiniteSet(C)
  BY FS_Subset
<1>2. {p \in cards \X cards : p[1] # p[2] /\ p[1].rank = p[2].rank /\ p[1].rank \in {r}}
        = {p \in C \X C : p[1] # p[2]}
  OBVIOUS
<1>3. Count(cards, r) = Cardinality(C)
  BY DEF Count
<1>4. PairPointsIn(cards, {r}) = Cardinality({p \in C \X C : p[1] # p[2]})
  BY <1>2 DEF PairPointsIn
<1>. HIDE DEF C
<1>. QED BY <1>1, <1>3, <1>4, OrderedPairs

\* f holds the sum of F over each part of S, an element taken off at a time.
First(T) == CHOOSE x \in T : TRUE

Adds(f, F, S) ==
  f = [T \in SUBSET S |-> IF T = {} THEN 0 ELSE F[First(T)] + f[T \ {First(T)}]]

\* There is one such sum.
LEMMA SumIsOne ==
  ASSUME NEW S, IsFiniteSet(S), NEW F, NEW f, NEW g, Adds(f, F, S), Adds(g, F, S)
  PROVE  f[S] = g[S]
<1>. DEFINE wrong == {Cardinality(T) : T \in {T \in SUBSET S : f[T] # g[T]}}
<1>1. ASSUME NEW T \in SUBSET S
      PROVE  IsFiniteSet(T) /\ Cardinality(T) \in Nat
  <2>1. IsFiniteSet(T)
    BY FS_Subset
  <2>. QED BY <2>1, FS_CardinalityType
<1>2. wrong \in SUBSET Nat
  BY <1>1
<1>3. ASSUME wrong # {} PROVE FALSE
  <2>1. PICK n \in wrong : \A m \in wrong : n <= m
    <3>. HIDE DEF wrong
    <3>. QED BY <1>2, <1>3, LeastNatural
  <2>2. PICK T \in SUBSET S : f[T] # g[T] /\ n = Cardinality(T)
    BY <2>1
  <2>3. T # {}
    BY <2>2 DEF Adds
  <2>4. PICK x : x = First(T) /\ x \in T
    BY <2>3 DEF First
  <2>5. T \ {x} \in SUBSET S /\ Cardinality(T \ {x}) = n - 1 /\ n \in Nat
    <3>1. Cardinality(T \ {x}) = Cardinality(T) - 1
      BY <1>1, <2>4, FS_RemoveElement
    <3>. QED BY <1>1, <2>2, <3>1
  <2>6. ~ (Cardinality(T \ {x}) \in wrong)
    BY <2>1, <2>5
  <2>7. f[T \ {x}] = g[T \ {x}]
    BY <2>5, <2>6
  <2>8. f[T] = F[x] + f[T \ {x}] /\ g[T] = F[x] + g[T \ {x}]
    <3>. HIDE DEF wrong
    <3>. QED BY <2>3, <2>4 DEF Adds
  <2>. QED BY <2>2, <2>7, <2>8
<1>4. S \in SUBSET S
  OBVIOUS
<1>. QED BY <1>3, <1>4

\* The sum over the ranks that Total takes is the pairs that Score counts: the
\* pairs of no rank are none, and each rank adds those of its own.
LEMMA RankSum ==
  ASSUME NEW cards, IsFiniteSet(cards)
  PROVE  PairsByRank(cards) = PairPointsIn(cards, Rank)
<1>. DEFINE F == [r \in Rank |-> Count(cards, r) * (Count(cards, r) - 1)]
            w == [T \in SUBSET Rank |-> PairPointsIn(cards, T)]
            g == CHOOSE f : Adds(f, F, Rank)
<1>1. \A T \in SUBSET Rank : T # {} => First(T) \in Rank
  BY DEF First
<1>2. PairsByRank(cards) = g[Rank]
  <2>. DEFINE op(r) == Count(cards, r) * (Count(cards, r) - 1)
              take(s) == CHOOSE x \in s : TRUE
              I(f) == f = [s \in SUBSET Rank |-> IF s = {} THEN 0
                                          ELSE op(take(s)) + f[s \ {take(s)}]]
  <2>1. PairsByRank(cards) = (CHOOSE f : I(f))[Rank]
    BY DEF PairsByRank, Sets!MapThenSumSet, Sets!MapThenFoldSet
  <2>2. \A T \in SUBSET Rank : T # {} => F[First(T)] = op(take(T))
    BY <1>1 DEF First
  <2>3. \A T : First(T) = take(T)
    BY DEF First
  <2>. HIDE DEF F, op, take
  <2>4. \A f : [T \in SUBSET Rank |-> IF T = {} THEN 0 ELSE F[First(T)] + f[T \ {First(T)}]]
                 = [T \in SUBSET Rank |-> IF T = {} THEN 0 ELSE op(take(T)) + f[T \ {take(T)}]]
    BY <2>2, <2>3
  <2>5. \A f : Adds(f, F, Rank) <=> I(f)
    BY <2>4 DEF Adds
  <2>6. (CHOOSE f : I(f)) = g
    <3>. HIDE DEF I
    <3>. QED BY <2>5
  <2>. QED BY <2>1, <2>6
<1>3. ASSUME NEW T \in SUBSET Rank, T # {}
      PROVE  PairPointsIn(cards, T) = F[First(T)] + PairPointsIn(cards, T \ {First(T)})
  <2>1. PICK r \in T : r = First(T)
    BY <1>3 DEF First
  <2>2. T = {r} \cup (T \ {r}) /\ {r} \cap (T \ {r}) = {}
    OBVIOUS
  <2>3. PairPointsIn(cards, {r} \cup (T \ {r}))
          = PairPointsIn(cards, {r}) + PairPointsIn(cards, T \ {r})
    BY <2>2, PairPointsAdd
  <2>4. F[r] = PairPointsIn(cards, {r})
    BY PairPointsOfRank
  <2>. HIDE DEF F
  <2>. QED BY <2>1, <2>2, <2>3, <2>4
<1>4. PairPointsIn(cards, {}) = 0
  <2>1. {p \in cards \X cards :
           p[1] # p[2] /\ p[1].rank = p[2].rank /\ p[1].rank \in {}} = {}
    OBVIOUS
  <2>. QED BY <2>1, FS_EmptySet DEF PairPointsIn
<1>5. Adds(w, F, Rank)
  <2>. HIDE DEF F
  <2>1. ASSUME NEW T \in SUBSET Rank
        PROVE  w[T] = IF T = {} THEN 0 ELSE F[First(T)] + w[T \ {First(T)}]
    BY <1>3, <1>4
  <2>2. w = [T \in SUBSET Rank |-> w[T]]
    OBVIOUS
  <2>. HIDE DEF w
  <2>. QED BY <2>1, <2>2 DEF Adds
<1>6. Adds(g, F, Rank)
  BY <1>5
<1>7. IsFiniteSet(Rank)
  <2>1. 1 \in Int /\ 13 \in Int
    OBVIOUS
  <2>. QED BY <2>1, FS_Interval DEF Rank
<1>8. g[Rank] = w[Rank]
  <2>. HIDE DEF g, w, F
  <2>. QED BY <1>5, <1>6, <1>7, SumIsOne
<1>. HIDE DEF g
<1>. QED BY <1>2, <1>8

\* A few cards of the deck, and their ranks.
LEMMA RanksAreFew ==
  ASSUME NEW cards \in SUBSET Card, IsFiniteSet(cards)
  PROVE  /\ RanksOf(cards) \in SUBSET Rank
         /\ IsFiniteSet(RanksOf(cards))
         /\ Cardinality(RanksOf(cards)) <= Cardinality(cards)
         /\ Cardinality(RanksOf(cards)) = Cardinality(cards)
              => \A c, d \in cards : c.rank = d.rank => c = d
<1>. DEFINE f == [c \in cards |-> c.rank]
<1>1. f \in Surjection(cards, RanksOf(cards))
  <2>1. f \in [cards -> RanksOf(cards)]
    BY DEF RanksOf
  <2>2. \A r \in RanksOf(cards) : \E c \in cards : f[c] = r
    BY DEF RanksOf
  <2>. HIDE DEF f
  <2>. QED BY <2>1, <2>2 DEF Surjection
<1>2. /\ IsFiniteSet(RanksOf(cards))
      /\ Cardinality(RanksOf(cards)) <= Cardinality(cards)
      /\ Cardinality(RanksOf(cards)) = Cardinality(cards) <=> f \in Injection(cards, RanksOf(cards))
  <2>. HIDE DEF f
  <2>. QED BY <1>1, FS_Surjection
<1>3. f \in Injection(cards, RanksOf(cards)) => \A c, d \in cards : c.rank = d.rank => c = d
  <2>1. \A c \in cards : f[c] = c.rank
    OBVIOUS
  <2>. HIDE DEF f
  <2>. QED BY <2>1 DEF Injection, IsInjective
<1>4. RanksOf(cards) \in SUBSET Rank
  BY DEF RanksOf, Card
<1>. HIDE DEF f
<1>. QED BY <1>2, <1>3, <1>4

\* Two stretches of three ranks or more take six.
LEMMA OneRun ==
  ASSUME NEW cards \in SUBSET Card, IsFiniteSet(cards), Cardinality(cards) = 5,
         NEW r \in Runs(cards), NEW q \in Runs(cards)
  PROVE  r = q
<1>. DEFINE R == RanksOf(cards)
<1>1. R \in SUBSET Rank /\ IsFiniteSet(R) /\ Cardinality(R) <= 5
  BY RanksAreFew
<1>2. /\ r \in Rank \X Rank /\ r[2] - r[1] >= 2 /\ r[1]..r[2] \subseteq R
      /\ r[1] - 1 \notin R /\ r[2] + 1 \notin R
      /\ q \in Rank \X Rank /\ q[2] - q[1] >= 2 /\ q[1]..q[2] \subseteq R
      /\ q[1] - 1 \notin R /\ q[2] + 1 \notin R
  BY DEF Runs
<1>3. PICK a, b, c, d \in Rank : r = <<a, b>> /\ q = <<c, d>>
  BY <1>2
<1>. HIDE DEF R
<1>4. /\ a \in Int /\ b \in Int /\ c \in Int /\ d \in Int
      /\ b - a >= 2 /\ d - c >= 2
      /\ a..b \subseteq R /\ c..d \subseteq R
      /\ a - 1 \notin R /\ b + 1 \notin R /\ c - 1 \notin R /\ d + 1 \notin R
  BY <1>2, <1>3 DEF Rank
<1>5. CASE c <= b /\ a <= d
  <2>1. ~ (a < c)
    <3>1. a < c => c - 1 \in a..b
      BY <1>4, <1>5
    <3>. QED BY <1>4, <3>1
  <2>2. ~ (c < a)
    <3>1. c < a => a - 1 \in c..d
      BY <1>4, <1>5
    <3>. QED BY <1>4, <3>1
  <2>3. ~ (b < d)
    <3>1. b < d => b + 1 \in c..d
      BY <1>4, <1>5
    <3>. QED BY <1>4, <3>1
  <2>4. ~ (d < b)
    <3>1. d < b => d + 1 \in a..b
      BY <1>4, <1>5
    <3>. QED BY <1>4, <3>1
  <2>5. a = c /\ b = d
    BY ONLY <1>4, <2>1, <2>2, <2>3, <2>4
  <2>. QED BY <1>3, <2>5
<1>6. CASE ~ (c <= b /\ a <= d)
  <2>1. (a..b) \cap (c..d) = {}
    <3>1. ASSUME NEW x \in a..b, x \in c..d PROVE FALSE
      BY <1>4, <1>6, <3>1
    <3>. QED BY <3>1
  <2>2. /\ IsFiniteSet(a..b) /\ Cardinality(a..b) = b - a + 1
        /\ IsFiniteSet(c..d) /\ Cardinality(c..d) = d - c + 1
    <3>1. ~ (a > b) /\ ~ (c > d)
      BY <1>4
    <3>. QED BY <1>4, <3>1, FS_Interval
  <2>3. Cardinality((a..b) \cup (c..d)) = (b - a + 1) + (d - c + 1) - 0
    <3>. DEFINE A == a..b
                B == c..d
    <3>1. A \cap B = {} /\ IsFiniteSet(A) /\ IsFiniteSet(B)
      BY <2>1, <2>2
    <3>. HIDE DEF A, B
    <3>2. Cardinality(A \cup B) = Cardinality(A) + Cardinality(B) - Cardinality(A \cap B)
      BY ONLY <3>1, FS_Union
    <3>3. Cardinality(A \cap B) = 0
      BY <3>1, FS_EmptySet
    <3>4. Cardinality(A) = b - a + 1 /\ Cardinality(B) = d - c + 1
      BY <2>2 DEF A, B
    <3>5. Cardinality(A \cup B) = (b - a + 1) + (d - c + 1) - 0
      BY ONLY <3>2, <3>3, <3>4
    <3>. QED BY <3>5 DEF A, B
  <2>4. (a..b) \cup (c..d) \in SUBSET R
    BY <1>4
  <2>5. Cardinality((a..b) \cup (c..d)) <= Cardinality(R)
    BY <1>1, <2>4, FS_Subset
  <2>6. Cardinality(R) \in Nat
    BY <1>1, FS_CardinalityType
  <2>. QED BY <1>1, <1>4, <2>3, <2>5, <2>6
<1>. QED BY <1>5, <1>6

\* The sum over no run, and over one.
LEMMA RunSum ==
  ASSUME NEW cards, NEW run, Runs(cards) \in {{}, {run}}
  PROVE  RunTotal(cards)
           = IF Runs(cards) = {} THEN 0
             ELSE (run[2] - run[1] + 1) * Multiplicity(cards, run) + 0
<1>. DEFINE RS == Runs(cards)
            op(r) == (r[2] - r[1] + 1) * Multiplicity(cards, r)
            take(s) == CHOOSE x \in s : TRUE
            I(f) == f = [s \in SUBSET RS |-> IF s = {} THEN 0
                                      ELSE op(take(s)) + f[s \ {take(s)}]]
            g == CHOOSE f : I(f)
            w == [s \in SUBSET RS |-> IF s = {} THEN 0 ELSE op(run) + 0]
<1>1. RunTotal(cards) = g[RS]
  BY DEF RunTotal, Sets!MapThenSumSet, Sets!MapThenFoldSet
<1>0. RS \in {{}, {run}}
  OBVIOUS
<1>. HIDE DEF op, RS
<1>2. \A s \in SUBSET RS : s # {} => take(s) = run /\ s \ {take(s)} = {} /\ s = RS
  BY <1>0
<1>3. I(w)
  <2>1. ASSUME NEW s \in SUBSET RS
        PROVE  w[s] = IF s = {} THEN 0 ELSE op(take(s)) + w[s \ {take(s)}]
    BY <1>2
  <2>2. w = [s \in SUBSET RS |-> w[s]]
    OBVIOUS
  <2>. HIDE DEF w
  <2>. QED BY <2>1, <2>2
<1>4. I(g)
  <2>. HIDE DEF I
  <2>. QED BY <1>3
<1>. HIDE DEF g, w
<1>5. g[{}] = 0
  BY <1>4
<1>6. RS # {} => g[RS] = op(run) + g[{}]
  <2>1. RS \in SUBSET RS
    OBVIOUS
  <2>. QED BY <1>2, <1>4, <2>1
<1>. QED BY <1>1, <1>5, <1>6 DEF op, RS

LEMMA TotalIsScore ==
  ASSUME NEW h, NEW starter_, NEW isCrib, h \cup {starter_} \in SUBSET Card,
         IsFiniteSet(h \cup {starter_}), Cardinality(h \cup {starter_}) = 5
  PROVE  HandScore(h, starter_, isCrib) = HandTotal(h, starter_, isCrib)
<1>. DEFINE cards == h \cup {starter_}
            RS    == Runs(cards)
            run   == CHOOSE r \in RS : TRUE
            inner == run[1]..run[2]
            value == (run[2] - run[1] + 1) * Multiplicity(cards, run)
            pairs == PairPointsIn(cards, Rank)
            grouped == IF RS = {} THEN pairs
                       ELSE RunPointsOf(cards, run) + PairPointsIn(cards, Rank \ inner)
            sumR == PairsByRank(cards)
            sumRun == RunTotal(cards)
<1>1. HandScore(h, starter_, isCrib)
        = FifteenPoints(cards) + grouped + FlushPoints(h, starter_, isCrib)
            + NobsPoints(h, starter_)
  BY DEF HandScore
<1>2. HandTotal(h, starter_, isCrib)
        = FifteenPoints(cards) + sumR + sumRun + FlushPoints(h, starter_, isCrib)
            + NobsPoints(h, starter_)
  BY DEF HandTotal
<1>3. cards \in SUBSET Card /\ IsFiniteSet(cards) /\ Cardinality(cards) = 5
  OBVIOUS
<1>. HIDE DEF cards
<1>4. sumR = pairs
  BY <1>3, RankSum
<1>5. \A r, q \in RS : r = q
  BY <1>3, OneRun
<1>6. RS \in {{}, {run}}
  <2>. HIDE DEF RS
  <2>. QED BY <1>5
<1>7. sumRun = IF RS = {} THEN 0 ELSE value + 0
  <2>1. sumRun = IF RS = {} THEN 0 ELSE (run[2] - run[1] + 1) * Multiplicity(cards, run) + 0
    <3>. HIDE DEF run
    <3>. QED BY <1>6, RunSum
  <2>. HIDE DEF RS, run, sumRun
  <2>. QED BY <2>1
<1>8. pairs \in Nat /\ PairPointsIn(cards, inner) \in Nat
      /\ PairPointsIn(cards, Rank \ inner) \in Nat /\ FifteenPoints(cards) \in Nat
      /\ FlushPoints(h, starter_, isCrib) \in Nat /\ NobsPoints(h, starter_) \in Nat
  <2>1. FlushPoints(h, starter_, isCrib) \in Nat /\ NobsPoints(h, starter_) \in Nat
    BY DEF FlushPoints, NobsPoints
  <2>2. FifteenPoints(cards) \in Nat
    <3>. DEFINE fif == {s \in SUBSET cards : PipSum(s) = 15}
    <3>1. IsFiniteSet(SUBSET cards) /\ fif \in SUBSET (SUBSET cards)
      BY <1>3, FS_SUBSET
    <3>2. FifteenPoints(cards) = 2 * Cardinality(fif)
      BY DEF FifteenPoints
    <3>. HIDE DEF fif
    <3>3. Cardinality(fif) \in Nat
      BY <3>1, FS_Subset, FS_CardinalityType
    <3>. QED BY <3>2, <3>3
  <2>. QED BY <1>3, <2>1, <2>2, PairPointsInIsNat
<1>9. CASE RS = {}
  <2>1. grouped = pairs /\ sumRun = 0
    BY <1>7, <1>9
  <2>. HIDE DEF grouped, sumR, sumRun, pairs
  <2>. QED BY <1>1, <1>2, <1>4, <1>8, <2>1
<1>10. CASE RS # {}
  <2>1. run \in RS
    BY <1>10
  <2>2. run \in Rank \X Rank /\ inner \subseteq Rank
    <3>1. run \in Rank \X Rank /\ inner \subseteq RanksOf(cards)
      BY <2>1 DEF Runs
    <3>. QED BY <1>3, <3>1, RanksAreFew
  <2>3. pairs = PairPointsIn(cards, inner) + PairPointsIn(cards, Rank \ inner)
    <3>. HIDE DEF inner
    <3>1. Rank = inner \cup (Rank \ inner) /\ inner \cap (Rank \ inner) = {}
      BY <2>2
    <3>. QED BY <1>3, <3>1, PairPointsAdd
  <2>4. RunPointsOf(cards, run) = value + PairPointsIn(cards, inner)
    <3>. HIDE DEF run
    <3>. QED BY DEF RunPointsOf
  <2>5. value \in Nat
    <3>1. run[2] - run[1] + 1 \in Nat
      <4>1. run[2] - run[1] >= 2
        BY <2>1 DEF Runs
      <4>2. run[1] \in Int /\ run[2] \in Int
        <5>. HIDE DEF run
        <5>. QED BY <2>2 DEF Rank
      <4>. HIDE DEF run
      <4>. QED BY <4>1, <4>2
    <3>2. Multiplicity(cards, run) \in Nat
      BY <1>3, MultiplicityIsNat
    <3>. HIDE DEF run
    <3>. QED BY <3>1, <3>2, ProductIsNat
  <2>6. grouped = value + PairPointsIn(cards, inner) + PairPointsIn(cards, Rank \ inner)
    <3>. HIDE DEF run, value, inner
    <3>. QED BY <1>10, <2>4
  <2>7. sumRun = value
    <3>. HIDE DEF value, sumRun
    <3>. QED BY <1>7, <1>10, <2>5
  <2>. HIDE DEF grouped, sumR, sumRun, pairs, value, inner
  <2>. QED BY <1>1, <1>2, <1>4, <1>8, <2>3, <2>5, <2>6, <2>7
<1>. QED BY <1>9, <1>10

\* The subsets of a size, by the cardinality the proofs are about.
LEMMA SubsetsOfSize ==
  ASSUME NEW S, NEW n
  PROVE  Sets!kSubset(n, S) = {s \in SUBSET S : Cardinality(s) = n}
BY DEF Sets!kSubset, Sets!Cardinality, Cardinality

\* Two cards are one and another.
LEMMA TwoAre ==
  ASSUME NEW s, IsFiniteSet(s), Cardinality(s) = 2
  PROVE  \E a, b \in s : a # b /\ s = {a, b}
<1>1. s # {}
  BY FS_EmptySet
<1>2. PICK a \in s : TRUE
  BY <1>1
<1>3. IsFiniteSet(s \ {a}) /\ Cardinality(s \ {a}) = 1
  <2>1. IsFiniteSet(s \ {a}) /\ Cardinality(s \ {a}) = Cardinality(s) - 1
    BY <1>2, FS_RemoveElement
  <2>. QED BY <2>1
<1>4. PICK b : s \ {a} = {b}
  BY <1>3, FS_Singleton
<1>. QED BY <1>2, <1>4

\* Counted as sets, each pair of cards of a rank is counted once; as ordered
\* pairs, twice.
LEMMA PairsAreSets ==
  ASSUME NEW cards \in SUBSET Card, IsFiniteSet(cards)
  PROVE  /\ Cardinality({s \in Sets!kSubset(2, cards) : Cardinality(RanksOf(s)) = 1}) \in Nat
         /\ PairPointsIn(cards, Rank)
              = 2 * Cardinality({s \in Sets!kSubset(2, cards) : Cardinality(RanksOf(s)) = 1})
<1>. DEFINE T == {s \in Sets!kSubset(2, cards) : Cardinality(RanksOf(s)) = 1}
            P == {p \in cards \X cards :
                    p[1] # p[2] /\ p[1].rank = p[2].rank /\ p[1].rank \in Rank}
            g(s) == CHOOSE c \in s : TRUE
            A == {p \in P : g({p[1], p[2]}) = p[1]}
            B == {p \in P : g({p[1], p[2]}) = p[2]}
            f == [p \in A |-> {p[1], p[2]}]
            k == [p \in B |-> {p[1], p[2]}]
<1>1. \A a, b : g({a, b}) \in {a, b}
  OBVIOUS
<1>2. ASSUME NEW a \in cards, NEW b \in cards, a # b
      PROVE  {a, b} \in T <=> a.rank = b.rank
  <2>1. IsFiniteSet({a, b}) /\ Cardinality({a, b}) = 2
    <3>1. IsFiniteSet({a}) /\ Cardinality({a}) = 1
      BY FS_Singleton
    <3>2. {a, b} = {a} \cup {b} /\ b \notin {a}
      BY <1>2
    <3>3. IsFiniteSet({a} \cup {b}) /\ Cardinality({a} \cup {b}) = Cardinality({a}) + 1
      BY <3>1, <3>2, FS_AddElement
    <3>. QED BY <3>1, <3>2, <3>3
  <2>2. {a, b} \in Sets!kSubset(2, cards)
    BY <2>1, SubsetsOfSize
  <2>3. RanksOf({a, b}) = {a.rank, b.rank}
    BY DEF RanksOf
  <2>4. Cardinality({a.rank, b.rank}) = 1 <=> a.rank = b.rank
    <3>1. {a.rank, b.rank} \in SUBSET {a.rank, b.rank} /\ IsFiniteSet({a.rank, b.rank})
      <4>1. IsFiniteSet({a.rank}) /\ {a.rank, b.rank} = {a.rank} \cup {b.rank}
        BY FS_Singleton
      <4>2. IsFiniteSet({a.rank} \cup {b.rank})
        BY <4>1, FS_AddElement
      <4>. QED BY <4>1, <4>2
    <3>2. Cardinality({a.rank, b.rank}) = 1 <=> \E x : {a.rank, b.rank} = {x}
      BY <3>1, FS_Singleton
    <3>. QED BY <3>2
  <2>. QED BY <2>2, <2>3, <2>4
<1>3. ASSUME NEW s \in T
      PROVE  \E a, b \in cards : a # b /\ s = {a, b} /\ a.rank = b.rank
  <2>1. s \in SUBSET cards /\ Cardinality(s) = 2
    BY SubsetsOfSize
  <2>2. IsFiniteSet(s)
    BY <2>1, FS_Subset
  <2>3. PICK a, b \in s : a # b /\ s = {a, b}
    BY <2>1, <2>2, TwoAre
  <2>4. a \in cards /\ b \in cards /\ a.rank = b.rank
    <3>1. a \in cards /\ b \in cards
      BY <2>1
    <3>. HIDE DEF T
    <3>. QED BY <3>1, <2>3, <1>2, <1>3
  <2>. QED BY <2>3, <2>4
<1>4. \A a \in cards : a.rank \in Rank
  BY DEF Card
<1>5. \A a, b : <<a, b>> \in P <=> a \in cards /\ b \in cards /\ a # b /\ a.rank = b.rank
  BY <1>4
<1>6. \A p \in P : p = <<p[1], p[2]>>
  OBVIOUS
<1>7. A \cup B = P /\ A \cap B = {}
  <2>1. \A p \in P : g({p[1], p[2]}) \in {p[1], p[2]} /\ p[1] # p[2]
    BY <1>1
  <2>. HIDE DEF g, P
  <2>. QED BY <2>1
<1>. HIDE DEF T, P, g
<1>8. ExistsBijection(A, T)
  <2>1. f \in [A -> T]
    <3>1. ASSUME NEW p \in A PROVE {p[1], p[2]} \in T
      <4>1. PICK a, b : p = <<a, b>>
        BY <1>6
      <4>2. a \in cards /\ b \in cards /\ a # b /\ a.rank = b.rank
        BY <1>5, <4>1
      <4>. QED BY <1>2, <4>1, <4>2
    <3>. QED BY <3>1
  <2>2. ASSUME NEW p \in A, NEW q \in A, f[p] = f[q] PROVE p = q
    <3>1. {p[1], p[2]} = {q[1], q[2]} /\ p[1] = g({p[1], p[2]}) /\ q[1] = g({q[1], q[2]})
      BY <2>2
    <3>2. p[1] = q[1]
      BY <3>1
    <3>3. p[2] # p[1] /\ q[2] # q[1]
      BY <1>5, <1>6
    <3>4. p[2] = q[2]
      BY <3>1, <3>2, <3>3
    <3>5. p = <<p[1], p[2]>> /\ q = <<q[1], q[2]>>
      BY <1>6
    <3>. QED BY <3>2, <3>4, <3>5
  <2>3. ASSUME NEW s \in T PROVE \E p \in A : f[p] = s
    <3>1. PICK a, b \in cards : a # b /\ s = {a, b} /\ a.rank = b.rank
      BY <1>3
    <3>2. <<a, b>> \in P /\ <<b, a>> \in P /\ s = {b, a}
      BY <1>5, <3>1
    <3>3. CASE g(s) = a
      <4>1. <<a, b>> \in A /\ f[<<a, b>>] = s
        BY <3>1, <3>2, <3>3
      <4>. QED BY <4>1
    <3>4. CASE g(s) = b
      <4>1. <<b, a>> \in A /\ f[<<b, a>>] = s
        BY <3>1, <3>2, <3>4
      <4>. QED BY <4>1
    <3>. QED BY <1>1, <3>1, <3>3, <3>4
  <2>. HIDE DEF f, A
  <2>4. f \in Bijection(A, T)
    BY <2>1, <2>2, <2>3 DEF Bijection, Injection, Surjection, IsInjective
  <2>. QED BY <2>4 DEF ExistsBijection
<1>9. ExistsBijection(B, T)
  <2>1. k \in [B -> T]
    <3>1. ASSUME NEW p \in B PROVE {p[1], p[2]} \in T
      <4>1. PICK a, b : p = <<a, b>>
        BY <1>6
      <4>2. a \in cards /\ b \in cards /\ a # b /\ a.rank = b.rank
        BY <1>5, <4>1
      <4>. QED BY <1>2, <4>1, <4>2
    <3>. QED BY <3>1
  <2>2. ASSUME NEW p \in B, NEW q \in B, k[p] = k[q] PROVE p = q
    <3>1. {p[1], p[2]} = {q[1], q[2]} /\ p[2] = g({p[1], p[2]}) /\ q[2] = g({q[1], q[2]})
      BY <2>2
    <3>2. p[2] = q[2]
      BY <3>1
    <3>3. p[2] # p[1] /\ q[2] # q[1]
      BY <1>5, <1>6
    <3>4. p[1] = q[1]
      BY <3>1, <3>2, <3>3
    <3>5. p = <<p[1], p[2]>> /\ q = <<q[1], q[2]>>
      BY <1>6
    <3>. QED BY <3>2, <3>4, <3>5
  <2>3. ASSUME NEW s \in T PROVE \E p \in B : k[p] = s
    <3>1. PICK a, b \in cards : a # b /\ s = {a, b} /\ a.rank = b.rank
      BY <1>3
    <3>2. <<a, b>> \in P /\ <<b, a>> \in P /\ s = {b, a}
      BY <1>5, <3>1
    <3>3. CASE g(s) = b
      <4>1. <<a, b>> \in B /\ k[<<a, b>>] = s
        BY <3>1, <3>2, <3>3
      <4>. QED BY <4>1
    <3>4. CASE g(s) = a
      <4>1. <<b, a>> \in B /\ k[<<b, a>>] = s
        BY <3>1, <3>2, <3>4
      <4>. QED BY <4>1
    <3>. QED BY <1>1, <3>1, <3>3, <3>4
  <2>. HIDE DEF k, B
  <2>4. k \in Bijection(B, T)
    BY <2>1, <2>2, <2>3 DEF Bijection, Injection, Surjection, IsInjective
  <2>. QED BY <2>4 DEF ExistsBijection
<1>10. IsFiniteSet(P) /\ A \in SUBSET P /\ B \in SUBSET P
  <2>1. P \in SUBSET (cards \X cards) /\ IsFiniteSet(cards \X cards)
    BY FS_Product DEF P
  <2>. QED BY <2>1, FS_Subset
<1>. HIDE DEF A, B
<1>11. IsFiniteSet(A) /\ IsFiniteSet(B)
  BY <1>10, FS_Subset
<1>12. /\ IsFiniteSet(T) /\ Cardinality(T) \in Nat
       /\ Cardinality(T) = Cardinality(A) /\ Cardinality(T) = Cardinality(B)
  <2>1. IsFiniteSet(T) /\ Cardinality(T) = Cardinality(A)
    BY <1>8, <1>11, FS_Bijection
  <2>2. Cardinality(T) = Cardinality(B)
    BY <1>9, <1>11, FS_Bijection
  <2>. QED BY <2>1, <2>2, FS_CardinalityType
<1>13. Cardinality(P) = Cardinality(A) + Cardinality(B) - 0
  BY <1>7, <1>11, FS_Union, FS_EmptySet
<1>14. PairPointsIn(cards, Rank) = Cardinality(P)
  BY DEF PairPointsIn, P
<1>15. PairPointsIn(cards, Rank) = 2 * Cardinality(T)
  <2>1. \A x, y, z \in Nat : x = y /\ x = z => y + z - 0 = 2 * x
    OBVIOUS
  <2>2. Cardinality(A) + Cardinality(B) - 0 = 2 * Cardinality(T)
    BY ONLY <2>1, <1>12
  <2>. QED BY ONLY <2>2, <1>13, <1>14
<1>. QED BY <1>12, <1>15 DEF T

\* The flush and the nobs of the reference.
LEMMA SuitsOfReference ==
  ASSUME NEW h \in SUBSET Card, IsFiniteSet(h), h # {}, NEW starter_ \in Card, NEW isCrib
  PROVE  /\ FlushPoints(h, starter_, isCrib)
              = IF Cardinality({c.suit : c \in h}) # 1 THEN 0
                ELSE IF Cardinality({c.suit : c \in h \cup {starter_}}) = 1 THEN 5
                ELSE IF isCrib THEN 0 ELSE 4
         /\ NobsPoints(h, starter_)
              = Cardinality({c \in h : c = [rank |-> Jack, suit |-> starter_.suit]})
<1>. DEFINE suits(S) == {c.suit : c \in S}
<1>1. ASSUME NEW S \in SUBSET Card
      PROVE  IsFiniteSet(suits(S))
  <2>1. suits(S) \in SUBSET (1..4)
    BY DEF Card, Suit
  <2>2. IsFiniteSet(1..4)
    <3>1. 1 \in Int /\ 4 \in Int
      OBVIOUS
    <3>. QED BY <3>1, FS_Interval
  <2>. HIDE DEF suits
  <2>. QED BY <2>1, <2>2, FS_Subset
<1>2. ASSUME NEW S \in SUBSET Card
      PROVE  Cardinality(suits(S)) = 1 <=> \E x : suits(S) = {x}
  <2>. HIDE DEF suits
  <2>. QED BY <1>1, FS_Singleton
<1>3. Cardinality(suits(h)) = 1 <=> \E s \in Suit : \A c \in h : c.suit = s
  <2>1. ASSUME NEW x, suits(h) = {x} PROVE \E s \in Suit : \A c \in h : c.suit = s
    <3>1. \A c \in h : c.suit = x /\ c.suit \in Suit
      <4>1. \A c \in h : c.suit \in suits(h) /\ c.suit \in Suit
        BY DEF Card
      <4>. HIDE DEF suits
      <4>. QED BY <2>1, <4>1
    <3>2. x \in Suit
      BY <3>1
    <3>. QED BY <3>1, <3>2
  <2>2. ASSUME NEW s \in Suit, \A c \in h : c.suit = s PROVE suits(h) = {s}
    BY <2>2
  <2>3. h \in SUBSET Card
    OBVIOUS
  <2>. HIDE DEF suits
  <2>. QED BY <1>2, <2>1, <2>2, <2>3
<1>4. ASSUME Cardinality(suits(h)) = 1
      PROVE  Cardinality(suits(h \cup {starter_})) = 1 <=> \A c \in h : c.suit = starter_.suit
  <2>1. ASSUME NEW x, suits(h \cup {starter_}) = {x} PROVE \A c \in h : c.suit = starter_.suit
    <3>1. \A c \in h \cup {starter_} : c.suit \in suits(h \cup {starter_})
      OBVIOUS
    <3>. HIDE DEF suits
    <3>. QED BY <2>1, <3>1
  <2>2. ASSUME \A c \in h : c.suit = starter_.suit
        PROVE  suits(h \cup {starter_}) = {starter_.suit}
    BY <2>2
  <2>3. h \cup {starter_} \in SUBSET Card
    OBVIOUS
  <2>. HIDE DEF suits
  <2>. QED BY <1>2, <2>1, <2>2, <2>3
<1>5. FlushPoints(h, starter_, isCrib)
        = IF Cardinality(suits(h)) # 1 THEN 0
          ELSE IF Cardinality(suits(h \cup {starter_})) = 1 THEN 5
          ELSE IF isCrib THEN 0 ELSE 4
  <2>. HIDE DEF suits
  <2>. QED BY <1>3, <1>4 DEF FlushPoints
<1>6. NobsPoints(h, starter_)
        = Cardinality({c \in h : c = [rank |-> Jack, suit |-> starter_.suit]})
  <2>. DEFINE jack == [rank |-> Jack, suit |-> starter_.suit]
  <2>1. \A c \in h : c = jack <=> c.rank = Jack /\ c.suit = starter_.suit
    BY DEF Card
  <2>2. CASE jack \in h
    <3>1. {c \in h : c = jack} = {jack}
      BY <2>2
    <3>2. Cardinality({jack}) = 1
      BY FS_Singleton
    <3>3. NobsPoints(h, starter_) = 1
      BY <2>1, <2>2 DEF NobsPoints
    <3>. QED BY <3>1, <3>2, <3>3
  <2>3. CASE jack \notin h
    <3>1. {c \in h : c = jack} = {}
      BY <2>3
    <3>2. NobsPoints(h, starter_) = 0
      BY <2>1, <2>3 DEF NobsPoints
    <3>. QED BY <3>1, <3>2, FS_EmptySet
  <2>. QED BY <2>2, <2>3
<1>. QED BY <1>5, <1>6

\* Three consecutive ranks or more lie in a run: go down, and up, to the first
\* rank that is missing.
LEMMA StretchInRun ==
  ASSUME NEW cards \in SUBSET Card, NEW lo \in Int, NEW hi \in Int,
         hi - lo >= 2, lo..hi \subseteq RanksOf(cards)
  PROVE  \E a, b \in Rank : <<a, b>> \in Runs(cards) /\ a <= lo /\ hi <= b
<1>. DEFINE R == RanksOf(cards)
            D == {k \in Nat : lo - k - 1 \notin R}
            U == {k \in Nat : hi + k + 1 \notin R}
<1>1. R \subseteq 1..13
  BY DEF RanksOf, Card, Rank
<1>2. lo..hi \subseteq R
  OBVIOUS
<1>. HIDE DEF R
<1>3. lo \in R /\ hi \in R /\ 1 <= lo /\ hi <= 13
  <2>1. lo \in lo..hi /\ hi \in lo..hi
    OBVIOUS
  <2>2. lo \in R /\ hi \in R
    BY <1>2, <2>1
  <2>3. lo \in 1..13 /\ hi \in 1..13
    BY <1>1, <2>2
  <2>. QED BY <2>2, <2>3
<1>4. lo - 1 \in D
  <2>1. lo - 1 \in Nat /\ lo - (lo - 1) - 1 = 0 /\ 0 \notin R
    BY <1>1, <1>3
  <2>. QED BY <2>1
<1>5. 13 - hi \in U
  <2>1. 13 - hi \in Nat /\ hi + (13 - hi) + 1 = 14 /\ 14 \notin R
    BY <1>1, <1>3
  <2>. QED BY <2>1
<1>6. PICK k \in D : \A m \in D : k <= m
  <2>1. D \in SUBSET Nat /\ D # {}
    BY <1>4
  <2>. HIDE DEF D
  <2>. QED BY <2>1, LeastNatural
<1>7. PICK u \in U : \A m \in U : u <= m
  <2>1. U \in SUBSET Nat /\ U # {}
    BY <1>5
  <2>. HIDE DEF U
  <2>. QED BY <2>1, LeastNatural
<1>8. /\ k \in Nat /\ u \in Nat /\ k <= lo - 1 /\ u <= 13 - hi
      /\ lo - k - 1 \notin R /\ hi + u + 1 \notin R
  BY <1>4, <1>5, <1>6, <1>7
<1>9. ASSUME NEW x \in (lo - k)..(hi + u) PROVE x \in R
  <2>1. x \in Int /\ lo - k <= x /\ x <= hi + u
    BY <1>8
  <2>2. CASE x < lo
    <3>1. lo - x - 1 \in Nat /\ lo - x - 1 < k /\ lo - (lo - x - 1) - 1 = x
      BY <1>8, <2>1, <2>2
    <3>2. ASSUME lo - x - 1 \in D PROVE FALSE
      <4>1. k <= lo - x - 1
        <5>. HIDE DEF D
        <5>. QED BY <1>6, <3>2
      <4>. QED BY <1>8, <3>1, <4>1
    <3>. QED BY <3>1, <3>2
  <2>3. CASE x > hi
    <3>1. x - hi - 1 \in Nat /\ x - hi - 1 < u /\ hi + (x - hi - 1) + 1 = x
      BY <1>8, <2>1, <2>3
    <3>2. ASSUME x - hi - 1 \in U PROVE FALSE
      <4>1. u <= x - hi - 1
        <5>. HIDE DEF U
        <5>. QED BY <1>7, <3>2
      <4>. QED BY <1>8, <3>1, <4>1
    <3>. QED BY <3>1, <3>2
  <2>4. CASE lo <= x /\ x <= hi
    <3>1. x \in lo..hi
      BY <2>1, <2>4
    <3>. QED BY <1>2, <3>1
  <2>. QED BY <2>1, <2>2, <2>3, <2>4
<1>10. /\ lo - k \in Rank /\ hi + u \in Rank /\ (hi + u) - (lo - k) >= 2
       /\ lo - k <= lo /\ hi <= hi + u
  BY <1>3, <1>8 DEF Rank
<1>11. <<lo - k, hi + u>> \in Runs(cards)
  <2>1. (lo - k)..(hi + u) \subseteq R
    BY <1>9
  <2>. DEFINE a == lo - k
              b == hi + u
  <2>2. /\ a \in Rank /\ b \in Rank /\ b - a >= 2 /\ a..b \subseteq R
        /\ a - 1 \notin R /\ b + 1 \notin R
    BY <1>8, <1>10, <2>1
  <2>. HIDE DEF a, b
  <2>3. <<a, b>> \in Runs(cards)
    BY <2>2 DEF Runs, R
  <2>. QED BY <2>3 DEF a, b
<1>. QED BY <1>10, <1>11

\* The ways to take one card of each rank from a to b.
OneOfEach(cards, a, b) ==
  {s \in SUBSET cards : RanksOf(s) = a..b /\ Cardinality(s) = b - a + 1}

LEMMA OneOfNone ==
  ASSUME NEW cards, NEW a \in Int
  PROVE  /\ IsFiniteSet(OneOfEach(cards, a, a - 1))
         /\ Cardinality(OneOfEach(cards, a, a - 1)) = 1
<1>1. a..(a - 1) = {} /\ (a - 1) - a + 1 = 0
  OBVIOUS
<1>2. ASSUME NEW s \in SUBSET cards, RanksOf(s) = {} PROVE s = {}
  BY <1>2 DEF RanksOf
<1>3. RanksOf({}) = {} /\ Cardinality({}) = 0
  BY FS_EmptySet DEF RanksOf
<1>4. OneOfEach(cards, a, a - 1) = {{}}
  BY <1>1, <1>2, <1>3 DEF OneOfEach
<1>. QED BY <1>4, FS_Singleton

\* One rank more: any of its cards with any of the ways so far.
LEMMA OneMore ==
  ASSUME NEW cards \in SUBSET Card, IsFiniteSet(cards), NEW a \in Int, NEW b \in Int, a <= b + 1,
         IsFiniteSet(OneOfEach(cards, a, b))
  PROVE  /\ IsFiniteSet(OneOfEach(cards, a, b + 1))
         /\ Cardinality(OneOfEach(cards, a, b + 1))
              = Cardinality(OneOfEach(cards, a, b)) * Count(cards, b + 1)
<1>. DEFINE C == {c \in cards : c.rank = b + 1}
            S == OneOfEach(cards, a, b)
            T == OneOfEach(cards, a, b + 1)
            f == [p \in S \X C |-> p[1] \cup {p[2]}]
<1>1. IsFiniteSet(C)
  BY FS_Subset
<1>2. ASSUME NEW s \in SUBSET cards
      PROVE  IsFiniteSet(s) /\ Cardinality(s) \in Nat /\ s \in SUBSET Card
  <2>1. IsFiniteSet(s)
    BY FS_Subset
  <2>. QED BY <2>1, FS_CardinalityType
<1>3. \A s : s \in S <=> s \in SUBSET cards /\ RanksOf(s) = a..b /\ Cardinality(s) = b - a + 1
  BY DEF OneOfEach
<1>4. \A s : s \in T <=> s \in SUBSET cards /\ RanksOf(s) = a..(b + 1)
                         /\ Cardinality(s) = (b + 1) - a + 1
  BY DEF OneOfEach
<1>5. /\ a..(b + 1) = (a..b) \cup {b + 1} /\ b + 1 \notin a..b
      /\ (a..(b + 1)) \ {b + 1} = a..b /\ b + 1 \in a..(b + 1)
      /\ (b - a + 1) + 1 = (b + 1) - a + 1
  OBVIOUS
<1>6. \A s : \A c \in s : c.rank \in RanksOf(s)
  BY DEF RanksOf
<1>. HIDE DEF S, T
<1>7. ASSUME NEW s \in S, NEW c \in C
      PROVE  c \notin s /\ s \cup {c} \in T /\ (s \cup {c}) \cap C = {c}
  <2>1. \A d \in s : d.rank # b + 1
    BY <1>3, <1>5, <1>6
  <2>2. c \notin s /\ c.rank = b + 1 /\ c \in cards
    BY <2>1
  <2>3. RanksOf(s \cup {c}) = RanksOf(s) \cup {c.rank}
    BY DEF RanksOf
  <2>4. RanksOf(s \cup {c}) = a..(b + 1)
    BY <1>3, <1>5, <2>2, <2>3
  <2>5. Cardinality(s \cup {c}) = Cardinality(s) + 1
    BY <1>2, <1>3, <2>2, FS_AddElement
  <2>6. Cardinality(s) = b - a + 1 /\ s \in SUBSET cards
    BY <1>3
  <2>7. Cardinality(s \cup {c}) = (b + 1) - a + 1
    BY <1>5, <2>5, <2>6
  <2>8. s \cup {c} \in T
    BY <1>4, <2>2, <2>4, <2>6, <2>7
  <2>9. (s \cup {c}) \cap C = {c}
    BY <2>1
  <2>. QED BY <2>2, <2>8, <2>9
<1>8. ASSUME NEW t \in T PROVE \E s \in S, c \in C : t = s \cup {c}
  <2>1. t \in SUBSET cards /\ RanksOf(t) = a..(b + 1) /\ Cardinality(t) = (b + 1) - a + 1
    BY <1>4
  <2>2. Cardinality(RanksOf(t)) = Cardinality(t)
    <3>1. b + 1 \in Int /\ ~ (a > b + 1)
      OBVIOUS
    <3>2. Cardinality(a..(b + 1)) = (b + 1) - a + 1
      BY <3>1, FS_Interval
    <3>. QED BY <2>1, <3>2
  <2>3. \A c, d \in t : c.rank = d.rank => c = d
    BY <1>2, <2>1, <2>2, RanksAreFew
  <2>4. PICK c \in t : c.rank = b + 1
    <3>1. b + 1 \in RanksOf(t)
      BY <1>5, <2>1
    <3>. QED BY <3>1 DEF RanksOf
  <2>5. c \in C
    BY <2>1, <2>4
  <2>6. RanksOf(t \ {c}) = RanksOf(t) \ {b + 1}
    BY <2>3, <2>4 DEF RanksOf
  <2>7. Cardinality(t \ {c}) = b - a + 1
    <3>1. Cardinality(t \ {c}) = Cardinality(t) - 1
      BY <1>2, <2>1, <2>4, FS_RemoveElement
    <3>. QED BY <2>1, <3>1
  <2>8. t \ {c} \in S
    BY <1>3, <1>5, <2>1, <2>6, <2>7
  <2>9. t = (t \ {c}) \cup {c}
    BY <2>4
  <2>. QED BY <2>5, <2>8, <2>9
<1>. HIDE DEF C
<1>9. ExistsBijection(S \X C, T)
  <2>1. f \in [S \X C -> T]
    <3>1. \A p \in S \X C : p[1] \in S /\ p[2] \in C
      OBVIOUS
    <3>2. \A p \in S \X C : p[1] \cup {p[2]} \in T
      BY <1>7, <3>1
    <3>. QED BY <3>2
  <2>2. ASSUME NEW p \in S \X C, NEW q \in S \X C, f[p] = f[q] PROVE p = q
    <3>1. PICK s \in S, c \in C : p = <<s, c>>
      OBVIOUS
    <3>2. PICK z \in S, d \in C : q = <<z, d>>
      OBVIOUS
    <3>3. s \cup {c} = z \cup {d}
      BY <2>2, <3>1, <3>2
    <3>4. {c} = {d} /\ c \notin s /\ d \notin z
      <4>1. (s \cup {c}) \cap C = {c} /\ (z \cup {d}) \cap C = {d} /\ c \notin s /\ d \notin z
        BY <1>7
      <4>. QED BY <3>3, <4>1
    <3>5. c = d /\ s = z
      BY <3>3, <3>4
    <3>. QED BY <3>1, <3>2, <3>5
  <2>3. ASSUME NEW t \in T PROVE \E p \in S \X C : f[p] = t
    <3>1. PICK s \in S, c \in C : t = s \cup {c}
      BY <1>8
    <3>2. <<s, c>> \in S \X C /\ f[<<s, c>>] = t
      BY <3>1
    <3>. QED BY <3>2
  <2>. HIDE DEF f
  <2>4. f \in Bijection(S \X C, T)
    BY <2>1, <2>2, <2>3 DEF Bijection, Injection, Surjection, IsInjective
  <2>. QED BY <2>4 DEF ExistsBijection
<1>10. IsFiniteSet(S)
  BY DEF S
<1>11. IsFiniteSet(S \X C) /\ Cardinality(S \X C) = Cardinality(S) * Cardinality(C)
  BY <1>1, <1>10, FS_Product
<1>12. IsFiniteSet(T) /\ Cardinality(T) = Cardinality(S \X C)
  <2>. DEFINE P == S \X C
  <2>1. ExistsBijection(P, T) /\ IsFiniteSet(P)
    BY <1>9, <1>11
  <2>. HIDE DEF P
  <2>2. IsFiniteSet(T) /\ Cardinality(T) = Cardinality(P)
    BY ONLY <2>1, FS_Bijection
  <2>. QED BY <2>2 DEF P
<1>13. Count(cards, b + 1) = Cardinality(C)
  BY DEF Count, C
<1>. QED BY <1>11, <1>12, <1>13 DEF S, T

\* There is a way where every rank is there.
LEMMA OneOfEachIs ==
  ASSUME NEW cards \in SUBSET Card, NEW a \in Int, NEW b \in Int, a <= b + 1,
         a..b \subseteq RanksOf(cards)
  PROVE  OneOfEach(cards, a, b) # {}
<1>. DEFINE f == [x \in a..b |-> CHOOSE c \in cards : c.rank = x]
            s == {f[x] : x \in a..b}
<1>1. ASSUME NEW x \in a..b PROVE f[x] \in cards /\ f[x].rank = x
  <2>1. \E c \in cards : c.rank = x
    BY DEF RanksOf
  <2>. QED BY <2>1
<1>2. f = [x \in a..b |-> f[x]]
  OBVIOUS
<1>. HIDE DEF f
<1>3. ExistsBijection(a..b, s)
  <2>. DEFINE I == a..b
  <2>1. f \in [I -> s]
    BY <1>2
  <2>2. \A x, y \in I : f[x] = f[y] => x = y
    BY <1>1
  <2>3. \A y \in s : \E x \in I : f[x] = y
    OBVIOUS
  <2>. HIDE DEF s, I
  <2>4. f \in Bijection(I, s)
    BY <2>1, <2>2, <2>3 DEF Bijection, Injection, Surjection, IsInjective
  <2>5. ExistsBijection(I, s)
    BY <2>4 DEF ExistsBijection
  <2>. QED BY <2>5 DEF I
<1>4. Cardinality(s) = b - a + 1
  <2>. DEFINE I == a..b
  <2>1. IsFiniteSet(I) /\ Cardinality(I) = IF a > b THEN 0 ELSE b - a + 1
    BY FS_Interval
  <2>2. (IF a > b THEN 0 ELSE b - a + 1) = b - a + 1
    OBVIOUS
  <2>3. ExistsBijection(I, s)
    BY <1>3
  <2>. HIDE DEF s, I
  <2>4. Cardinality(s) = Cardinality(I)
    BY <2>1, <2>3, FS_Bijection
  <2>. QED BY <2>1, <2>2, <2>4
<1>5. s \in SUBSET cards
  BY <1>1
<1>6. RanksOf(s) = a..b
  <2>1. RanksOf(s) = {f[x].rank : x \in a..b}
    BY DEF RanksOf
  <2>. HIDE DEF s
  <2>. QED BY <1>1, <2>1
<1>. HIDE DEF s
<1>. QED BY <1>4, <1>5, <1>6 DEF OneOfEach

\* The ways to take a card of each rank of a run are as many as its
\* multiplicity.
LEMMA WaysAreMultiplicity ==
  ASSUME NEW cards \in SUBSET Card, IsFiniteSet(cards), NEW a \in Int, NEW b \in Int,
         b - a \in 2..4
  PROVE  Cardinality(OneOfEach(cards, a, b)) = Multiplicity(cards, <<a, b>>)
<1>. DEFINE W(k) == Cardinality(OneOfEach(cards, a, a + k))
            F(k) == IsFiniteSet(OneOfEach(cards, a, a + k))
            n(k) == IF a + k <= b THEN Count(cards, a + k) ELSE 1
<1>1. ASSUME NEW k \in 0..4, F(k - 1) PROVE F(k) /\ W(k) = W(k - 1) * Count(cards, a + k)
  <2>1. a + (k - 1) \in Int /\ a <= (a + (k - 1)) + 1 /\ (a + (k - 1)) + 1 = a + k
    OBVIOUS
  <2>. DEFINE j == a + (k - 1)
  <2>2. IsFiniteSet(OneOfEach(cards, a, j)) /\ j \in Int /\ a <= j + 1 /\ j + 1 = a + k
    BY <1>1, <2>1
  <2>. HIDE DEF j
  <2>3. /\ IsFiniteSet(OneOfEach(cards, a, j + 1))
        /\ Cardinality(OneOfEach(cards, a, j + 1))
             = Cardinality(OneOfEach(cards, a, j)) * Count(cards, j + 1)
    BY <2>2, OneMore
  <2>. QED BY <2>2, <2>3 DEF j
<1>2. F(0 - 1) /\ W(0 - 1) = 1
  <2>1. a + (0 - 1) = a - 1
    OBVIOUS
  <2>2. IsFiniteSet(OneOfEach(cards, a, a - 1)) /\ Cardinality(OneOfEach(cards, a, a - 1)) = 1
    BY OneOfNone
  <2>. QED BY <2>1, <2>2
<1>3. \A k \in 0..4 : Count(cards, a + k) \in Nat
  BY CountIsNat
<1>4. F(0) /\ W(0) = Count(cards, a + 0)
  <2>1. F(0) /\ W(0) = W(0 - 1) * Count(cards, a + 0)
    <3>. HIDE DEF F, W
    <3>. QED BY <1>1, <1>2
  <2>2. 0 \in 0..4 /\ Count(cards, a + 0) \in Nat
    <3>1. 0 \in 0..4
      OBVIOUS
    <3>. QED BY <1>3, <3>1
  <2>. HIDE DEF F, W
  <2>. QED BY <1>2, <2>1, <2>2
<1>5. /\ 1 \in 0..4 /\ 2 \in 0..4 /\ 3 \in 0..4 /\ 4 \in 0..4
      /\ 1 - 1 = 0 /\ 2 - 1 = 1 /\ 3 - 1 = 2 /\ 4 - 1 = 3
  OBVIOUS
<1>. HIDE DEF F, W
<1>6. F(1) /\ W(1) = W(0) * Count(cards, a + 1)
  BY <1>1, <1>4, <1>5
<1>7. F(2) /\ W(2) = W(1) * Count(cards, a + 2)
  BY <1>1, <1>5, <1>6
<1>8. F(3) /\ W(3) = W(2) * Count(cards, a + 3)
  BY <1>1, <1>5, <1>7
<1>9. F(4) /\ W(4) = W(3) * Count(cards, a + 4)
  BY <1>1, <1>5, <1>8
<1>10. W(2) \in Nat /\ W(3) \in Nat /\ W(4) \in Nat
  BY <1>7, <1>8, <1>9, FS_CardinalityType DEF F, W
<1>11. Multiplicity(cards, <<a, b>>) = n(0) * n(1) * n(2) * n(3) * n(4)
  BY DEF Multiplicity
<1>12. W(2) = Count(cards, a + 0) * Count(cards, a + 1) * Count(cards, a + 2)
  BY <1>4, <1>6, <1>7
<1>13. n(0) = Count(cards, a + 0) /\ n(1) = Count(cards, a + 1) /\ n(2) = Count(cards, a + 2)
  OBVIOUS
<1>14. CASE b = a + 2
  <2>1. n(3) = 1 /\ n(4) = 1
    BY <1>14
  <2>2. Cardinality(OneOfEach(cards, a, b)) = W(2)
    BY <1>14 DEF W
  <2>3. \A w \in Nat : w * 1 * 1 = w
    OBVIOUS
  <2>. HIDE DEF n
  <2>. QED BY <1>10, <1>11, <1>12, <1>13, <2>1, <2>2, <2>3
<1>15. CASE b = a + 3
  <2>1. n(3) = Count(cards, a + 3) /\ n(4) = 1
    BY <1>15
  <2>2. Cardinality(OneOfEach(cards, a, b)) = W(3)
    BY <1>15 DEF W
  <2>3. \A w \in Nat : w * 1 = w
    OBVIOUS
  <2>. HIDE DEF n
  <2>. QED BY <1>8, <1>10, <1>11, <1>12, <1>13, <2>1, <2>2, <2>3
<1>16. CASE b = a + 4
  <2>1. n(3) = Count(cards, a + 3) /\ n(4) = Count(cards, a + 4)
    BY <1>16
  <2>2. Cardinality(OneOfEach(cards, a, b)) = W(4)
    BY <1>16 DEF W
  <2>. HIDE DEF n
  <2>. QED BY <1>8, <1>9, <1>11, <1>12, <1>13, <2>1, <2>2
<1>17. b = a + 2 \/ b = a + 3 \/ b = a + 4
  OBVIOUS
<1>. QED BY <1>14, <1>15, <1>16, <1>17

\* The longest subsets of the reference are those of the run.
LEMMA RunsOfReference ==
  ASSUME NEW cards \in SUBSET Card, IsFiniteSet(cards), Cardinality(cards) = 5
  PROVE  LET sizes == {n \in 3..5 : RunSubsets(cards, n) # {}}
         IN  RunTotal(cards) = IF sizes = {} THEN 0
               ELSE Sets!Max(sizes) * Cardinality(RunSubsets(cards, Sets!Max(sizes)))
<1>. DEFINE sizes == {n \in 3..5 : RunSubsets(cards, n) # {}}
            RS    == Runs(cards)
<1>1. \A n, s : s \in RunSubsets(cards, n)
        <=> /\ s \in SUBSET cards /\ Cardinality(s) = n
            /\ \E lo \in Rank : RanksOf(s) = lo..(lo + n - 1)
  BY SubsetsOfSize DEF RunSubsets
<1>2. ASSUME NEW n \in 3..5, NEW s \in RunSubsets(cards, n)
      PROVE  \E lo, a, b \in Rank : /\ RanksOf(s) = lo..(lo + n - 1)
                                    /\ <<a, b>> \in RS /\ a <= lo /\ lo + n - 1 <= b
  <2>1. PICK lo \in Rank : RanksOf(s) = lo..(lo + n - 1)
    BY <1>1
  <2>2. s \in SUBSET cards
    BY <1>1
  <2>3. lo..(lo + n - 1) \subseteq RanksOf(cards)
    BY <2>1, <2>2 DEF RanksOf
  <2>. DEFINE hi == lo + n - 1
  <2>4. lo \in Int /\ hi \in Int /\ hi - lo >= 2
    BY DEF Rank
  <2>5. lo..hi \subseteq RanksOf(cards)
    BY <2>3
  <2>. HIDE DEF hi, RS
  <2>6. PICK a, b \in Rank : <<a, b>> \in RS /\ a <= lo /\ hi <= b
    BY <2>4, <2>5, StretchInRun DEF RS
  <2>. QED BY <2>1, <2>6 DEF hi
<1>3. \A r, q \in RS : r = q
  BY OneRun
<1>4. ASSUME NEW a \in Rank, NEW b \in Rank, <<a, b>> \in RS
      PROVE  /\ b - a \in 2..4 /\ a \in Int /\ b \in Int
             /\ a..b \subseteq RanksOf(cards)
  <2>. DEFINE R == RanksOf(cards)
  <2>1. b - a >= 2 /\ a..b \subseteq R
    BY <1>4 DEF Runs
  <2>2. a \in Int /\ b \in Int /\ ~ (a > b)
    BY <2>1 DEF Rank
  <2>3. R \in SUBSET Rank /\ IsFiniteSet(R) /\ Cardinality(R) <= 5 /\ Cardinality(R) \in Nat
    BY RanksAreFew, FS_CardinalityType
  <2>. HIDE DEF R
  <2>4. Cardinality(a..b) = b - a + 1
    BY <2>2, FS_Interval
  <2>5. Cardinality(a..b) <= Cardinality(R)
    BY <2>1, <2>3, FS_Subset
  <2>6. b - a \in 2..4
    BY ONLY <2>1, <2>2, <2>3, <2>4, <2>5
  <2>. QED BY <2>1, <2>2, <2>6 DEF R
<1>5. CASE RS = {}
  <2>1. sizes = {}
    <3>1. ASSUME NEW n \in sizes PROVE FALSE
      <4>1. n \in 3..5 /\ RunSubsets(cards, n) # {}
        OBVIOUS
      <4>. HIDE DEF sizes, RS
      <4>. QED BY <1>2, <1>5, <4>1
    <3>. HIDE DEF sizes
    <3>. QED BY <3>1
  <2>2. RunTotal(cards) = 0
    <3>1. Runs(cards) \in {{}, {0}} /\ Runs(cards) = {}
      BY <1>5
    <3>. QED BY <3>1, RunSum
  <2>. HIDE DEF sizes, RS
  <2>. QED BY <2>1, <2>2 DEF sizes
<1>6. CASE RS # {}
  <2>1. PICK a, b \in Rank : <<a, b>> \in RS
    <3>1. \A r \in RS : r \in Rank \X Rank
      BY DEF Runs
    <3>. HIDE DEF RS
    <3>2. PICK r \in RS : TRUE
      BY <1>6
    <3>3. PICK a, b \in Rank : r = <<a, b>>
      BY <3>1
    <3>. QED BY <3>2, <3>3
  <2>. DEFINE len == b - a + 1
  <2>2. b - a \in 2..4 /\ a \in Int /\ b \in Int /\ a..b \subseteq RanksOf(cards)
    BY <1>4, <2>1
  <2>3. len \in 3..5 /\ a <= b + 1 /\ a + len - 1 = b /\ len \in Nat
    BY <2>2
  <2>4. RS = {<<a, b>>}
    <3>. HIDE DEF RS
    <3>. QED BY <1>3, <2>1
  <2>. HIDE DEF len
  <2>5. ASSUME NEW n \in 3..5, NEW s \in RunSubsets(cards, n)
        PROVE  n <= len /\ (n = len => RanksOf(s) = a..b)
    <3>1. PICK lo, c, d \in Rank : /\ RanksOf(s) = lo..(lo + n - 1)
                                   /\ <<c, d>> \in RS /\ c <= lo /\ lo + n - 1 <= d
      <4>. HIDE DEF RS
      <4>. QED BY <1>2
    <3>2. c = a /\ d = b
      <4>1. <<c, d>> = <<a, b>>
        <5>. HIDE DEF RS
        <5>. QED BY <2>4, <3>1
      <4>. QED BY <4>1
    <3>3. lo \in Int /\ n \in Int /\ a <= lo /\ lo + n - 1 <= b
      BY <3>1, <3>2 DEF Rank
    <3>4. n <= len
      BY <2>2, <3>3 DEF len
    <3>5. n = len => lo = a /\ lo + n - 1 = b
      BY <2>2, <3>3 DEF len
    <3>. QED BY <3>1, <3>4, <3>5
  <2>6. RunSubsets(cards, len) = OneOfEach(cards, a, b)
    <3>1. ASSUME NEW s \in RunSubsets(cards, len) PROVE s \in OneOfEach(cards, a, b)
      <4>1. s \in SUBSET cards /\ Cardinality(s) = len
        BY <1>1
      <4>2. RanksOf(s) = a..b
        BY <2>3, <2>5
      <4>. QED BY <4>1, <4>2 DEF OneOfEach, len
    <3>2. ASSUME NEW s \in OneOfEach(cards, a, b) PROVE s \in RunSubsets(cards, len)
      <4>1. s \in SUBSET cards /\ RanksOf(s) = a..b /\ Cardinality(s) = len
        BY DEF OneOfEach, len
      <4>2. \E lo \in Rank : RanksOf(s) = lo..(lo + len - 1)
        <5>1. RanksOf(s) = a..(a + len - 1)
          BY <2>3, <4>1
        <5>. QED BY <5>1
      <4>. QED BY <1>1, <4>1, <4>2
    <3>. QED BY <3>1, <3>2
  <2>7. OneOfEach(cards, a, b) # {}
    BY <2>2, <2>3, OneOfEachIs
  <2>8. Sets!Max(sizes) = len /\ sizes # {}
    <3>1. len \in sizes
      BY <2>3, <2>6, <2>7
    <3>2. ASSUME NEW n \in sizes PROVE n <= len
      <4>1. n \in 3..5 /\ RunSubsets(cards, n) # {}
        OBVIOUS
      <4>. HIDE DEF sizes
      <4>. QED BY <2>5, <4>1
    <3>3. sizes \subseteq Int
      OBVIOUS
    <3>. HIDE DEF sizes
    <3>. QED BY <3>1, <3>2, <3>3, MaxIs
  <2>9. Cardinality(OneOfEach(cards, a, b)) = Multiplicity(cards, <<a, b>>)
    BY <2>2, WaysAreMultiplicity
  <2>10. RunTotal(cards) = len * Multiplicity(cards, <<a, b>>) + 0
    <3>. DEFINE run == <<a, b>>
    <3>1. run[1] = a /\ run[2] = b
      OBVIOUS
    <3>2. Runs(cards) = {run}
      BY <2>4
    <3>. HIDE DEF run
    <3>3. Runs(cards) \in {{}, {run}} /\ Runs(cards) # {}
      BY <3>2
    <3>4. RunTotal(cards) = (run[2] - run[1] + 1) * Multiplicity(cards, run) + 0
      BY <3>3, RunSum
    <3>. QED BY <3>1, <3>4 DEF run, len
  <2>11. Multiplicity(cards, <<a, b>>) \in Nat
    BY MultiplicityIsNat
  <2>12. RunTotal(cards) = len * Multiplicity(cards, <<a, b>>)
    <3>1. \A x, y \in Nat : x * y + 0 = x * y
      OBVIOUS
    <3>. QED BY <2>3, <2>10, <2>11, <3>1
  <2>. HIDE DEF sizes
  <2>. QED BY <2>6, <2>8, <2>9, <2>12 DEF sizes
<1>. QED BY <1>5, <1>6

(***************************************************************************)
(* The itemised breakdown of a show, the bare total and the brute-force    *)
(* reference of the tests count the same for every hand of four cards and  *)
(* every other card as the starter, as a hand and as a crib: five cards    *)
(* hold one run at most, the pairs moved into it are neither lost nor      *)
(* doubled, and the ways to take one card of each of its ranks are as many *)
(* as the product of the counts.                                           *)
(***************************************************************************)
THEOREM ShowScorersAreOne ==
  ASSUME NEW h \in SUBSET Card, IsFiniteSet(h), Cardinality(h) = 4,
         NEW starter_ \in Card \ h, NEW isCrib \in BOOLEAN
  PROVE  ShowScoredRight(h, starter_, isCrib)
<1>. DEFINE cards == h \cup {starter_}
            sizes == {n \in 3..5 : RunSubsets(cards, n) # {}}
            pairs == {s \in Sets!kSubset(2, cards) : Cardinality(RanksOf(s)) = 1}
            longest == IF sizes = {} THEN 0
                       ELSE Sets!Max(sizes) * Cardinality(RunSubsets(cards, Sets!Max(sizes)))
            flush == IF Cardinality({c.suit : c \in h}) # 1 THEN 0
                     ELSE IF Cardinality({c.suit : c \in cards}) = 1 THEN 5
                     ELSE IF isCrib THEN 0 ELSE 4
            nobs == Cardinality({c \in h : c = [rank |-> Jack, suit |-> starter_.suit]})
<1>1. cards \in SUBSET Card /\ IsFiniteSet(cards) /\ Cardinality(cards) = 5
  <2>1. IsFiniteSet(cards) /\ Cardinality(cards) = Cardinality(h) + 1
    BY FS_AddElement
  <2>. QED BY <2>1
<1>2. h # {}
  BY FS_EmptySet
<1>3. HandScore(h, starter_, isCrib) = HandTotal(h, starter_, isCrib)
  BY <1>1, TotalIsScore
<1>4. HandTotal(h, starter_, isCrib)
        = FifteenPoints(cards) + PairsByRank(cards) + RunTotal(cards)
            + FlushPoints(h, starter_, isCrib) + NobsPoints(h, starter_)
  BY DEF HandTotal
<1>5. ReferenceHand(h, starter_, isCrib)
        = FifteenPoints(cards) + 2 * Cardinality(pairs) + longest + flush + nobs
  BY DEF ReferenceHand, FifteenPoints
<1>6. PairsByRank(cards) = 2 * Cardinality(pairs)
  <2>. HIDE DEF cards
  <2>. QED BY <1>1, RankSum, PairsAreSets
<1>7. RunTotal(cards) = longest
  <2>. HIDE DEF cards
  <2>. QED BY <1>1, RunsOfReference
<1>8. FlushPoints(h, starter_, isCrib) = flush /\ NobsPoints(h, starter_) = nobs
  BY <1>2, SuitsOfReference
<1>. HIDE DEF cards, pairs, longest, flush, nobs
<1>9. HandTotal(h, starter_, isCrib) = ReferenceHand(h, starter_, isCrib)
  BY <1>4, <1>5, <1>6, <1>7, <1>8
<1>. QED BY <1>3, <1>9 DEF ShowScoredRight
=============================================================================

---------------------------- MODULE HistoryProofs ----------------------------
(***************************************************************************)
(* Theorems about CribbageHistory: the log of events tells the game, for   *)
(* every target, every deck source and every choice of the players.  And   *)
(* about Table: the page of a bot game, which knows the game only by what  *)
(* it is told of that log, shows it, whatever requests are lost and        *)
(* however often the page is loaded again.                                 *)
(* And about Evaluate: the two analyses of a finished game and the frames  *)
(* of its replay, which read one log in ways that have nothing in common,  *)
(* tell that game.                                                         *)
(***************************************************************************)
EXTENDS Table, Evaluate, CribbageGameProofs

-----------------------------------------------------------------------------
(***************************************************************************)
(* The readers of the log: what a reader has made of a log after one more  *)
(* event is its step from what it had made of the others.  The recursive   *)
(* function of Folded, and that of GamePoints, is shown to exist, to be    *)
(* unique and to go on, by induction over the log's length.                *)
(***************************************************************************)

\* The two readers: the engine's reducer and the points of a seat.
Start(kind) == IF kind = "game" THEN Blank ELSE NoPoints

Step(kind, arg, value, e) ==
  IF kind = "game" THEN Reduce(arg, value, e) ELSE Credited(value, arg, e)

\* A log, whatever its events are.
IsLog(events) == \E E : events \in Seq(E)

\* f holds what a reader has made of the heads of a log.
Reads(f, kind, arg, events) ==
  f = [n \in 0..Len(events) |->
         IF n = 0 THEN Start(kind) ELSE Step(kind, arg, f[n - 1], events[n])]

LEMMA LogFacts ==
  ASSUME NEW events, IsLog(events)
  PROVE  Len(events) \in Nat /\ DOMAIN events = 1..Len(events)
BY DEF IsLog

LEMMA LogGoesOn ==
  ASSUME NEW events, IsLog(events), NEW e
  PROVE  LET all == Append(events, e)
         IN  /\ IsLog(all)
             /\ Len(all) = Len(events) + 1
             /\ all[Len(events) + 1] = e
             /\ \A n \in 1..Len(events) : all[n] = events[n]
<1>1. PICK E : events \in Seq(E)
  BY DEF IsLog
<1>. DEFINE T == E \cup {e}
            all == Append(events, e)
<1>2. events \in Seq(T) /\ e \in T
  BY <1>1
<1>. HIDE DEF T
<1>3. all \in Seq(T)
  BY <1>2
<1>4. IsLog(all)
  BY <1>3 DEF IsLog
<1>. QED BY <1>1, <1>2, <1>4

LEMMA ReadsAreUnique ==
  ASSUME NEW kind, NEW arg, NEW events, IsLog(events),
         NEW f, Reads(f, kind, arg, events), NEW g, Reads(g, kind, arg, events)
  PROVE  f[Len(events)] = g[Len(events)]
<1>. DEFINE G == {n \in Nat : n <= Len(events) => f[n] = g[n]}
<1>0. Len(events) \in Nat
  BY LogFacts
<1>1. 0 \in G
  BY <1>0 DEF Reads
<1>2. ASSUME NEW n \in G PROVE n + 1 \in G
  <2>1. CASE n + 1 <= Len(events)
    <3>1. n + 1 \in 0..Len(events) /\ n + 1 # 0 /\ (n + 1) - 1 = n /\ f[n] = g[n]
      BY <1>0, <2>1
    <3>2. /\ f[n + 1] = Step(kind, arg, f[n], events[n + 1])
          /\ g[n + 1] = Step(kind, arg, g[n], events[n + 1])
      BY <3>1 DEF Reads
    <3>. QED BY <3>1, <3>2
  <2>2. CASE ~(n + 1 <= Len(events))
    BY <2>2
  <2>. QED BY <2>1, <2>2
<1>3. G = Nat
  <2>. HIDE DEF G
  <2>1. G \in SUBSET Nat
    BY DEF G
  <2>. QED BY <1>1, <1>2, <2>1, InductionOverNat
<1>4. Len(events) \in G
  BY <1>0, <1>3
<1>. QED BY <1>0, <1>4

LEMMA ReadsGoOn ==
  ASSUME NEW kind, NEW arg, NEW events, IsLog(events), NEW f, Reads(f, kind, arg, events), NEW e
  PROVE  LET all == Append(events, e)
         IN  \E g : /\ Reads(g, kind, arg, all)
                    /\ g[Len(all)] = Step(kind, arg, f[Len(events)], e)
<1>. DEFINE all == Append(events, e)
            l   == Len(events)
            g   == [n \in 0..(l + 1) |-> IF n = l + 1 THEN Step(kind, arg, f[l], e) ELSE f[n]]
<1>1. /\ Len(all) = l + 1 /\ l \in Nat
      /\ all[l + 1] = e /\ \A n \in 1..l : all[n] = events[n]
  BY LogFacts, LogGoesOn
<1>. HIDE DEF all
<1>2. g[l + 1] = Step(kind, arg, f[l], e)
  <2>1. l + 1 \in 0..(l + 1)
    BY <1>1
  <2>. QED BY <2>1
<1>3. ASSUME NEW n \in 0..(l + 1)
      PROVE  g[n] = IF n = 0 THEN Start(kind) ELSE Step(kind, arg, g[n - 1], all[n])
  <2>1. CASE n = 0
    <3>1. n # l + 1 /\ 0 \in 0..l
      BY <1>1, <2>1
    <3>. QED BY <2>1, <3>1 DEF Reads
  <2>2. CASE n = l + 1
    <3>1. n - 1 = l /\ l \in 0..(l + 1) /\ l # l + 1 /\ n # 0
      BY <1>1, <2>2
    <3>2. g[l] = f[l]
      BY <3>1
    <3>. HIDE DEF g
    <3>. QED BY <1>1, <1>2, <2>2, <3>1, <3>2
  <2>3. CASE n \in 1..l
    <3>1. /\ n \in 0..l /\ n # 0 /\ n # l + 1
          /\ n - 1 \in 0..(l + 1) /\ n - 1 # l + 1
      BY <1>1, <2>3
    <3>2. g[n] = f[n] /\ g[n - 1] = f[n - 1]
      BY <3>1
    <3>3. f[n] = Step(kind, arg, f[n - 1], events[n])
      BY <3>1 DEF Reads
    <3>. HIDE DEF g
    <3>. QED BY <1>1, <2>3, <3>1, <3>2, <3>3
  <2>. QED BY <1>1, <2>1, <2>2, <2>3
<1>4. Reads(g, kind, arg, all)
  <2>1. g = [n \in 0..(l + 1) |-> g[n]]
    OBVIOUS
  <2>. HIDE DEF g
  <2>. QED BY <1>1, <1>3, <2>1 DEF Reads
<1>5. g[Len(all)] = Step(kind, arg, f[Len(events)], e)
  <2>. HIDE DEF g
  <2>. QED BY <1>1, <1>2
<1>. HIDE DEF g
<1>. QED BY <1>4, <1>5 DEF all

LEMMA ReadsExist ==
  ASSUME NEW kind, NEW arg, NEW events, IsLog(events)
  PROVE  \E f : Reads(f, kind, arg, events)
<1>1. PICK E : events \in Seq(E)
  BY DEF IsLog
<1>. DEFINE G == {n \in Nat : \A s \in Seq(E) : Len(s) = n => \E f : Reads(f, kind, arg, s)}
<1>2. 0 \in G
  <2>. SUFFICES ASSUME NEW s \in Seq(E), Len(s) = 0 PROVE \E f : Reads(f, kind, arg, s)
    OBVIOUS
  <2>. DEFINE f == [n \in 0..0 |-> Start(kind)]
  <2>1. f = [n \in 0..0 |-> IF n = 0 THEN Start(kind) ELSE Step(kind, arg, f[n - 1], s[n])]
    OBVIOUS
  <2>. HIDE DEF f
  <2>2. Reads(f, kind, arg, s)
    BY <2>1 DEF Reads
  <2>. QED BY <2>2
<1>3. ASSUME NEW n \in G PROVE n + 1 \in G
  <2>. SUFFICES ASSUME NEW s \in Seq(E), Len(s) = n + 1 PROVE \E f : Reads(f, kind, arg, s)
    OBVIOUS
  <2>. DEFINE head == SubSeq(s, 1, n)
              last == s[n + 1]
  <2>1. head \in Seq(E) /\ Len(head) = n /\ s = Append(head, last)
    OBVIOUS
  <2>. HIDE DEF head, last
  <2>2. PICK f : Reads(f, kind, arg, head)
    BY <2>1
  <2>3. IsLog(head)
    BY <2>1 DEF IsLog
  <2>. QED BY <2>1, <2>2, <2>3, ReadsGoOn
<1>4. G = Nat
  <2>. HIDE DEF G
  <2>1. G \in SUBSET Nat
    BY DEF G
  <2>. QED BY <1>2, <1>3, <2>1, InductionOverNat
<1>5. Len(events) \in G
  BY <1>1, <1>4
<1>. QED BY <1>1, <1>5

LEMMA FoldedIs ==
  ASSUME NEW cap, NEW events, IsLog(events), NEW f, Reads(f, "game", cap, events)
  PROVE  Folded(cap, events) = f[Len(events)]
<1>1. \E g : Reads(g, "game", cap, events) /\ Folded(cap, events) = g[Len(events)]
  BY DEF Reads, Start, Step, Folded
<1>. QED BY <1>1, ReadsAreUnique

LEMMA PointsAre ==
  ASSUME NEW s, NEW events, IsLog(events), NEW f, Reads(f, "points", s, events)
  PROVE  GamePoints(events, s) = f[Len(events)]
<1>1. \E g : Reads(g, "points", s, events) /\ GamePoints(events, s) = g[Len(events)]
  BY DEF Reads, Start, Step, GamePoints
<1>. QED BY <1>1, ReadsAreUnique

\* One more event.
LEMMA FoldedGoesOn ==
  ASSUME NEW cap, NEW events, IsLog(events), NEW e
  PROVE  Folded(cap, Append(events, e)) = Reduce(cap, Folded(cap, events), e)
<1>1. PICK f : Reads(f, "game", cap, events)
  BY ReadsExist
<1>2. PICK g : /\ Reads(g, "game", cap, Append(events, e))
               /\ g[Len(Append(events, e))] = Step("game", cap, f[Len(events)], e)
  BY <1>1, ReadsGoOn
<1>3. IsLog(Append(events, e))
  BY LogGoesOn
<1>. QED BY <1>1, <1>2, <1>3, FoldedIs DEF Step

LEMMA FoldedOfNothing ==
  ASSUME NEW cap
  PROVE  IsLog(<<>>) /\ Folded(cap, <<>>) = Blank
<1>1. <<>> \in Seq({}) /\ Len(<<>>) = 0
  OBVIOUS
<1>2. IsLog(<<>>)
  BY <1>1 DEF IsLog
<1>3. PICK f : Reads(f, "game", cap, <<>>)
  BY <1>2, ReadsExist
<1>4. f[0] = Blank
  BY <1>1, <1>3 DEF Reads, Start
<1>. QED BY <1>1, <1>2, <1>3, <1>4, FoldedIs

\* Two logs joined.
LEMMA LogsJoin ==
  ASSUME NEW events, IsLog(events), NEW more, IsLog(more)
  PROVE  /\ IsLog(events \o more)
         /\ events \o <<>> = events
         /\ \A e : IsLog(Append(more, e)) /\ events \o Append(more, e) = Append(events \o more, e)
<1>1. PICK E, F : events \in Seq(E) /\ more \in Seq(F)
  BY DEF IsLog
<1>. DEFINE T == E \cup F
<1>2. events \in Seq(T) /\ more \in Seq(T)
  BY <1>1
<1>. HIDE DEF T
<1>3. events \o more \in Seq(T) /\ events \o <<>> = events
  BY <1>2
<1>4. ASSUME NEW e
      PROVE  IsLog(Append(more, e)) /\ events \o Append(more, e) = Append(events \o more, e)
  <2>. DEFINE U == T \cup {e}
  <2>1. events \in Seq(U) /\ more \in Seq(U) /\ e \in U
    BY <1>2
  <2>. HIDE DEF U
  <2>2. events \o Append(more, e) = Append(events \o more, e) /\ Append(more, e) \in Seq(U)
    BY <2>1
  <2>. QED BY <2>2 DEF IsLog
<1>. QED BY <1>3, <1>4 DEF IsLog

LEMMA LogOfOne ==
  ASSUME NEW e
  PROVE  IsLog(<<>>) /\ IsLog(<<e>>) /\ <<e>> = Append(<<>>, e)
<1>1. <<>> \in Seq({e}) /\ <<e>> \in Seq({e}) /\ <<e>> = Append(<<>>, e)
  OBVIOUS
<1>. QED BY <1>1 DEF IsLog

-----------------------------------------------------------------------------
(***************************************************************************)
(* The reducer, event by event, on a game given by its fields.             *)
(***************************************************************************)
Game(dl, ph, sc, hs, pd, th, st, pl, co, go, lp, wi) ==
  [dealer |-> dl, phase |-> ph, scores |-> sc, hands |-> hs, played |-> pd,
   thrown |-> th, starter |-> st, pile |-> pl, count |-> co, gone |-> go,
   lastPlayer |-> lp, winner |-> wi]

LEMMA ScoredGame ==
  ASSUME NEW cap, NEW dl, NEW ph, NEW sc, NEW hs, NEW pd, NEW th, NEW st, NEW pl,
         NEW co, NEW go, NEW lp, NEW wi, NEW s, NEW p
  PROVE  Scored(cap, Game(dl, ph, sc, hs, pd, th, st, pl, co, go, lp, wi), s, p)
           = Game(dl, ph, AddPoints(cap, sc, s, p), hs, pd, th, st, pl, co, go, lp, wi)
BY DEF Scored, Game

LEMMA ReduceCut ==
  ASSUME NEW cap, NEW dl, NEW ph, NEW sc, NEW hs, NEW pd, NEW th, NEW st, NEW pl,
         NEW co, NEW go, NEW lp, NEW wi, NEW x
  PROVE  LET g == Game(dl, ph, sc, hs, pd, th, st, pl, co, go, lp, wi) IN
         Reduce(cap, g, CutForDeal(x))
           = Game(x, ph, sc, hs, pd, th, st, pl, co, go, lp, wi)
<1>. DEFINE g == Game(dl, ph, sc, hs, pd, th, st, pl, co, go, lp, wi)
<1>. QED BY DEF Reduce, CutForDeal, Game

LEMMA ReduceHandicap ==
  ASSUME NEW cap, NEW dl, NEW ph, NEW sc, NEW hs, NEW pd, NEW th, NEW st, NEW pl,
         NEW co, NEW go, NEW lp, NEW wi, NEW x
  PROVE  LET g == Game(dl, ph, sc, hs, pd, th, st, pl, co, go, lp, wi) IN
         Reduce(cap, g, Handicap(x))
           = Game(dl, ph, x, hs, pd, th, st, pl, co, go, lp, wi)
<1>. DEFINE g == Game(dl, ph, sc, hs, pd, th, st, pl, co, go, lp, wi)
<1>. QED BY DEF Reduce, Handicap, Game

LEMMA ReduceDeal ==
  ASSUME NEW cap, NEW dl, NEW ph, NEW sc, NEW hs, NEW pd, NEW th, NEW st, NEW pl,
         NEW co, NEW go, NEW lp, NEW wi, NEW x, NEW y
  PROVE  LET g == Game(dl, ph, sc, hs, pd, th, st, pl, co, go, lp, wi) IN
         Reduce(cap, g, HandDealt(x, y))
           = Game(x, "discard", sc, y, Empty, Empty, NoCard, <<>>, 0, NoneGone, x, wi)
<1>. DEFINE g == Game(dl, ph, sc, hs, pd, th, st, pl, co, go, lp, wi)
            e == HandDealt(x, y)
            h == [Blank EXCEPT !.dealer = e.dealer, !.hands = e.hands, !.scores = g.scores,
                               !.lastPlayer = e.dealer, !.winner = g.winner]
<1>1. e.type = "hand_dealt" /\ e.dealer = x /\ e.hands = y
  BY DEF HandDealt
<1>2. g.scores = sc /\ g.winner = wi
  BY DEF Game
<1>3. h = Game(x, "discard", sc, y, Empty, Empty, NoCard, <<>>, 0, NoneGone, x, wi)
  <2>1. h = [Blank EXCEPT !.dealer = x, !.hands = y, !.scores = sc,
                          !.lastPlayer = x, !.winner = wi]
    <3>. HIDE DEF e, g
    <3>. QED BY <1>1, <1>2, Zenon
  <2>. HIDE DEF h
  <2>. QED BY <2>1 DEF Game, Blank
<1>. HIDE DEF e, g
<1>4. Reduce(cap, g, e) = h
  BY <1>1 DEF Reduce
<1>. QED BY <1>3, <1>4 DEF e, g

LEMMA ReduceDiscard ==
  ASSUME NEW cap, NEW dl, NEW ph, NEW sc, NEW hs, NEW pd, NEW th, NEW st, NEW pl,
         NEW co, NEW go, NEW lp, NEW wi, NEW s, NEW two
  PROVE  LET g == Game(dl, ph, sc, hs, pd, th, st, pl, co, go, lp, wi) IN
         Reduce(cap, g, DiscardedBy(s, two))
           = Game(dl, ph, sc, [hs EXCEPT ![s] = @ \ two], pd,
                  [th EXCEPT ![s] = two], st, pl, co, go, lp, wi)
<1>. DEFINE g == Game(dl, ph, sc, hs, pd, th, st, pl, co, go, lp, wi)
            e == DiscardedBy(s, two)
            h == [g EXCEPT !.hands[e.seat] = @ \ e.cards, !.thrown[e.seat] = e.cards]
<1>1. e.type = "discarded" /\ e.seat = s /\ e.cards = two
  BY DEF DiscardedBy
<1>2. h = Game(dl, ph, sc, [hs EXCEPT ![s] = @ \ two], pd,
               [th EXCEPT ![s] = two], st, pl, co, go, lp, wi)
  <2>1. h = [g EXCEPT !.hands[s] = @ \ two, !.thrown[s] = two]
    <3>. HIDE DEF e, g
    <3>. QED BY <1>1, Zenon
  <2>. HIDE DEF h
  <2>. QED BY <2>1 DEF Game
<1>. HIDE DEF e, g
<1>3. Reduce(cap, g, e) = h
  BY <1>1 DEF Reduce
<1>. QED BY <1>2, <1>3 DEF e, g

LEMMA ReduceStarter ==
  ASSUME NEW cap, NEW dl, NEW ph, NEW sc, NEW hs, NEW pd, NEW th, NEW st, NEW pl,
         NEW co, NEW go, NEW lp, NEW wi, NEW c, NEW p
  PROVE  LET g == Game(dl, ph, sc, hs, pd, th, st, pl, co, go, lp, wi) IN
         Reduce(cap, g, StarterCut(c, p))
           = Game(dl, "play", AddPoints(cap, sc, dl, p), hs, pd, th, c, pl,
                  co, go, lp, wi)
<1>. DEFINE g == Game(dl, ph, sc, hs, pd, th, st, pl, co, go, lp, wi)
            e == StarterCut(c, p)
            h == [Scored(cap, g, g.dealer, e.points) EXCEPT !.starter = e.card, !.phase = "play"]
<1>1. e.type = "starter_cut" /\ e.card = c /\ e.points = p
  BY DEF StarterCut
<1>2. g.scores = sc /\ g.dealer = dl
  BY DEF Game
<1>3. Scored(cap, g, dl, p)
        = Game(dl, ph, AddPoints(cap, sc, dl, p), hs, pd, th, st, pl, co, go, lp, wi)
  BY ScoredGame
<1>4. h = Game(dl, "play", AddPoints(cap, sc, dl, p), hs, pd, th, c, pl, co, go, lp, wi)
  <2>1. h = [Game(dl, ph, AddPoints(cap, sc, dl, p), hs, pd, th, st, pl, co, go, lp, wi)
               EXCEPT !.starter = c, !.phase = "play"]
    <3>. HIDE DEF e, g
    <3>. QED BY <1>1, <1>2, <1>3, Zenon
  <2>. HIDE DEF h
  <2>. QED BY <2>1 DEF Game
<1>. HIDE DEF e, g
<1>5. Reduce(cap, g, e) = h
  BY <1>1 DEF Reduce
<1>. QED BY <1>4, <1>5 DEF e, g

LEMMA ReducePlay ==
  ASSUME NEW cap, NEW dl, NEW ph, NEW sc, NEW hs, NEW pd, NEW th, NEW st, NEW pl,
         NEW co, NEW go, NEW lp, NEW wi, NEW s, NEW c, NEW p
  PROVE  LET g == Game(dl, ph, sc, hs, pd, th, st, pl, co, go, lp, wi) IN
         Reduce(cap, g, CardPlayed(s, c, p))
           = Game(dl, ph, AddPoints(cap, sc, s, p), [hs EXCEPT ![s] = @ \ {c}],
                  [pd EXCEPT ![s] = @ \cup {c}], th, st, Append(pl, c),
                  co + Pip(c), go, s, wi)
<1>. DEFINE g == Game(dl, ph, sc, hs, pd, th, st, pl, co, go, lp, wi)
            e == CardPlayed(s, c, p)
            h == LayCard(g, e)
            hs1 == [hs EXCEPT ![s] = @ \ {c}]
            pd1 == [pd EXCEPT ![s] = @ \cup {c}]
            sc1 == AddPoints(cap, sc, s, p)
<1>1. e.type = "card_played" /\ e.seat = s /\ e.card = c /\ e.points = p
  BY DEF CardPlayed
<1>2. /\ g.hands = hs /\ g.played = pd /\ g.pile = pl /\ g.count = co
      /\ [g.hands EXCEPT ![s] = @ \ {c}] = hs1 /\ [g.played EXCEPT ![s] = @ \cup {c}] = pd1
  BY DEF Game
<1>. HIDE DEF e, hs1, pd1
<1>3. h = Game(dl, ph, sc, hs1, pd1, th, st, Append(pl, c), co + Pip(c), go, s, wi)
  <2>1. h = [g EXCEPT !.hands = hs1, !.played = pd1, !.pile = Append(pl, c),
                      !.count = co + Pip(c), !.lastPlayer = s]
    <3>. HIDE DEF g
    <3>. QED BY <1>1, <1>2, Zenon DEF LayCard
  <2>. HIDE DEF h
  <2>. QED BY <2>1 DEF Game
<1>. HIDE DEF h
<1>4. Scored(cap, h, s, p)
        = Game(dl, ph, sc1, hs1, pd1, th, st, Append(pl, c), co + Pip(c), go, s, wi)
  BY <1>3, ScoredGame
<1>. HIDE DEF g
<1>5. Reduce(cap, g, e) = Scored(cap, h, s, p)
  BY <1>1 DEF Reduce, h
<1>. QED BY <1>4, <1>5 DEF e, g, hs1, pd1

LEMMA ReducePass ==
  ASSUME NEW cap, NEW dl, NEW ph, NEW sc, NEW hs, NEW pd, NEW th, NEW st, NEW pl,
         NEW co, NEW go, NEW lp, NEW wi, NEW s
  PROVE  LET g == Game(dl, ph, sc, hs, pd, th, st, pl, co, go, lp, wi) IN
         Reduce(cap, g, Pass(s))
           = Game(dl, ph, sc, hs, pd, th, st, pl, co, [go EXCEPT ![s] = TRUE], lp, wi)
<1>. DEFINE g == Game(dl, ph, sc, hs, pd, th, st, pl, co, go, lp, wi)
<1>. QED BY DEF Reduce, Pass, Game

LEMMA ReduceGo ==
  ASSUME NEW cap, NEW dl, NEW ph, NEW sc, NEW hs, NEW pd, NEW th, NEW st, NEW pl,
         NEW co, NEW go, NEW lp, NEW wi, NEW s
  PROVE  LET g == Game(dl, ph, sc, hs, pd, th, st, pl, co, go, lp, wi) IN
         Reduce(cap, g, GoAwarded(s))
           = Game(dl, ph, AddPoints(cap, sc, s, 1), hs, pd, th, st, pl, co, go, lp, wi)
<1>. DEFINE g == Game(dl, ph, sc, hs, pd, th, st, pl, co, go, lp, wi)
<1>. QED BY DEF Reduce, GoAwarded, Game, Scored

LEMMA ReduceReset ==
  ASSUME NEW cap, NEW dl, NEW ph, NEW sc, NEW hs, NEW pd, NEW th, NEW st, NEW pl,
         NEW co, NEW go, NEW lp, NEW wi, NEW x
  PROVE  LET g == Game(dl, ph, sc, hs, pd, th, st, pl, co, go, lp, wi) IN
         Reduce(cap, g, SeriesReset(x))
           = Game(dl, ph, sc, hs, pd, th, st, <<>>, 0, NoneGone, Other(x), wi)
<1>. DEFINE g == Game(dl, ph, sc, hs, pd, th, st, pl, co, go, lp, wi)
<1>. QED BY DEF Reduce, SeriesReset, Game, ResetSeries

LEMMA ReduceHand ==
  ASSUME NEW cap, NEW dl, NEW ph, NEW sc, NEW hs, NEW pd, NEW th, NEW st, NEW pl,
         NEW co, NEW go, NEW lp, NEW wi, NEW s, NEW cs, NEW p
  PROVE  LET g == Game(dl, ph, sc, hs, pd, th, st, pl, co, go, lp, wi) IN
         Reduce(cap, g, HandShown(s, cs, p))
           = Game(dl, ph, AddPoints(cap, sc, s, p), hs, pd, th, st, pl, co, go, lp, wi)
<1>. DEFINE g == Game(dl, ph, sc, hs, pd, th, st, pl, co, go, lp, wi)
<1>. QED BY DEF Reduce, HandShown, Game, Scored

LEMMA ReduceCrib ==
  ASSUME NEW cap, NEW dl, NEW ph, NEW sc, NEW hs, NEW pd, NEW th, NEW st, NEW pl,
         NEW co, NEW go, NEW lp, NEW wi, NEW cs, NEW p
  PROVE  LET g == Game(dl, ph, sc, hs, pd, th, st, pl, co, go, lp, wi) IN
         Reduce(cap, g, CribShown(cs, p))
           = Game(dl, ph, AddPoints(cap, sc, dl, p), hs, pd, th, st, pl, co, go, lp, wi)
<1>. DEFINE g == Game(dl, ph, sc, hs, pd, th, st, pl, co, go, lp, wi)
<1>. QED BY DEF Reduce, CribShown, Game, Scored

LEMMA ReduceWon ==
  ASSUME NEW cap, NEW dl, NEW ph, NEW sc, NEW hs, NEW pd, NEW th, NEW st, NEW pl,
         NEW co, NEW go, NEW lp, NEW wi, NEW s
  PROVE  LET g == Game(dl, ph, sc, hs, pd, th, st, pl, co, go, lp, wi) IN
         Reduce(cap, g, GameWon(s))
           = Game(dl, "complete", sc, hs, pd, th, st, pl, co, go, lp, s)
<1>. DEFINE g == Game(dl, ph, sc, hs, pd, th, st, pl, co, go, lp, wi)
<1>. QED BY DEF Reduce, GameWon, Game

LEMMA ReduceUncounted ==
  ASSUME NEW cap, NEW dl, NEW ph, NEW sc, NEW hs, NEW pd, NEW th, NEW st, NEW pl,
         NEW co, NEW go, NEW lp, NEW wi, NEW s, NEW cs, NEW b
  PROVE  LET g == Game(dl, ph, sc, hs, pd, th, st, pl, co, go, lp, wi) IN
         Reduce(cap, g, ShowNotCounted(s, cs, b)) = g
<1>. DEFINE g == Game(dl, ph, sc, hs, pd, th, st, pl, co, go, lp, wi)
<1>. QED BY DEF Reduce, ShowNotCounted, Game

-----------------------------------------------------------------------------
(***************************************************************************)
(* Two folds are followed at once: the one that stops at the target (cap = *)
(* Target: Restore) and the one that does not know it (cap = 0: the        *)
(* analysis and the statistics).  They give the same game until it is won, *)
(* and after that differ by what the winner's last award had in excess.    *)
(***************************************************************************)
Caps == {0, Target}

\* The events more, after the log, give the game g.
Tells(cap, more, g) == IsLog(more) /\ Folded(cap, log \o more) = g

\* The scores sc are the ones given, but for the excess of w's last award.
Alike(cap, sc, given, w) ==
  /\ cap = Target => sc = given
  /\ \A t \in Seat : IF t = w THEN sc[t] >= given[t] ELSE sc[t] = given[t]

\* The live game, with the scores sc in place of its own.
LiveWith(sc) ==
  Game(dealer, phase, sc, hands, played, thrown, starter, pile, count, gone,
       lastPlayer, winner)

TellInv ==
  /\ IsLog(log)
  /\ \A cap \in Caps : \E sc \in [Seat -> Nat] :
       Folded(cap, log) = LiveWith(sc) /\ Alike(cap, sc, scores, winner)

\* What a command has to keep of it: its events tell the game it leaves.
Follows(cap) ==
  \E sc \in [Seat -> Nat] :
    /\ Tells(cap, out', Game(dealer', phase', sc, hands', played', thrown', starter',
                             pile', count', gone', lastPlayer', winner'))
    /\ Alike(cap, sc, scores', winner')

LEMMA TellMore ==
  ASSUME IsLog(log), NEW cap, NEW more, NEW g, Tells(cap, more, g), NEW e
  PROVE  Tells(cap, Append(more, e), Reduce(cap, g, e))
<1>1. /\ IsLog(Append(more, e)) /\ IsLog(log \o more)
      /\ log \o Append(more, e) = Append(log \o more, e)
  BY LogsJoin DEF Tells
<1>. QED BY <1>1, FoldedGoesOn DEF Tells

LEMMA TellOne ==
  ASSUME IsLog(log), NEW cap, NEW g, Folded(cap, log) = g, NEW e
  PROVE  Tells(cap, <<e>>, Reduce(cap, g, e))
<1>1. IsLog(<<>>) /\ <<e>> = Append(<<>>, e)
  BY LogOfOne
<1>2. log \o <<>> = log
  BY <1>1, LogsJoin
<1>3. Tells(cap, <<>>, g)
  BY <1>1, <1>2 DEF Tells
<1>4. Tells(cap, Append(<<>>, e), Reduce(cap, g, e))
  BY <1>3, TellMore
<1>. QED BY <1>1, <1>4

\* What is turned over uncounted after the end changes nothing.
Reveals(reveals) ==
  \/ reveals = <<>>
  \/ \E s, cs, b : reveals = <<ShowNotCounted(s, cs, b)>>
  \/ \E s, cs, b, s2, cs2, b2 :
       reveals = <<ShowNotCounted(s, cs, b), ShowNotCounted(s2, cs2, b2)>>

LEMMA TellReveals ==
  ASSUME IsLog(log), NEW cap, NEW dl, NEW ph, NEW sc, NEW hs, NEW pd, NEW th, NEW st,
         NEW pl, NEW co, NEW go, NEW lp, NEW wi, NEW more, NEW reveals, Reveals(reveals),
         Tells(cap, more, Game(dl, ph, sc, hs, pd, th, st, pl, co, go, lp, wi))
  PROVE  Tells(cap, more \o reveals, Game(dl, ph, sc, hs, pd, th, st, pl, co, go, lp, wi))
<1>. DEFINE g == Game(dl, ph, sc, hs, pd, th, st, pl, co, go, lp, wi)
<1>1. \A s, cs, b : Reduce(cap, g, ShowNotCounted(s, cs, b)) = g
  BY ReduceUncounted
<1>2. PICK S : more \in Seq(S)
  BY DEF Tells, IsLog
<1>. HIDE DEF g
<1>3. CASE reveals = <<>>
  <2>1. more \o <<>> = more
    BY <1>2, JoinIsAppend
  <2>. QED BY <2>1, <1>3 DEF g
<1>4. ASSUME NEW s, NEW cs, NEW b, reveals = <<ShowNotCounted(s, cs, b)>>
      PROVE  Tells(cap, more \o reveals, g)
  <2>. DEFINE a == ShowNotCounted(s, cs, b)
  <2>1. more \o <<a>> = Append(more, a)
    BY <1>2, JoinIsAppend
  <2>2. Tells(cap, Append(more, a), Reduce(cap, g, a))
    BY TellMore DEF g
  <2>. QED BY <1>1, <1>4, <2>1, <2>2
<1>5. ASSUME NEW s, NEW cs, NEW b, NEW s2, NEW cs2, NEW b2,
             reveals = <<ShowNotCounted(s, cs, b), ShowNotCounted(s2, cs2, b2)>>
      PROVE  Tells(cap, more \o reveals, g)
  <2>. DEFINE a  == ShowNotCounted(s, cs, b)
              a2 == ShowNotCounted(s2, cs2, b2)
  <2>1. more \o <<a, a2>> = Append(Append(more, a), a2)
    BY <1>2, JoinIsAppend
  <2>2. Tells(cap, Append(more, a), Reduce(cap, g, a)) /\ Reduce(cap, g, a) = g
    BY <1>1, TellMore DEF g
  <2>. HIDE DEF a
  <2>3. Tells(cap, Append(Append(more, a), a2), Reduce(cap, g, a2))
    BY <2>2, TellMore
  <2>. QED BY <1>1, <1>5, <2>1, <2>3 DEF a
<1>. QED BY <1>3, <1>4, <1>5 DEF Reveals, g

\* An award, capped and not.
LEMMA AwardAlike ==
  ASSUME NEW cap \in Caps, NEW sc, Below(sc), NEW s \in Seat, NEW pts \in Nat
  PROVE  LET n == AddPoints(Target, sc, s, pts)
             u == AddPoints(cap, sc, s, pts)
         IN  /\ ~Won(n, s) => u = n
             /\ u \in [Seat -> Nat] /\ Alike(cap, u, n, s)
<1>. DEFINE n == AddPoints(Target, sc, s, pts)
            u == AddPoints(cap, sc, s, pts)
<1>1. sc \in [Seat -> Nat] /\ Target \in Nat /\ Target > 0 /\ sc[s] < Target
  BY TargetAssumption DEF Below
<1>2. CASE cap = Target
  <2>1. u \in [Seat -> Nat]
    BY <1>1, <1>2 DEF AddPoints
  <2>2. u = n
    BY <1>2
  <2>. HIDE DEF u, n
  <2>3. Alike(cap, u, n, s)
    BY <2>1, <2>2 DEF Alike
  <2>. QED BY <2>1, <2>2, <2>3 DEF u, n
<1>3. CASE cap = 0
  <2>1. u = [sc EXCEPT ![s] = sc[s] + pts]
    BY <1>3 DEF AddPoints
  <2>2. n = [sc EXCEPT ![s] = IF sc[s] + pts > Target THEN Target ELSE sc[s] + pts]
    BY <1>1 DEF AddPoints
  <2>. HIDE DEF u, n
  <2>3. /\ n[s] = IF sc[s] + pts > Target THEN Target ELSE sc[s] + pts
        /\ u[s] = sc[s] + pts
        /\ \A t \in Seat : t # s => u[t] = sc[t] /\ n[t] = sc[t]
        /\ u \in [Seat -> Nat] /\ sc[s] \in Nat
    BY <1>1, <2>1, <2>2
  <2>4. ASSUME ~Won(n, s) PROVE u = n
    <3>1. sc[s] + pts \in Nat /\ ~(sc[s] + pts > Target)
      BY <1>1, <2>3, <2>4 DEF Won
    <3>. QED BY <2>1, <2>2, <3>1
  <2>5. Alike(cap, u, n, s)
    BY <1>1, <1>3, <2>3 DEF Alike
  <2>. QED BY <2>3, <2>4, <2>5 DEF u, n
<1>. QED BY <1>2, <1>3 DEF Caps

\* While the game is on, both folds give the live game.
LEMMA OnTheGo ==
  ASSUME GameInv, TellInv, winner = NoSeat, NEW cap \in Caps
  PROVE  Folded(cap, log) = LiveWith(scores)
<1>1. PICK sc \in [Seat -> Nat] :
             Folded(cap, log) = LiveWith(sc) /\ Alike(cap, sc, scores, winner)
  BY DEF TellInv
<1>2. sc = scores
  BY <1>1, SeatFacts DEF Alike, GameInv, TypeOK
<1>. QED BY <1>1, <1>2

LEMMA TellInvNext ==
  ASSUME TellInv, log' = log \o out', \A cap \in Caps : Follows(cap)
  PROVE  TellInv'
<1>1. IsLog(log) /\ 0 \in Caps
  BY DEF TellInv, Caps
<1>2. IsLog(out')
  BY <1>1 DEF Follows, Tells
<1>3. IsLog(log')
  BY <1>1, <1>2, LogsJoin
<1>4. ASSUME NEW cap \in Caps
      PROVE  \E sc \in [Seat -> Nat] :
               Folded(cap, log') = LiveWith(sc)' /\ Alike(cap, sc, scores', winner')
  BY DEF Follows, Tells, LiveWith
<1>. QED BY <1>3, <1>4 DEF TellInv, Caps

LEMMA GoTells ==
  ASSUME NEW cap \in Caps, scores' \in [Seat -> Nat],
         Tells(cap, out', Game(dealer', phase', scores', hands', played', thrown', starter',
                               pile', count', gone', lastPlayer', winner'))
  PROVE  Follows(cap)
<1>1. Alike(cap, scores', scores', winner')
  BY DEF Alike
<1>. QED BY <1>1 DEF Follows

LEMMA WinTells ==
  ASSUME IsLog(log), NEW cap \in Caps, NEW s \in Seat, NEW events, NEW reveals, Reveals(reveals),
         NEW sc, NEW got \in [Seat -> Nat], Alike(cap, got, sc, s), NEW ph,
         WinsWith(s, sc, events, reveals),
         Tells(cap, events, Game(dealer', ph, got, hands', played', thrown', starter',
                                 pile', count', gone', lastPlayer', winner))
  PROVE  Follows(cap)
<1>. DEFINE g == Game(dealer', ph, got, hands', played', thrown', starter',
                      pile', count', gone', lastPlayer', winner)
            h == Game(dealer', "complete", got, hands', played', thrown', starter',
                      pile', count', gone', lastPlayer', s)
            all == Append(events, GameWon(s))
<1>1. Tells(cap, all, Reduce(cap, g, GameWon(s)))
  BY TellMore
<1>2. Reduce(cap, g, GameWon(s)) = h
  BY ReduceWon
<1>3. Tells(cap, all, h)
  BY <1>1, <1>2
<1>4. Tells(cap, all \o reveals, h)
  <2>. HIDE DEF all, g
  <2>. QED BY <1>3, TellReveals
<1>5. out' = all \o reveals /\ winner' = s /\ phase' = "complete" /\ scores' = sc
  BY DEF WinsWith
<1>. HIDE DEF all
<1>. QED BY <1>4, <1>5 DEF Follows

-----------------------------------------------------------------------------
(* The commands, one by one.                                               *)

\* What every command starts from.
Ready(cap) ==
  /\ cap \in Caps
  /\ IsLog(log)
  /\ Folded(cap, log) = LiveWith(scores)
  /\ scores' \in [Seat -> Nat]

LEMMA DiscardTells ==
  ASSUME GameInv, NEW cap, Ready(cap), NEW s \in Seat, NEW two \in Throws, Discard(s, two)
  PROVE  Follows(cap)
<1>. DEFINE hs  == [hands EXCEPT ![s] = @ \ two]
            th  == [thrown EXCEPT ![s] = two]
            one == <<DiscardedBy(s, two)>>
            g   == Game(dealer, phase, scores, hs, played, th, starter, pile, count,
                        gone, lastPlayer, winner)
<1>1. /\ phase = "discard" /\ hands' = hs /\ thrown' = th
      /\ UNCHANGED <<dealer, played, pile, count, gone, lastPlayer>>
      /\ \/ /\ out' = one
            /\ UNCHANGED <<phase, scores, starter, rest, winner>>
         \/ CutStarter(one)
  BY DEF Discard
<1>2. Tells(cap, one, g)
  <2>1. Reduce(cap, LiveWith(scores), DiscardedBy(s, two)) = g
    BY ReduceDiscard DEF LiveWith
  <2>. QED BY <2>1, TellOne DEF Ready
<1>. HIDE DEF hs, th, one
<1>3. CASE out' = one /\ UNCHANGED <<phase, scores, starter, rest, winner>>
  BY <1>1, <1>2, <1>3, GoTells DEF Ready
<1>4. CASE CutStarter(one)
  <2>. DEFINE heels == IF rest.rank = Jack THEN 2 ELSE 0
              sc    == AddPoints(Target, scores, dealer, heels)
              got   == AddPoints(cap, scores, dealer, heels)
              cut   == Append(one, StarterCut(rest, heels))
              k     == Game(dealer, "play", got, hs, played, th, rest, pile, count,
                            gone, lastPlayer, winner)
  <2>1. /\ starter' = rest
        /\ \/ WinsWith(dealer, sc, cut, <<>>)
           \/ GoesOn(dealer, sc) /\ phase' = "play" /\ out' = cut
    BY <1>4 DEF CutStarter
  <2>2. heels \in Nat /\ dealer \in Seat /\ Below(scores)
    BY <1>1, BelowTarget DEF GameInv, TypeOK
  <2>. HIDE DEF heels
  <2>3. Tells(cap, cut, k)
    <3>1. Reduce(cap, g, StarterCut(rest, heels)) = k
      BY ReduceStarter
    <3>. HIDE DEF g, k
    <3>. QED BY <1>2, <3>1, TellMore DEF Ready
  <2>4. /\ ~Won(sc, dealer) => got = sc
        /\ got \in [Seat -> Nat] /\ Alike(cap, got, sc, dealer)
    BY <2>2, AwardAlike DEF Ready
  <2>. HIDE DEF sc, got, cut
  <2>5. CASE WinsWith(dealer, sc, cut, <<>>)
    <3>1. Reveals(<<>>)
      BY DEF Reveals
    <3>. QED BY <1>1, <2>1, <2>2, <2>3, <2>4, <2>5, <3>1, WinTells DEF Ready
  <2>6. CASE GoesOn(dealer, sc) /\ phase' = "play" /\ out' = cut
    <3>1. scores' = got /\ winner' = winner
      BY <2>4, <2>6 DEF GoesOn
    <3>. QED BY <1>1, <2>1, <2>3, <2>6, <3>1, GoTells DEF Ready
  <2>. QED BY <2>1, <2>5, <2>6
<1>. QED BY <1>1, <1>3, <1>4

\* The game when the card is down.
LaidGame(s, c, sc, go) ==
  Game(dealer, phase, sc, HandsAfter(s, c), PlayedAfter(s, c), thrown, starter,
       Append(pile, c), CountAfter(c), go, s, winner)

LEMMA DownTells ==
  ASSUME GameInv, NEW cap, Ready(cap), NEW s \in Seat, NEW c \in hands[s], LegalPlay(s, c)
  PROVE  LET got == AddPoints(cap, scores, s, Score(pile, c))
         IN  /\ Tells(cap, Down(s, c), LaidGame(s, c, got, gone))
             /\ ~Won(Pegged(s, c), s) => got = Pegged(s, c)
             /\ got \in [Seat -> Nat] /\ Alike(cap, got, Pegged(s, c), s)
<1>. DEFINE got == AddPoints(cap, scores, s, Score(pile, c))
<1>1. Tells(cap, Down(s, c), LaidGame(s, c, got, gone))
  <2>1. Reduce(cap, LiveWith(scores), CardPlayed(s, c, Score(pile, c))) = LaidGame(s, c, got, gone)
    BY ReducePlay DEF LiveWith, LaidGame, HandsAfter, PlayedAfter, CountAfter
  <2>. QED BY <2>1, TellOne DEF Ready, Down
<1>2. Below(scores) /\ Score(pile, c) \in Nat
  BY LayFacts
<1>. QED BY <1>1, <1>2, AwardAlike DEF Ready, Pegged

\* The forced pass of the opponent.
LEMMA PassTells ==
  ASSUME GameInv, NEW cap, Ready(cap), NEW s \in Seat, NEW c, NEW sc,
         Tells(cap, Down(s, c), LaidGame(s, c, sc, gone))
  PROVE  Tells(cap, Down(s, c) \o PassOf(Other(s)),
               LaidGame(s, c, sc, [gone EXCEPT ![Other(s)] = TRUE]))
<1>. DEFINE o == Other(s)
            go == [gone EXCEPT ![o] = TRUE]
<1>1. PICK S : Down(s, c) \in Seq(S)
  BY DEF Tells, IsLog
<1>2. CASE gone[o]
  <2>1. go = gone
    BY <1>2 DEF GameInv, TypeOK
  <2>2. Down(s, c) \o PassOf(o) = Down(s, c)
    BY <1>1, <1>2, JoinIsAppend DEF PassOf
  <2>. QED BY <2>1, <2>2
<1>3. CASE ~gone[o]
  <2>1. Down(s, c) \o PassOf(o) = Append(Down(s, c), Pass(o))
    BY <1>1, <1>3, JoinIsAppend DEF PassOf
  <2>2. Reduce(cap, LaidGame(s, c, sc, gone), Pass(o)) = LaidGame(s, c, sc, go)
    BY ReducePass DEF LaidGame
  <2>. HIDE DEF o, go
  <2>3. Tells(cap, Append(Down(s, c), Pass(o)), LaidGame(s, c, sc, go))
    BY <2>2, TellMore DEF Ready
  <2>. QED BY <2>1, <2>3 DEF o, go
<1>. QED BY <1>2, <1>3

LEMMA PlayWinsTells ==
  ASSUME GameInv, NEW cap, Ready(cap), NEW s \in Seat, NEW c \in hands[s], PlayWins(s, c)
  PROVE  Follows(cap)
<1>. DEFINE got == AddPoints(cap, scores, s, Score(pile, c))
<1>1. /\ LegalPlay(s, c) /\ WinsWith(s, Pegged(s, c), Down(s, c), <<>>)
      /\ SeriesGoesOn(s, c) /\ gone' = gone
  BY DEF PlayWins
<1>2. /\ Tells(cap, Down(s, c), LaidGame(s, c, got, gone))
      /\ got \in [Seat -> Nat] /\ Alike(cap, got, Pegged(s, c), s)
  BY <1>1, DownTells
<1>3. Reveals(<<>>)
  BY DEF Reveals
<1>. HIDE DEF got
<1>. QED BY <1>1, <1>2, <1>3, WinTells DEF Ready, LaidGame, SeriesGoesOn

LEMMA PlayThenOpponentTells ==
  ASSUME GameInv, NEW cap, Ready(cap), NEW s \in Seat, NEW c \in hands[s],
         PlayThenOpponent(s, c)
  PROVE  Follows(cap)
<1>1. /\ LegalPlay(s, c) /\ GoesOn(s, Pegged(s, c)) /\ SeriesGoesOn(s, c)
      /\ out' = Down(s, c) /\ phase' = phase /\ gone' = gone
  BY DEF PlayThenOpponent
<1>2. scores' = Pegged(s, c) /\ winner' = winner /\ ~Won(Pegged(s, c), s)
  BY <1>1 DEF GoesOn
<1>3. Tells(cap, Down(s, c), LaidGame(s, c, scores', gone))
  BY <1>1, <1>2, DownTells
<1>. QED BY <1>1, <1>2, <1>3, GoTells DEF Ready, LaidGame, SeriesGoesOn

LEMMA PlayThenSamePlayerTells ==
  ASSUME GameInv, NEW cap, Ready(cap), NEW s \in Seat, NEW c \in hands[s],
         PlayThenSamePlayer(s, c)
  PROVE  Follows(cap)
<1>1. /\ LegalPlay(s, c) /\ GoesOn(s, Pegged(s, c)) /\ SeriesGoesOn(s, c)
      /\ out' = Down(s, c) \o PassOf(Other(s)) /\ phase' = phase
      /\ gone' = [gone EXCEPT ![Other(s)] = TRUE]
  BY DEF PlayThenSamePlayer
<1>2. scores' = Pegged(s, c) /\ winner' = winner /\ ~Won(Pegged(s, c), s)
  BY <1>1 DEF GoesOn
<1>3. Tells(cap, Down(s, c), LaidGame(s, c, scores', gone))
  BY <1>1, <1>2, DownTells
<1>4. Tells(cap, out', LaidGame(s, c, scores', gone'))
  BY <1>1, <1>3, PassTells
<1>. QED BY <1>1, <1>2, <1>4, GoTells DEF Ready, LaidGame, SeriesGoesOn

\* The series is over: the pile goes, and the leader of the next one is told.
LEMMA ResetTells ==
  ASSUME NEW cap, Ready(cap), NEW s, NEW c, NEW events, NEW go,
         Tells(cap, events, LaidGame(s, c, scores', go)),
         SeriesEnds(s, c), winner' = winner, out' = Append(events, ResetEvent(s, c))
  PROVE  Follows(cap)
<1>. DEFINE l == LeaderAfter(HandsAfter(s, c), s)
            g == LaidGame(s, c, scores', go)
            h == Game(dealer, phase, scores', HandsAfter(s, c), PlayedAfter(s, c), thrown,
                      starter, <<>>, 0, NoneGone, Other(l), winner)
<1>1. Reduce(cap, g, SeriesReset(l)) = h
  BY ReduceReset DEF LaidGame
<1>2. Tells(cap, Append(events, SeriesReset(l)), h)
  <2>. HIDE DEF g, h, l
  <2>. QED BY <1>1, TellMore DEF Ready, g
<1>. QED BY <1>2, GoTells DEF Ready, SeriesEnds, ResetEvent

LEMMA PlayThirtyOneTells ==
  ASSUME GameInv, NEW cap, Ready(cap), NEW s \in Seat, NEW c \in hands[s],
         PlayThirtyOne(s, c)
  PROVE  Follows(cap)
<1>1. /\ LegalPlay(s, c) /\ GoesOn(s, Pegged(s, c)) /\ SeriesEnds(s, c)
      /\ out' = Append(Down(s, c), ResetEvent(s, c))
  BY DEF PlayThirtyOne
<1>2. scores' = Pegged(s, c) /\ winner' = winner /\ ~Won(Pegged(s, c), s)
  BY <1>1 DEF GoesOn
<1>3. Tells(cap, Down(s, c), LaidGame(s, c, scores', gone))
  BY <1>1, <1>2, DownTells
<1>. QED BY <1>1, <1>2, <1>3, ResetTells

LEMMA PlayGoTells ==
  ASSUME GameInv, NEW cap, Ready(cap), NEW s \in Seat, NEW c \in hands[s], PlayGo(s, c)
  PROVE  Follows(cap)
<1>. DEFINE sc   == AddPoints(Target, Pegged(s, c), s, 1)
            got  == AddPoints(cap, Pegged(s, c), s, 1)
            pass == Down(s, c) \o PassOf(Other(s))
            ev   == Append(pass, GoAwarded(s))
            go   == [gone EXCEPT ![Other(s)] = TRUE]
<1>1. /\ LegalPlay(s, c) /\ ~Won(Pegged(s, c), s)
      /\ \/ WinsWith(s, sc, ev, <<>>) /\ SeriesGoesOn(s, c) /\ gone' = go
         \/ /\ GoesOn(s, sc) /\ SeriesEnds(s, c)
            /\ out' = Append(ev, ResetEvent(s, c))
  BY DEF PlayGo
<1>2. Tells(cap, Down(s, c), LaidGame(s, c, Pegged(s, c), gone)) /\ Below(Pegged(s, c))
  BY <1>1, DownTells, LayFacts
<1>3. Tells(cap, pass, LaidGame(s, c, Pegged(s, c), go))
  BY <1>2, PassTells
<1>4. Tells(cap, ev, LaidGame(s, c, got, go))
  <2>1. Reduce(cap, LaidGame(s, c, Pegged(s, c), go), GoAwarded(s)) = LaidGame(s, c, got, go)
    BY ReduceGo DEF LaidGame
  <2>. HIDE DEF pass, got, go
  <2>. QED BY <1>3, <2>1, TellMore DEF Ready
<1>5. /\ ~Won(sc, s) => got = sc
      /\ got \in [Seat -> Nat] /\ Alike(cap, got, sc, s)
  BY <1>2, AwardAlike DEF Ready
<1>. HIDE DEF sc, got, ev, go
<1>6. CASE WinsWith(s, sc, ev, <<>>) /\ SeriesGoesOn(s, c) /\ gone' = go
  <2>1. Reveals(<<>>)
    BY DEF Reveals
  <2>. QED BY <1>4, <1>5, <1>6, <2>1, WinTells DEF Ready, LaidGame, SeriesGoesOn
<1>7. CASE GoesOn(s, sc) /\ SeriesEnds(s, c) /\ out' = Append(ev, ResetEvent(s, c))
  <2>1. scores' = got /\ winner' = winner
    BY <1>5, <1>7 DEF GoesOn
  <2>. QED BY <1>4, <1>7, <2>1, ResetTells
<1>. QED BY <1>1, <1>6, <1>7

\* Up to the show.
LEMMA LastCardTells ==
  ASSUME GameInv, NEW cap, Ready(cap), NEW s \in Seat, NEW c \in hands[s], LastCard(s, c)
  PROVE  \E got \in [Seat -> Nat] :
           /\ Tells(cap, LastCardEvents(s, c), LaidGame(s, c, got, gone))
           /\ ~Won(LastCardScores(s, c), s) => got = LastCardScores(s, c)
           /\ Alike(cap, got, LastCardScores(s, c), s)
<1>. DEFINE sc  == AddPoints(Target, Pegged(s, c), s, 1)
            got == AddPoints(cap, Pegged(s, c), s, 1)
<1>1. LegalPlay(s, c) /\ ~Won(Pegged(s, c), s)
  BY DEF LastCard
<1>2. /\ Tells(cap, Down(s, c), LaidGame(s, c, Pegged(s, c), gone)) /\ Below(Pegged(s, c))
      /\ Pegged(s, c) \in [Seat -> Nat] /\ Alike(cap, Pegged(s, c), Pegged(s, c), s)
  <2>1. Tells(cap, Down(s, c), LaidGame(s, c, Pegged(s, c), gone)) /\ Below(Pegged(s, c))
    BY <1>1, DownTells, LayFacts
  <2>2. Pegged(s, c) \in [Seat -> Nat]
    BY <2>1, TargetAssumption DEF Below
  <2>. QED BY <2>1, <2>2 DEF Alike
<1>3. CASE CountAfter(c) = 31
  BY <1>2, <1>3 DEF LastCardEvents, LastCardScores
<1>4. CASE CountAfter(c) # 31
  <2>1. Reduce(cap, LaidGame(s, c, Pegged(s, c), gone), GoAwarded(s)) = LaidGame(s, c, got, gone)
    BY ReduceGo DEF LaidGame
  <2>2. /\ ~Won(sc, s) => got = sc
        /\ got \in [Seat -> Nat] /\ Alike(cap, got, sc, s)
    BY <1>2, AwardAlike DEF Ready
  <2>3. LastCardEvents(s, c) = Append(Down(s, c), GoAwarded(s)) /\ LastCardScores(s, c) = sc
    BY <1>4 DEF LastCardEvents, LastCardScores
  <2>. HIDE DEF sc, got
  <2>4. Tells(cap, Append(Down(s, c), GoAwarded(s)), LaidGame(s, c, got, gone))
    BY <1>2, <2>1, TellMore DEF Ready
  <2>. QED BY <2>2, <2>3, <2>4
<1>. QED BY <1>3, <1>4

LEMMA LastCardWinsTells ==
  ASSUME GameInv, NEW cap, Ready(cap), NEW s \in Seat, NEW c \in hands[s],
         LastCardWins(s, c)
  PROVE  Follows(cap)
<1>1. /\ LastCard(s, c) /\ SeriesGoesOn(s, c) /\ gone' = gone
      /\ WinsWith(s, LastCardScores(s, c), LastCardEvents(s, c), <<>>)
  BY DEF LastCardWins
<1>2. PICK got \in [Seat -> Nat] :
             /\ Tells(cap, LastCardEvents(s, c), LaidGame(s, c, got, gone))
             /\ Alike(cap, got, LastCardScores(s, c), s)
  BY <1>1, LastCardTells
<1>3. Reveals(<<>>)
  BY DEF Reveals
<1>. QED BY <1>1, <1>2, <1>3, WinTells DEF Ready, LaidGame, SeriesGoesOn

\* The next hand.
LEMMA DealTells ==
  ASSUME NEW cap, Ready(cap), NEW s, NEW c, NEW events, NEW dl,
         Tells(cap, events, LaidGame(s, c, scores', gone)),
         DealHand(dl, events), winner' = winner
  PROVE  Follows(cap)
<1>1. PICK deck \in Decks :
        /\ dealer' = dl /\ phase' = "discard" /\ hands' = DealtHands(deck, dl)
        /\ played' = Empty /\ thrown' = Empty /\ starter' = NoCard
        /\ pile' = <<>> /\ count' = 0 /\ gone' = NoneGone /\ lastPlayer' = dl
        /\ out' = Append(events, HandDealt(dl, DealtHands(deck, dl)))
  BY DEF DealHand
<1>. DEFINE hs == DealtHands(deck, dl)
            g  == LaidGame(s, c, scores', gone)
            h  == Game(dl, "discard", scores', hs, Empty, Empty, NoCard, <<>>, 0,
                       NoneGone, dl, winner)
<1>2. Reduce(cap, g, HandDealt(dl, hs)) = h
  BY ReduceDeal DEF LaidGame
<1>3. Tells(cap, Append(events, HandDealt(dl, hs)), h)
  <2>. HIDE DEF g, h, hs
  <2>. QED BY <1>2, TellMore DEF Ready, g
<1>. HIDE DEF hs
<1>. QED BY <1>1, <1>3, GoTells DEF Ready, hs

\* A hand or the crib is counted.
LEMMA CountTells ==
  ASSUME NEW cap, Ready(cap), NEW s, NEW c, NEW sc, Below(sc),
         NEW events, Tells(cap, events, LaidGame(s, c, sc, gone)),
         NEW t \in Seat, NEW cs, NEW pts \in Nat, NEW e,
         e = HandShown(t, cs, pts) \/ (e = CribShown(cs, pts) /\ t = dealer)
  PROVE  LET n   == AddPoints(Target, sc, t, pts)
             got == AddPoints(cap, sc, t, pts)
         IN  /\ Tells(cap, Append(events, e), LaidGame(s, c, got, gone))
             /\ ~Won(n, t) => got = n
             /\ got \in [Seat -> Nat] /\ Alike(cap, got, n, t)
<1>. DEFINE g == LaidGame(s, c, sc, gone)
            h == LaidGame(s, c, AddPoints(cap, sc, t, pts), gone)
<1>1. Reduce(cap, g, e) = h
  <2>1. CASE e = HandShown(t, cs, pts)
    <3>1. Reduce(cap, g, HandShown(t, cs, pts)) = h
      BY ReduceHand DEF LaidGame
    <3>. HIDE DEF g, h
    <3>. QED BY <2>1, <3>1
  <2>2. CASE e = CribShown(cs, pts) /\ t = dealer
    <3>1. Reduce(cap, g, CribShown(cs, pts)) = LaidGame(s, c, AddPoints(cap, sc, dealer, pts), gone)
      BY ReduceCrib DEF LaidGame
    <3>. HIDE DEF g
    <3>. QED BY <2>2, <3>1
  <2>. QED BY <2>1, <2>2
<1>2. Tells(cap, Append(events, e), h)
  <2>. HIDE DEF h
  <2>. QED BY <1>1, TellMore DEF Ready
<1>. QED BY <1>2, AwardAlike DEF Ready

LEMMA ShowFollows ==
  ASSUME GameInv, NEW cap, Ready(cap), NEW s \in Seat, NEW c \in hands[s], Show(s, c)
  PROVE  Follows(cap)
<1>. DEFINE points == ShowPoints(s, c)
            laid   == PlayedAfter(s, c)
            last   == LastCardScores(s, c)
            sc1    == AddPoints(Target, last, Pone, points.pone)
            sc2    == AddPoints(Target, sc1, dealer, points.dealer)
            sc3    == AddPoints(Target, sc2, dealer, points.crib)
            got1   == AddPoints(cap, last, Pone, points.pone)
            got2   == AddPoints(cap, sc1, dealer, points.dealer)
            got3   == AddPoints(cap, sc2, dealer, points.crib)
            e1     == HandShown(Pone, laid[Pone], points.pone)
            e2     == HandShown(dealer, laid[dealer], points.dealer)
            e3     == CribShown(Crib, points.crib)
            ev1    == Append(LastCardEvents(s, c), e1)
            ev2    == Append(ev1, e2)
            ev3    == Append(ev2, e3)
            noCrib == ShowNotCounted(dealer, Crib, TRUE)
            reveal == <<ShowNotCounted(dealer, laid[dealer], FALSE), noCrib>>
<1>1. /\ LastCard(s, c) /\ ~Won(last, s)
      /\ \/ /\ WinsWith(Pone, sc1, ev1, reveal)
            /\ SeriesGoesOn(s, c) /\ gone' = gone
         \/ /\ ~Won(sc1, Pone)
            /\ WinsWith(dealer, sc2, ev2, <<noCrib>>)
            /\ SeriesGoesOn(s, c) /\ gone' = gone
         \/ /\ ~Won(sc1, Pone) /\ ~Won(sc2, dealer)
            /\ WinsWith(dealer, sc3, ev3, <<>>)
            /\ SeriesGoesOn(s, c) /\ gone' = gone
         \/ /\ ~Won(sc1, Pone) /\ ~Won(sc2, dealer)
            /\ GoesOn(dealer, sc3)
            /\ DealHand(Pone, ev3)
  BY DEF Show, ResolveShow
<1>2. /\ LegalPlay(s, c) /\ Below(last)
      /\ dealer \in Seat /\ Pone \in Seat
  BY <1>1, LastCardFacts, SeatFacts DEF GameInv, TypeOK, Pone
<1>3. points.pone \in Nat /\ points.dealer \in Nat /\ points.crib \in Nat
  BY <1>2, ShowPointsAreNat
<1>4. Reveals(<<>>) /\ Reveals(<<noCrib>>) /\ Reveals(reveal)
  BY DEF Reveals
<1>. HIDE DEF noCrib, reveal
<1>5. Tells(cap, LastCardEvents(s, c), LaidGame(s, c, last, gone))
  BY <1>1, LastCardTells
<1>6. e1 = HandShown(Pone, laid[Pone], points.pone)
  OBVIOUS
<1>7. e2 = HandShown(dealer, laid[dealer], points.dealer)
  OBVIOUS
<1>8. e3 = CribShown(Crib, points.crib)
  OBVIOUS
<1>. HIDE DEF points, laid, last, e1, e2, e3
<1>9. /\ Tells(cap, ev1, LaidGame(s, c, got1, gone))
      /\ ~Won(sc1, Pone) => got1 = sc1 /\ Below(sc1)
      /\ got1 \in [Seat -> Nat] /\ Alike(cap, got1, sc1, Pone)
  <2>1. ~Won(sc1, Pone) => Below(sc1)
    BY <1>2, <1>3, AwardFacts
  <2>2. /\ Tells(cap, ev1, LaidGame(s, c, got1, gone))
        /\ ~Won(sc1, Pone) => got1 = sc1
        /\ got1 \in [Seat -> Nat] /\ Alike(cap, got1, sc1, Pone)
    BY <1>2, <1>3, <1>5, <1>6, CountTells
  <2>. QED BY <2>1, <2>2
<1>. HIDE DEF sc1, got1, ev1
<1>10. ~Won(sc1, Pone) =>
         /\ Tells(cap, ev2, LaidGame(s, c, got2, gone))
         /\ ~Won(sc2, dealer) => got2 = sc2 /\ Below(sc2)
         /\ got2 \in [Seat -> Nat] /\ Alike(cap, got2, sc2, dealer)
  <2>. SUFFICES ASSUME ~Won(sc1, Pone)
                PROVE  /\ Tells(cap, ev2, LaidGame(s, c, got2, gone))
                       /\ ~Won(sc2, dealer) => got2 = sc2 /\ Below(sc2)
                       /\ got2 \in [Seat -> Nat] /\ Alike(cap, got2, sc2, dealer)
    OBVIOUS
  <2>1. ~Won(sc2, dealer) => Below(sc2)
    BY <1>2, <1>3, <1>9, AwardFacts
  <2>2. /\ Tells(cap, ev2, LaidGame(s, c, got2, gone))
        /\ ~Won(sc2, dealer) => got2 = sc2
        /\ got2 \in [Seat -> Nat] /\ Alike(cap, got2, sc2, dealer)
    BY <1>2, <1>3, <1>7, <1>9, CountTells
  <2>. QED BY <2>1, <2>2
<1>. HIDE DEF sc2, got2, ev2
<1>11. ~Won(sc1, Pone) /\ ~Won(sc2, dealer) =>
         /\ Tells(cap, ev3, LaidGame(s, c, got3, gone))
         /\ ~Won(sc3, dealer) => got3 = sc3
         /\ got3 \in [Seat -> Nat] /\ Alike(cap, got3, sc3, dealer)
  BY <1>2, <1>3, <1>8, <1>9, <1>10, CountTells
<1>. HIDE DEF sc3, got3, ev3
<1>12. CASE WinsWith(Pone, sc1, ev1, reveal) /\ SeriesGoesOn(s, c) /\ gone' = gone
  BY <1>2, <1>4, <1>9, <1>12, WinTells DEF Ready, LaidGame, SeriesGoesOn
<1>13. CASE /\ ~Won(sc1, Pone)
            /\ WinsWith(dealer, sc2, ev2, <<noCrib>>)
            /\ SeriesGoesOn(s, c) /\ gone' = gone
  BY <1>2, <1>4, <1>10, <1>13, WinTells DEF Ready, LaidGame, SeriesGoesOn
<1>14. CASE /\ ~Won(sc1, Pone) /\ ~Won(sc2, dealer)
            /\ WinsWith(dealer, sc3, ev3, <<>>)
            /\ SeriesGoesOn(s, c) /\ gone' = gone
  BY <1>2, <1>4, <1>11, <1>14, WinTells DEF Ready, LaidGame, SeriesGoesOn
<1>15. CASE /\ ~Won(sc1, Pone) /\ ~Won(sc2, dealer)
            /\ GoesOn(dealer, sc3)
            /\ DealHand(Pone, ev3)
  <2>1. scores' = got3 /\ winner' = winner
    BY <1>11, <1>15 DEF GoesOn
  <2>. QED BY <1>11, <1>15, <2>1, DealTells
<1>. QED BY <1>1, <1>12, <1>13, <1>14, <1>15

-----------------------------------------------------------------------------
(* The theorem.                                                            *)

LEMMA PlayFollows ==
  ASSUME GameInv, NEW cap, Ready(cap), NEW s \in Seat, NEW c \in hands[s], Play(s, c)
  PROVE  Follows(cap)
BY PlayWinsTells, PlayThenOpponentTells, PlayThenSamePlayerTells, PlayThirtyOneTells,
   PlayGoTells, LastCardWinsTells, ShowFollows DEF Play

\* A command that goes to the log, or none.
Logged ==
  \/ \E s \in Seat, two \in Throws : Discard(s, two) /\ log' = log \o out'
  \/ \E s \in Seat : \E c \in hands[s] : Play(s, c) /\ log' = log \o out'
  \/ UNCHANGED <<vars, log>>

LEMMA HistoryIsLogged == [HistoryNext]_historyVars => Logged
BY DEF HistoryNext, historyVars, LoggedDiscard, LoggedPlay, RejectGameOver, Logged

LEMMA LoggedIsNext == Logged => [Next]_vars
BY DEF Logged, Next

LEMMA HistoryInvNext == GameInv /\ TellInv /\ Logged => TellInv'
<1>. SUFFICES ASSUME GameInv, TellInv, Logged PROVE TellInv'
  OBVIOUS
<1>1. GameInv'
  BY LoggedIsNext, NextInv
<1>2. scores' \in [Seat -> Nat]
  BY <1>1, TargetAssumption DEF GameInv, TypeOK
<1>3. ASSUME winner = NoSeat, NEW cap \in Caps PROVE Ready(cap)
  BY <1>2, <1>3, OnTheGo DEF Ready, TellInv
<1>4. ASSUME NEW s \in Seat, NEW two \in Throws, Discard(s, two), log' = log \o out'
      PROVE  TellInv'
  <2>1. winner = NoSeat
    BY <1>4, BelowTarget DEF Discard
  <2>. QED BY <1>3, <1>4, <2>1, DiscardTells, TellInvNext
<1>5. ASSUME NEW s \in Seat, NEW c \in hands[s], Play(s, c), log' = log \o out'
      PROVE  TellInv'
  <2>1. winner = NoSeat
    BY <1>5, PlayMovesSeries, LayFacts
  <2>. QED BY <1>3, <1>5, <2>1, PlayFollows, TellInvNext
<1>6. CASE UNCHANGED <<vars, log>>
  BY <1>6 DEF vars, TellInv, LiveWith
<1>. QED BY <1>4, <1>5, <1>6 DEF Logged

LEMMA HistoryInitInv == HistoryInit => TellInv
<1>. SUFFICES ASSUME HistoryInit PROVE TellInv
  OBVIOUS
<1>1. GameInv
  BY InitInv DEF HistoryInit
<1>2. scores \in [Seat -> Nat]
  BY <1>1, TargetAssumption DEF GameInv, TypeOK
<1>3. PICK open \in Openings, deck \in Decks :
        /\ dealer = open.dealer /\ phase = "discard" /\ scores = open.scores
        /\ hands = DealtHands(deck, open.dealer)
        /\ played = Empty /\ thrown = Empty /\ starter = NoCard
        /\ pile = <<>> /\ count = 0 /\ gone = NoneGone /\ lastPlayer = open.dealer
        /\ winner = NoSeat
        /\ log = <<open.event, HandDealt(open.dealer, DealtHands(deck, open.dealer))>>
  BY DEF HistoryInit, Init
<1>. DEFINE hs == DealtHands(deck, dealer)
            d  == HandDealt(dealer, hs)
<1>4. /\ log = Append(Append(<<>>, open.event), d)
      /\ IsLog(Append(<<>>, open.event)) /\ IsLog(log)
  <2>1. IsLog(<<>>) /\ IsLog(<<open.event>>) /\ <<open.event>> = Append(<<>>, open.event)
    BY LogOfOne
  <2>2. log = Append(<<open.event>>, d)
    <3>1. \A x, y : <<x, y>> = Append(<<x>>, y)
      OBVIOUS
    <3>2. log = <<open.event, d>>
      BY <1>3
    <3>. QED BY <3>1, <3>2
  <2>. QED BY <2>1, <2>2, LogGoesOn
<1>5. ASSUME NEW cap \in Caps PROVE Folded(cap, log) = LiveWith(scores)
  <2>. DEFINE zero == [s \in Seat |-> 0]
              b == Game(0, "discard", zero, Empty, Empty, Empty, NoCard, <<>>, 0,
                        NoneGone, 0, NoSeat)
  <2>1. Folded(cap, <<>>) = b
    BY FoldedOfNothing DEF Blank, Game
  <2>. HIDE DEF zero
  <2>2. \E x : Reduce(cap, b, open.event)
                 = Game(x, "discard", scores, Empty, Empty, Empty, NoCard, <<>>, 0,
                        NoneGone, 0, NoSeat)
    <3>1. CASE open \in {[dealer |-> st.dealer, scores |-> st.scores,
                          event |-> Handicap(st.scores)] : st \in Starts}
      <4>1. open.event = Handicap(scores)
        BY <1>3, <3>1
      <4>. QED BY <4>1, ReduceHandicap
    <3>2. CASE open \in {[dealer |-> LowerCut(cut), scores |-> [s \in Seat |-> 0],
                          event |-> CutForDeal(LowerCut(cut))] :
                           cut \in {c \in Cuts : c[0].rank # c[1].rank}}
      <4>1. open.event = CutForDeal(open.dealer) /\ scores = zero
        BY <1>3, <3>2 DEF zero
      <4>. QED BY <4>1, ReduceCut
    <3>. QED BY <3>1, <3>2 DEF Openings
  <2>3. PICK x : Reduce(cap, b, open.event)
                   = Game(x, "discard", scores, Empty, Empty, Empty, NoCard, <<>>, 0,
                          NoneGone, 0, NoSeat)
    BY <2>2
  <2>4. Folded(cap, Append(<<>>, open.event)) = Reduce(cap, b, open.event)
    <3>. HIDE DEF b
    <3>. QED BY <2>1, FoldedOfNothing, FoldedGoesOn
  <2>5. Folded(cap, log) = Reduce(cap, Reduce(cap, b, open.event), d)
    <3>. HIDE DEF b, d
    <3>. QED BY <1>4, <2>4, FoldedGoesOn
  <2>6. Reduce(cap, Reduce(cap, b, open.event), d)
          = Game(dealer, "discard", scores, hs, Empty, Empty, NoCard, <<>>, 0,
                 NoneGone, dealer, NoSeat)
    <3>. HIDE DEF b
    <3>. QED BY <2>3, ReduceDeal
  <2>. QED BY <1>3, <2>5, <2>6 DEF LiveWith
<1>6. Alike(Target, scores, scores, winner) /\ Alike(0, scores, scores, winner)
  BY <1>2 DEF Alike
<1>. QED BY <1>2, <1>4, <1>5, <1>6 DEF TellInv, Caps

THEOREM HistoryInvariant == HistorySpec => [](GameInv /\ TellInv)
<1>1. HistoryInit => GameInv /\ TellInv
  BY InitInv, HistoryInitInv DEF HistoryInit
<1>2. GameInv /\ TellInv /\ [HistoryNext]_historyVars => (GameInv /\ TellInv)'
  BY HistoryIsLogged, LoggedIsNext, NextInv, HistoryInvNext
<1>. QED BY <1>1, <1>2, PTL DEF HistorySpec

(***************************************************************************)
(* Restoring a game from its log, at any moment and after any command,     *)
(* gives the live game.                                                    *)
(***************************************************************************)
THEOREM RestoredIsLive == HistorySpec => []RestoreIsLive
<1>1. TellInv => RestoreIsLive
  <2>. SUFFICES ASSUME TellInv PROVE RestoreIsLive
    OBVIOUS
  <2>1. \E sc \in [Seat -> Nat] : Folded(Target, log) = LiveWith(sc) /\ sc = scores
    BY DEF TellInv, Caps, Alike
  <2>. QED BY <2>1 DEF RestoreIsLive, Restored, Live, LiveWith, Game
<1>. QED BY <1>1, HistoryInvariant, PTL

-----------------------------------------------------------------------------
(***************************************************************************)
(* What a command adds to the log: its own event, and after it only events *)
(* that follow from it.                                                    *)
(***************************************************************************)
Scores(e) == e.type \in {"starter_cut", "card_played", "go_awarded", "hand_shown", "crib_shown"}

\* An event is one of the engine's.
Made(e) ==
  \/ \E dl, hs : e = HandDealt(dl, hs)
  \/ \E s, two : e = DiscardedBy(s, two)
  \/ \E c, h : e = StarterCut(c, h)
  \/ \E s, c, p : e = CardPlayed(s, c, p)
  \/ \E s : e = Pass(s) \/ e = GoAwarded(s) \/ e = SeriesReset(s) \/ e = GameWon(s)
  \/ \E s, cs, p : e = HandShown(s, cs, p)
  \/ \E cs, p : e = CribShown(cs, p)
  \/ \E s, cs, b : e = ShowNotCounted(s, cs, b)

FollowUp(e) ==
  /\ e.type \in {"starter_cut", "pass", "go_awarded", "series_reset", "hand_shown",
                 "crib_shown", "game_won", "show_not_counted", "hand_dealt"}
  /\ Scores(e) => e.points \in Nat
  /\ Made(e)

Command(e) ==
  /\ e.type \in {"discarded", "card_played"}
  /\ Scores(e) => e.points \in Nat
  /\ Made(e)

\* How far a hand has come with an event: it is dealt, cards are thrown, it is
\* played, it is counted, or the game is over.
Stage(e) ==
  CASE e.type = "hand_dealt"                       -> "deal"
    [] e.type = "discarded"                        -> "throw"
    [] e.type \in {"hand_shown", "crib_shown"}     -> "show"
    [] e.type \in {"game_won", "show_not_counted"} -> "end"
    [] OTHER                                       -> "play"

\* Whether the event e may come next.
May(stage, e) ==
  \/ stage = "deal" /\ e.type \in {"discarded", "card_played"}
  \/ stage = "throw" /\ e.type \in {"discarded", "card_played", "starter_cut"}
  \/ stage = "play" /\ e.type \notin {"starter_cut", "show_not_counted"}
  \/ stage = "show" /\ e.type \in {"hand_shown", "crib_shown", "hand_dealt", "game_won"}
  \/ stage = "end" /\ e.type = "show_not_counted"

\* ev is the event e and what follows from it.
Led(ev, e) ==
  \E S : /\ ev \in Seq(S) /\ Len(ev) >= 1 /\ ev[1] = e
         /\ \A i \in 2..Len(ev) : FollowUp(ev[i])
         /\ \A i \in 2..Len(ev) : May(Stage(ev[i - 1]), ev[i])

\* And has come so far.
LedTo(ev, e, stage) == Led(ev, e) /\ Stage(ev[Len(ev)]) = stage

LEMMA FollowUps ==
  /\ \A c : \A h \in Nat : FollowUp(StarterCut(c, h))
  /\ \A s : FollowUp(Pass(s)) /\ FollowUp(GoAwarded(s))
  /\ \A l : FollowUp(SeriesReset(l)) /\ FollowUp(GameWon(l))
  /\ \A s, cs, b : FollowUp(ShowNotCounted(s, cs, b))
  /\ \A dl, hs : FollowUp(HandDealt(dl, hs))
  /\ \A s, cs : \A p \in Nat : FollowUp(HandShown(s, cs, p)) /\ FollowUp(CribShown(cs, p))
<1>1. /\ \A c, h : Made(StarterCut(c, h))
      /\ \A s : Made(Pass(s)) /\ Made(GoAwarded(s)) /\ Made(SeriesReset(s)) /\ Made(GameWon(s))
      /\ \A s, cs, b : Made(ShowNotCounted(s, cs, b))
      /\ \A dl, hs : Made(HandDealt(dl, hs))
      /\ \A s, cs, p : Made(HandShown(s, cs, p))
      /\ \A cs, p : Made(CribShown(cs, p))
  BY Zenon DEF Made
<1>. QED BY <1>1 DEF FollowUp, Scores, StarterCut, Pass, GoAwarded, SeriesReset, GameWon,
            ShowNotCounted, HandDealt, HandShown, CribShown

LEMMA Commands ==
  /\ \A s, two : Command(DiscardedBy(s, two))
  /\ \A s, c : \A p \in Nat : Command(CardPlayed(s, c, p))
<1>1. /\ \A s, two : Made(DiscardedBy(s, two))
      /\ \A s, c, p : Made(CardPlayed(s, c, p))
  BY Zenon DEF Made
<1>. QED BY <1>1 DEF Command, Scores, DiscardedBy, CardPlayed

LEMMA Stages ==
  /\ \A c, h : Stage(StarterCut(c, h)) = "play" /\ May("throw", StarterCut(c, h))
  /\ \A s : /\ Stage(Pass(s)) = "play" /\ May("play", Pass(s))
            /\ Stage(GoAwarded(s)) = "play" /\ May("play", GoAwarded(s))
            /\ Stage(SeriesReset(s)) = "play" /\ May("play", SeriesReset(s))
  /\ \A s : /\ Stage(GameWon(s)) = "end" /\ May("play", GameWon(s)) /\ May("show", GameWon(s))
  /\ \A s, cs, b : /\ Stage(ShowNotCounted(s, cs, b)) = "end"
                   /\ May("end", ShowNotCounted(s, cs, b))
  /\ \A dl, hs : Stage(HandDealt(dl, hs)) = "deal" /\ May("show", HandDealt(dl, hs))
  /\ \A s, cs, p : /\ Stage(HandShown(s, cs, p)) = "show"
                   /\ May("play", HandShown(s, cs, p)) /\ May("show", HandShown(s, cs, p))
  /\ \A cs, p : Stage(CribShown(cs, p)) = "show" /\ May("show", CribShown(cs, p))
  /\ \A s, two : Stage(DiscardedBy(s, two)) = "throw"
  /\ \A s, c, p : Stage(CardPlayed(s, c, p)) = "play"
BY DEF Stage, May, StarterCut, Pass, GoAwarded, SeriesReset, GameWon, ShowNotCounted,
   HandDealt, HandShown, CribShown, DiscardedBy, CardPlayed

LEMMA LedOne == ASSUME NEW e PROVE LedTo(<<e>>, e, Stage(e))
<1>1. PICK S : S = {e}
  OBVIOUS
<1>2. <<e>> \in Seq(S) /\ Len(<<e>>) = 1 /\ <<e>>[1] = e
  BY <1>1
<1>. QED BY <1>2 DEF Led, LedTo

LEMMA LedMore ==
  ASSUME NEW ev, NEW e, NEW stage, LedTo(ev, e, stage), NEW x, FollowUp(x), May(stage, x)
  PROVE  LedTo(Append(ev, x), e, Stage(x))
<1>. DEFINE n == Append(ev, x)
<1>1. PICK S : /\ ev \in Seq(S) /\ Len(ev) >= 1 /\ ev[1] = e
               /\ \A i \in 2..Len(ev) : FollowUp(ev[i])
               /\ \A i \in 2..Len(ev) : May(Stage(ev[i - 1]), ev[i])
  BY DEF Led, LedTo
<1>2. /\ n \in Seq(S \cup {x}) /\ Len(ev) \in Nat /\ Len(n) = Len(ev) + 1
      /\ n[Len(ev) + 1] = x /\ \A i \in 1..Len(ev) : n[i] = ev[i]
  BY <1>1, AppendFacts
<1>. HIDE DEF n
<1>3. ASSUME NEW i \in 2..Len(n) PROVE FollowUp(n[i]) /\ May(Stage(n[i - 1]), n[i])
  <2>1. CASE i \in 2..Len(ev)
    <3>1. i \in 1..Len(ev) /\ i - 1 \in 1..Len(ev)
      BY <1>2, <2>1
    <3>. QED BY <1>1, <1>2, <2>1, <3>1
  <2>2. CASE i = Len(ev) + 1
    <3>1. i - 1 = Len(ev) /\ Len(ev) \in 1..Len(ev)
      BY <1>1, <1>2, <2>2
    <3>2. n[i - 1] = ev[Len(ev)] /\ n[i] = x
      BY <1>2, <2>2, <3>1
    <3>. QED BY <3>2 DEF LedTo
  <2>. QED BY <1>2, <2>1, <2>2
<1>4. Len(n) >= 1 /\ n[1] = e /\ n[Len(n)] = x
  BY <1>1, <1>2
<1>5. LedTo(n, e, Stage(x))
  BY <1>2, <1>3, <1>4 DEF Led, LedTo
<1>. QED BY <1>5 DEF n

LEMMA LedReveals ==
  ASSUME NEW ev, NEW e, LedTo(ev, e, "end"), NEW reveals, Reveals(reveals)
  PROVE  Led(ev \o reveals, e)
<1>1. PICK S : ev \in Seq(S)
  BY DEF Led, LedTo
<1>. DEFINE Turns(a) == FollowUp(a) /\ May("end", a) /\ Stage(a) = "end"
<1>2. \A s, cs, b : Turns(ShowNotCounted(s, cs, b))
  BY FollowUps, Stages
<1>3. CASE reveals = <<>>
  BY <1>1, <1>3, JoinIsAppend DEF LedTo
<1>4. ASSUME NEW a, Turns(a), reveals = <<a>>
      PROVE  Led(ev \o reveals, e)
  <2>1. LedTo(Append(ev, a), e, "end")
    BY <1>4, LedMore
  <2>2. ev \o reveals = Append(ev, a)
    BY <1>1, <1>4, JoinIsAppend
  <2>. QED BY <2>1, <2>2 DEF LedTo
<1>5. ASSUME NEW a, Turns(a), NEW b, Turns(b), reveals = <<a, b>>
      PROVE  Led(ev \o reveals, e)
  <2>1. LedTo(Append(ev, a), e, "end")
    BY <1>5, LedMore
  <2>. DEFINE more == Append(ev, a)
  <2>. HIDE DEF more
  <2>2. LedTo(Append(more, b), e, "end")
    BY <1>5, <2>1, LedMore DEF more
  <2>3. ev \o reveals = Append(more, b)
    BY <1>1, <1>5, JoinIsAppend DEF more
  <2>. QED BY <2>2, <2>3 DEF LedTo
<1>. HIDE DEF Turns
<1>. QED BY <1>2, <1>3, <1>4, <1>5 DEF Reveals

LEMMA LedWin ==
  ASSUME NEW ev, NEW e, NEW stage \in {"play", "show"}, LedTo(ev, e, stage),
         NEW reveals, Reveals(reveals), NEW s, NEW sc, WinsWith(s, sc, ev, reveals)
  PROVE  Led(out', e)
<1>. DEFINE all == Append(ev, GameWon(s))
<1>1. LedTo(all, e, "end")
  <2>1. FollowUp(GameWon(s)) /\ May(stage, GameWon(s)) /\ Stage(GameWon(s)) = "end"
    BY FollowUps, Stages
  <2>2. LedTo(all, e, Stage(GameWon(s)))
    BY <2>1, LedMore
  <2>. QED BY <2>1, <2>2
<1>. HIDE DEF all
<1>2. Led(all \o reveals, e)
  BY <1>1, LedReveals
<1>. QED BY <1>2 DEF WinsWith, all

LEMMA LedDiscard ==
  ASSUME NEW s \in Seat, NEW two \in Throws, Discard(s, two)
  PROVE  Led(out', DiscardedBy(s, two))
<1>. DEFINE e     == DiscardedBy(s, two)
            heels == IF rest.rank = Jack THEN 2 ELSE 0
            sc    == AddPoints(Target, scores, dealer, heels)
            cut   == Append(<<e>>, StarterCut(rest, heels))
<1>1. LedTo(<<e>>, e, "throw")
  BY LedOne, Stages
<1>2. LedTo(cut, e, "play")
  <2>1. /\ FollowUp(StarterCut(rest, heels)) /\ May("throw", StarterCut(rest, heels))
        /\ Stage(StarterCut(rest, heels)) = "play"
    BY FollowUps, Stages
  <2>. DEFINE x == StarterCut(rest, heels)
  <2>. HIDE DEF e, x
  <2>2. LedTo(Append(<<e>>, x), e, Stage(x))
    BY <1>1, <2>1, LedMore DEF x
  <2>. QED BY <2>1, <2>2 DEF x
<1>3. out' = <<e>> \/ out' = cut \/ WinsWith(dealer, sc, cut, <<>>)
  BY DEF Discard, CutStarter
<1>4. Reveals(<<>>)
  BY DEF Reveals
<1>. HIDE DEF e, cut, sc
<1>5. Led(out', e)
  BY <1>1, <1>2, <1>3, <1>4, LedWin DEF LedTo
<1>. QED BY <1>5 DEF e

LEMMA LedShow ==
  ASSUME GameInv, NEW s \in Seat, NEW c \in hands[s], Show(s, c), NEW e,
         LedTo(LastCardEvents(s, c), e, "play")
  PROVE  Led(out', e)
<1>. DEFINE points == ShowPoints(s, c)
            laid   == PlayedAfter(s, c)
            last   == LastCardScores(s, c)
            sc1    == AddPoints(Target, last, Pone, points.pone)
            sc2    == AddPoints(Target, sc1, dealer, points.dealer)
            sc3    == AddPoints(Target, sc2, dealer, points.crib)
            x1     == HandShown(Pone, laid[Pone], points.pone)
            x2     == HandShown(dealer, laid[dealer], points.dealer)
            x3     == CribShown(Crib, points.crib)
            ev1    == Append(LastCardEvents(s, c), x1)
            ev2    == Append(ev1, x2)
            ev3    == Append(ev2, x3)
            noCrib == ShowNotCounted(dealer, Crib, TRUE)
            reveal == <<ShowNotCounted(dealer, laid[dealer], FALSE), noCrib>>
<1>1. /\ LastCard(s, c)
      /\ \/ WinsWith(Pone, sc1, ev1, reveal)
         \/ WinsWith(dealer, sc2, ev2, <<noCrib>>)
         \/ WinsWith(dealer, sc3, ev3, <<>>)
         \/ DealHand(Pone, ev3)
  BY DEF Show, ResolveShow
<1>2. points.pone \in Nat /\ points.dealer \in Nat /\ points.crib \in Nat
  BY <1>1, ShowPointsAreNat DEF LastCard
<1>3. Reveals(<<>>) /\ Reveals(<<noCrib>>) /\ Reveals(reveal)
  BY DEF Reveals
<1>4. /\ FollowUp(x1) /\ May("play", x1) /\ Stage(x1) = "show"
      /\ FollowUp(x2) /\ May("show", x2) /\ Stage(x2) = "show"
      /\ FollowUp(x3) /\ May("show", x3) /\ Stage(x3) = "show"
  <2>. HIDE DEF points, laid
  <2>. QED BY <1>2, FollowUps, Stages
<1>. HIDE DEF points, laid, last, sc1, sc2, sc3, noCrib, reveal, x1, x2, x3
<1>5. LedTo(ev1, e, "show")
  <2>1. LedTo(ev1, e, Stage(x1))
    BY <1>4, LedMore
  <2>. QED BY <1>4, <2>1
<1>. HIDE DEF ev1
<1>6. LedTo(ev2, e, "show")
  <2>1. LedTo(ev2, e, Stage(x2))
    BY <1>4, <1>5, LedMore
  <2>. QED BY <1>4, <2>1
<1>. HIDE DEF ev2
<1>7. LedTo(ev3, e, "show")
  <2>1. LedTo(ev3, e, Stage(x3))
    BY <1>4, <1>6, LedMore
  <2>. QED BY <1>4, <2>1
<1>. HIDE DEF ev3
<1>8. CASE DealHand(Pone, ev3)
  <2>1. PICK dl, hs : out' = Append(ev3, HandDealt(dl, hs))
    BY <1>8 DEF DealHand
  <2>2. FollowUp(HandDealt(dl, hs)) /\ May("show", HandDealt(dl, hs))
    BY FollowUps, Stages
  <2>3. LedTo(out', e, Stage(HandDealt(dl, hs)))
    BY <1>7, <2>1, <2>2, LedMore
  <2>. QED BY <2>3 DEF LedTo
<1>. QED BY <1>1, <1>3, <1>5, <1>6, <1>7, <1>8, LedWin

LEMMA LedPlay ==
  ASSUME GameInv, NEW s \in Seat, NEW c \in hands[s], Play(s, c)
  PROVE  Led(out', CardPlayed(s, c, Score(pile, c)))
<1>. DEFINE e     == CardPlayed(s, c, Score(pile, c))
            down  == Down(s, c)
            pass  == down \o PassOf(Other(s))
            go    == Append(pass, GoAwarded(s))
            last  == LastCardEvents(s, c)
            reset == ResetEvent(s, c)
            Next1(x) == FollowUp(x) /\ May("play", x) /\ Stage(x) = "play"
<1>. SUFFICES Led(out', e)
  OBVIOUS
<1>1. LedTo(down, e, "play")
  BY LedOne, Stages DEF Down
<1>2. Next1(Pass(Other(s))) /\ Next1(GoAwarded(s)) /\ Next1(reset)
  BY FollowUps, Stages DEF ResetEvent
<1>3. ASSUME NEW ev, LedTo(ev, e, "play"), NEW x, Next1(x)
      PROVE  LedTo(Append(ev, x), e, "play")
  <2>1. LedTo(Append(ev, x), e, Stage(x))
    <3>. HIDE DEF e
    <3>. QED BY <1>3, LedMore
  <2>. QED BY <1>3, <2>1
<1>4. LedTo(pass, e, "play")
  <2>1. PICK S : down \in Seq(S)
    BY <1>1 DEF Led, LedTo
  <2>2. down \o PassOf(Other(s)) = down \/ down \o PassOf(Other(s)) = Append(down, Pass(Other(s)))
    <3>. HIDE DEF down
    <3>. QED BY <2>1, JoinIsAppend DEF PassOf
  <2>. HIDE DEF e, down, Next1
  <2>. QED BY <1>1, <1>2, <1>3, <2>2
<1>. HIDE DEF e, pass, reset, Next1
<1>5. LedTo(go, e, "play")
  BY <1>2, <1>3, <1>4
<1>6. LedTo(last, e, "play")
  <2>1. last = down \/ last = Append(down, GoAwarded(s))
    BY DEF LastCardEvents
  <2>. HIDE DEF last, down
  <2>. QED BY <1>1, <1>2, <1>3, <2>1
<1>7. Reveals(<<>>)
  BY DEF Reveals
<1>8. LedTo(Append(down, reset), e, "play") /\ LedTo(Append(go, reset), e, "play")
  <2>. HIDE DEF down, go
  <2>. QED BY <1>1, <1>2, <1>3, <1>5
<1>9. CASE PlayWins(s, c)
  BY <1>1, <1>7, <1>9, LedWin DEF PlayWins
<1>10. CASE PlayThenOpponent(s, c)
  BY <1>1, <1>10 DEF PlayThenOpponent, LedTo
<1>11. CASE PlayThenSamePlayer(s, c)
  BY <1>4, <1>11 DEF PlayThenSamePlayer, pass, LedTo
<1>12. CASE PlayThirtyOne(s, c)
  BY <1>8, <1>12 DEF PlayThirtyOne, LedTo, reset
<1>13. CASE PlayGo(s, c)
  <2>. DEFINE sc == AddPoints(Target, Pegged(s, c), s, 1)
  <2>1. WinsWith(s, sc, go, <<>>) \/ out' = Append(go, reset)
    BY <1>13 DEF PlayGo, pass, reset
  <2>. HIDE DEF go, sc
  <2>. QED BY <2>1, <1>5, <1>7, <1>8, LedWin DEF LedTo
<1>14. CASE LastCardWins(s, c)
  BY <1>6, <1>7, <1>14, LedWin DEF LastCardWins
<1>15. CASE Show(s, c)
  BY <1>6, <1>15, LedShow
<1>. QED BY <1>9, <1>10, <1>11, <1>12, <1>13, <1>14, <1>15 DEF Play

-----------------------------------------------------------------------------
(***************************************************************************)
(* The log as a whole: an opening, the first deal, and then commands with  *)
(* what follows from them.                                                 *)
(***************************************************************************)
Opening(e) ==
  \/ e.type = "cut_for_deal"
  \/ e.type = "handicap" /\ e.scores \in [Seat -> Nat]

LogInv ==
  /\ IsLog(log)
  /\ Len(log) >= 2
  /\ Opening(log[1])
  /\ log[2].type = "hand_dealt"
  /\ \A i \in 3..Len(log) : Command(log[i]) \/ FollowUp(log[i])

\* What an earlier part of a log is in a longer one.
LEMMA JoinedLog ==
  ASSUME NEW events, IsLog(events), NEW more, IsLog(more)
  PROVE  LET all == events \o more
         IN  /\ IsLog(all) /\ Len(events) \in Nat /\ Len(more) \in Nat
             /\ Len(all) = Len(events) + Len(more)
             /\ DOMAIN all = 1..(Len(events) + Len(more))
             /\ \A i \in 1..Len(events) : all[i] = events[i]
             /\ \A i \in 1..Len(more) : all[Len(events) + i] = more[i]
             /\ \A i \in (Len(events) + 1)..(Len(events) + Len(more)) :
                  all[i] = more[i - Len(events)]
             /\ \A i \in 0..Len(events) : SubSeq(all, 1, i) = SubSeq(events, 1, i)
             /\ SubSeq(all, 1, Len(events)) = events
<1>1. PICK E, F : events \in Seq(E) /\ more \in Seq(F)
  BY DEF IsLog
<1>. DEFINE T == E \cup F
            all == events \o more
<1>2. events \in Seq(T) /\ more \in Seq(T)
  BY <1>1
<1>. HIDE DEF T
<1>3. /\ all \in Seq(T) /\ Len(events) \in Nat /\ Len(more) \in Nat
      /\ Len(all) = Len(events) + Len(more)
      /\ DOMAIN all = 1..(Len(events) + Len(more))
      /\ \A i \in 1..Len(events) : all[i] = events[i]
      /\ \A i \in (Len(events) + 1)..(Len(events) + Len(more)) :
           all[i] = more[i - Len(events)]
  BY <1>2
<1>. HIDE DEF all
<1>4. ASSUME NEW i \in 1..Len(more) PROVE all[Len(events) + i] = more[i]
  <2>1. /\ Len(events) + i \in (Len(events) + 1)..(Len(events) + Len(more))
        /\ (Len(events) + i) - Len(events) = i
    BY <1>3
  <2>. QED BY <1>3, <2>1
<1>5. ASSUME NEW i \in 0..Len(events) PROVE SubSeq(all, 1, i) = SubSeq(events, 1, i)
  <2>1. SubSeq(all, 1, i) \in Seq(T) /\ SubSeq(events, 1, i) \in Seq(T)
    BY <1>2, <1>3
  <2>2. Len(SubSeq(all, 1, i)) = i /\ Len(SubSeq(events, 1, i)) = i
    BY <1>2, <1>3
  <2>3. \A j \in 1..i : SubSeq(all, 1, i)[j] = SubSeq(events, 1, i)[j]
    BY <1>2, <1>3
  <2>. QED BY <2>1, <2>2, <2>3
<1>6. SubSeq(all, 1, Len(events)) = events
  <2>1. SubSeq(events, 1, Len(events)) = events
    BY <1>2
  <2>. QED BY <1>3, <1>5, <2>1
<1>. QED BY <1>3, <1>4, <1>5, <1>6 DEF IsLog, all

LEMMA LogInvGoesOn ==
  ASSUME LogInv, NEW e, Command(e), Led(out', e), log' = log \o out'
  PROVE  LogInv'
<1>1. PICK S : /\ out' \in Seq(S) /\ Len(out') >= 1 /\ out'[1] = e
               /\ \A i \in 2..Len(out') : FollowUp(out'[i])
  BY DEF Led
<1>2. /\ IsLog(log') /\ Len(log) \in Nat /\ Len(out') \in Nat
      /\ Len(log') = Len(log) + Len(out')
      /\ \A i \in 1..Len(log) : log'[i] = log[i]
      /\ \A i \in (Len(log) + 1)..(Len(log) + Len(out')) : log'[i] = out'[i - Len(log)]
  <2>1. IsLog(out')
    BY <1>1 DEF IsLog
  <2>. QED BY <2>1, JoinedLog DEF LogInv
<1>3. ASSUME NEW i \in 3..Len(log') PROVE Command(log'[i]) \/ FollowUp(log'[i])
  <2>1. CASE i <= Len(log)
    <3>1. i \in 3..Len(log) /\ i \in 1..Len(log)
      BY <1>2, <2>1
    <3>. QED BY <1>2, <3>1 DEF LogInv
  <2>2. CASE i > Len(log)
    <3>1. /\ i \in (Len(log) + 1)..(Len(log) + Len(out'))
          /\ i - Len(log) = 1 \/ i - Len(log) \in 2..Len(out')
      <4>. DEFINE l == Len(log)
                  n == Len(out')
      <4>1. i \in 3..(l + n) /\ i > l /\ l \in Nat /\ n \in Nat
        BY <1>2, <2>2
      <4>. HIDE DEF l, n
      <4>2. i \in (l + 1)..(l + n) /\ (i - l = 1 \/ i - l \in 2..n)
        BY ONLY <4>1
      <4>. QED BY <4>2 DEF l, n
    <3>. QED BY <1>1, <1>2, <3>1
  <2>. QED BY <1>2, <2>1, <2>2
<1>4. Len(log') >= 2 /\ log'[1] = log[1] /\ log'[2] = log[2]
  BY <1>2 DEF LogInv
<1>. QED BY <1>2, <1>3, <1>4 DEF LogInv

LEMMA LogInvNext == GameInv /\ LogInv /\ Logged => LogInv'
<1>. SUFFICES ASSUME GameInv, LogInv, Logged PROVE LogInv'
  OBVIOUS
<1>1. ASSUME NEW s \in Seat, NEW two \in Throws, Discard(s, two), log' = log \o out'
      PROVE  LogInv'
  <2>1. Command(DiscardedBy(s, two))
    BY Commands
  <2>. QED BY <1>1, <2>1, LedDiscard, LogInvGoesOn
<1>2. ASSUME NEW s \in Seat, NEW c \in hands[s], Play(s, c), log' = log \o out'
      PROVE  LogInv'
  <2>1. Score(pile, c) \in Nat
    BY <1>2, PlayMovesSeries, LayFacts
  <2>2. Command(CardPlayed(s, c, Score(pile, c)))
    BY <2>1, Commands
  <2>. QED BY <1>2, <2>2, LedPlay, LogInvGoesOn
<1>3. CASE UNCHANGED log
  BY <1>3 DEF LogInv
<1>. QED BY <1>1, <1>2, <1>3 DEF Logged

LEMMA InitLogInv == HistoryInit => LogInv
<1>. SUFFICES ASSUME HistoryInit PROVE LogInv
  OBVIOUS
<1>1. PICK open \in Openings, deck \in Decks :
        log = <<open.event, HandDealt(open.dealer, DealtHands(deck, open.dealer))>>
  BY DEF HistoryInit, Init
<1>. DEFINE d == HandDealt(open.dealer, DealtHands(deck, open.dealer))
<1>2. d.type = "hand_dealt"
  BY DEF HandDealt
<1>3. Opening(open.event)
  <2>1. CASE open \in {[dealer |-> st.dealer, scores |-> st.scores,
                        event |-> Handicap(st.scores)] : st \in Starts}
    <3>1. PICK st \in Starts : open.event = Handicap(st.scores)
      BY <2>1
    <3>2. st.scores \in [Seat -> Nat]
      BY StartsAssumption, TargetAssumption
    <3>. QED BY <3>1, <3>2 DEF Opening, Handicap
  <2>2. CASE open \in {[dealer |-> LowerCut(cut), scores |-> [s \in Seat |-> 0],
                        event |-> CutForDeal(LowerCut(cut))] :
                         cut \in {c \in Cuts : c[0].rank # c[1].rank}}
    <3>1. open.event.type = "cut_for_deal"
      BY <2>2 DEF CutForDeal
    <3>. QED BY <3>1 DEF Opening
  <2>. QED BY <2>1, <2>2 DEF Openings
<1>. HIDE DEF d
<1>4. PICK S : S = {open.event, d}
  OBVIOUS
<1>5. log = <<open.event, d>>
  BY <1>1 DEF d
<1>6. log \in Seq(S) /\ Len(log) = 2 /\ log[1] = open.event /\ log[2] = d
  BY <1>4, <1>5
<1>. QED BY <1>2, <1>3, <1>6 DEF LogInv, IsLog

LEMMA LogIsKept == HistorySpec => [](GameInv /\ TellInv /\ LogInv)
<1>1. HistoryInit => LogInv
  BY InitLogInv
<1>2. GameInv /\ LogInv /\ [HistoryNext]_historyVars => LogInv'
  BY HistoryIsLogged, LogInvNext
<1>. QED BY <1>1, <1>2, HistoryInvariant, PTL DEF HistorySpec

-----------------------------------------------------------------------------
(***************************************************************************)
(* The analysis.  A longer log gives back the same decisions, and one more *)
(* when the command was a play: the view of the live game.                 *)
(***************************************************************************)

LEMMA ReconstructedGoesOn ==
  ASSUME LogInv, NEW e, Led(out', e), log' = log \o out'
  PROVE  LET new == [deal   |-> DealsBefore(log, Len(log) + 1) - 1,
                     seat   |-> e.seat,
                     view   |-> View(Folded(0, log), Len(log), e.seat),
                     played |-> e.card]
         IN  Reconstructed(log') =
               IF e.type = "card_played" THEN Reconstructed(log) \cup {new}
                                         ELSE Reconstructed(log)
<1>. DEFINE l   == Len(log)
            all == log \o out'
            new == [deal   |-> DealsBefore(log, l + 1) - 1,
                    seat   |-> e.seat,
                    view   |-> View(Folded(0, log), l, e.seat),
                    played |-> e.card]
<1>1. PICK S : /\ out' \in Seq(S) /\ Len(out') >= 1 /\ out'[1] = e
               /\ \A i \in 2..Len(out') : FollowUp(out'[i])
  BY DEF Led
<1>2. /\ l \in Nat /\ Len(out') \in Nat
      /\ DOMAIN log = 1..l /\ DOMAIN all = 1..(l + Len(out'))
      /\ \A i \in 1..l : all[i] = log[i]
      /\ \A i \in (l + 1)..(l + Len(out')) : all[i] = out'[i - l]
      /\ \A i \in 0..l : SubSeq(all, 1, i) = SubSeq(log, 1, i)
      /\ SubSeq(all, 1, l) = log
  <2>. DEFINE more == out'
  <2>1. IsLog(more) /\ IsLog(log)
    BY <1>1 DEF IsLog, LogInv
  <2>2. DOMAIN log = 1..l
    BY <2>1, LogFacts
  <2>. HIDE DEF more
  <2>3. /\ Len(log) \in Nat /\ Len(more) \in Nat
        /\ DOMAIN (log \o more) = 1..(Len(log) + Len(more))
        /\ \A i \in 1..Len(log) : (log \o more)[i] = log[i]
        /\ \A i \in (Len(log) + 1)..(Len(log) + Len(more)) :
             (log \o more)[i] = more[i - Len(log)]
        /\ \A i \in 0..Len(log) : SubSeq(log \o more, 1, i) = SubSeq(log, 1, i)
        /\ SubSeq(log \o more, 1, Len(log)) = log
    BY ONLY <2>1, JoinedLog
  <2>. QED BY ONLY <2>2, <2>3 DEF l, all, more
<1>3. log' = all
  OBVIOUS
<1>. HIDE DEF all, l
<1>4. all[l + 1] = e
  <2>1. l + 1 \in (l + 1)..(l + Len(out')) /\ (l + 1) - l = 1
    BY <1>1, <1>2
  <2>. QED BY <1>1, <1>2, <2>1
<1>5. Plays(all) = Plays(log) \cup (IF e.type = "card_played" THEN {l + 1} ELSE {})
  <2>1. ASSUME NEW i \in (l + 2)..(l + Len(out')) PROVE all[i].type # "card_played"
    <3>1. i \in (l + 1)..(l + Len(out')) /\ i - l \in 2..Len(out')
      BY <1>2, <2>1
    <3>2. all[i] = out'[i - l] /\ FollowUp(out'[i - l])
      BY <1>1, <1>2, <3>1
    <3>. QED BY <3>2 DEF FollowUp
  <2>2. \A i \in DOMAIN all : i \in 1..l \/ i = l + 1 \/ i \in (l + 2)..(l + Len(out'))
    BY <1>2
  <2>3. 1..l \subseteq DOMAIN all /\ l + 1 \in DOMAIN all
    BY <1>1, <1>2
  <2>. QED BY <1>2, <1>4, <2>1, <2>2, <2>3 DEF Plays
<1>6. ASSUME NEW i \in 1..(l + 1)
      PROVE  DealsBefore(all, i) = DealsBefore(log, i)
  <2>1. \A j \in 1..(i - 1) : j \in 1..l
    BY <1>2
  <2>2. {j \in 1..(i - 1) : all[j].type = "hand_dealt"}
          = {j \in 1..(i - 1) : log[j].type = "hand_dealt"}
    BY <1>2, <2>1
  <2>. QED BY <2>2 DEF DealsBefore
<1>7. ASSUME NEW i \in Plays(log) PROVE Decision(all, i) = Decision(log, i)
  <2>1. i \in 1..l /\ i \in 1..(l + 1) /\ i - 1 \in 0..l
    BY <1>2 DEF Plays
  <2>2. all[i] = log[i] /\ SubSeq(all, 1, i - 1) = SubSeq(log, 1, i - 1)
    BY <1>2, <2>1
  <2>3. DealsBefore(all, i) = DealsBefore(log, i)
    BY <1>6, <2>1
  <2>. QED BY <2>2, <2>3 DEF Decision, Before
<1>8. Decision(all, l + 1) = new
  <2>1. (l + 1) - 1 = l /\ l + 1 \in 1..(l + 1)
    BY <1>2
  <2>2. DealsBefore(all, l + 1) = DealsBefore(log, l + 1)
    BY <1>6, <2>1
  <2>3. Before(all, l + 1) = Folded(0, log)
    BY <1>2, <2>1 DEF Before
  <2>. QED BY <1>4, <2>1, <2>2, <2>3 DEF Decision
<1>. HIDE DEF new
<1>9. Reconstructed(all) = IF e.type = "card_played" THEN Reconstructed(log) \cup {new}
                                                     ELSE Reconstructed(log)
  BY <1>5, <1>7, <1>8 DEF Reconstructed
<1>. QED BY <1>3, <1>9 DEF new, l

SeenInv ==
  /\ Reconstructed(log) = decided
  /\ \A d \in decided : LegalDecision(d)

\* The play that is being made is legal in the view it is made from.
LEMMA LivePlayIsLegal ==
  ASSUME NEW s, NEW c, LegalPlay(s, c), NEW deal, NEW version
  PROVE  LegalDecision([deal |-> deal, seat |-> s, view |-> View(Live, version, s),
                        played |-> c])
<1>1. /\ Live.phase = "play" /\ Live.hands = hands /\ Live.count = count
      /\ Live.gone = gone /\ Live.lastPlayer = lastPlayer
  BY DEF LegalPlay, Live
<1>2. TurnIn(Live) = s
  BY <1>1 DEF TurnIn, LegalPlay, Turn, CanPlay
<1>. DEFINE v == View(Live, version, s)
<1>3. v.phase = "play" /\ v.toPlay = s /\ v.legalPlays = {x \in hands[s] : Fits(x, count)}
  <2>. HIDE DEF Live
  <2>. QED BY <1>1, <1>2 DEF View
<1>. HIDE DEF v
<1>4. LegalDecision([deal |-> deal, seat |-> s, view |-> v, played |-> c])
  BY <1>3 DEF LegalDecision, LegalPlay
<1>. QED BY <1>4 DEF v

LEMMA SeenInvNext ==
  GameInv /\ TellInv /\ LogInv /\ SeenInv /\ [HistoryNext]_historyVars => SeenInv'
<1>. SUFFICES ASSUME GameInv, TellInv, LogInv, SeenInv, [HistoryNext]_historyVars
              PROVE  SeenInv'
  OBVIOUS
<1>1. ASSUME NEW s \in Seat, NEW two \in Throws, LoggedDiscard(s, two) PROVE SeenInv'
  <2>1. /\ Led(out', DiscardedBy(s, two)) /\ log' = log \o out' /\ decided' = decided
    BY <1>1, LedDiscard DEF LoggedDiscard
  <2>2. DiscardedBy(s, two).type # "card_played"
    BY DEF DiscardedBy
  <2>3. Reconstructed(log') = Reconstructed(log)
    BY <2>1, <2>2, ReconstructedGoesOn
  <2>. QED BY <2>1, <2>3 DEF SeenInv
<1>2. ASSUME NEW s \in Seat, NEW c \in hands[s], LoggedPlay(s, c) PROVE SeenInv'
  <2>. DEFINE e   == CardPlayed(s, c, Score(pile, c))
              new == [deal |-> DealsBefore(log, Len(log) + 1) - 1, seat |-> s,
                      view |-> View(Live, Len(log), s), played |-> c]
  <2>1. Play(s, c) /\ log' = log \o out' /\ decided' = decided \cup {new}
    BY <1>2 DEF LoggedPlay
  <2>2. LegalPlay(s, c) /\ winner = NoSeat
    BY <2>1, PlayMovesSeries, LayFacts
  <2>3. Folded(0, log) = Live
    BY <2>2, OnTheGo DEF Caps, Live, LiveWith, Game
  <2>4. e.type = "card_played" /\ e.seat = s /\ e.card = c
    BY DEF CardPlayed
  <2>5. Led(out', e)
    BY <2>1, LedPlay
  <2>. HIDE DEF e
  <2>6. Reconstructed(log') = Reconstructed(log) \cup {new}
    BY <2>1, <2>3, <2>4, <2>5, ReconstructedGoesOn
  <2>7. LegalDecision(new)
    BY <2>2, LivePlayIsLegal
  <2>. HIDE DEF new
  <2>. QED BY <2>1, <2>6, <2>7 DEF SeenInv
<1>3. CASE UNCHANGED <<log, decided>>
  BY <1>3 DEF SeenInv
<1>. QED BY <1>1, <1>2, <1>3 DEF HistoryNext, historyVars

LEMMA InitSeen == HistoryInit => SeenInv
<1>. SUFFICES ASSUME HistoryInit PROVE SeenInv
  OBVIOUS
<1>1. LogInv /\ decided = {} /\ log = out
  BY InitLogInv DEF HistoryInit
<1>2. Len(log) = 2 /\ DOMAIN log = 1..2
  BY <1>1 DEF HistoryInit, Init
<1>3. log[1].type # "card_played" /\ log[2].type # "card_played"
  BY <1>1 DEF LogInv, Opening
<1>4. Plays(log) = {}
  BY <1>2, <1>3 DEF Plays
<1>. QED BY <1>1, <1>4 DEF SeenInv, Reconstructed

(***************************************************************************)
(* The analysis folds a log without knowing the target, and finds for each *)
(* card played the view it was played from and nothing to refuse: at every *)
(* moment of the game, and so of a finished one.                           *)
(***************************************************************************)
THEOREM AnalysisSeesTheGame == HistorySpec => []AnalysisSeesWhatThePlayerSaw
<1>1. GameInv /\ TellInv /\ LogInv /\ SeenInv /\ [HistoryNext]_historyVars => SeenInv'
  BY SeenInvNext
<1>2. SeenInv => AnalysisSeesWhatThePlayerSaw
  BY DEF SeenInv, AnalysisSeesWhatThePlayerSaw
<1>. QED BY <1>1, <1>2, InitSeen, LogIsKept, PTL DEF HistorySpec

-----------------------------------------------------------------------------
(***************************************************************************)
(* The statistics.  Along the log, what a seat is credited with and what   *)
(* it had at the start are the score of the fold without a target, event   *)
(* by event; and that score is the live one, but for the excess of the     *)
(* winner's last award.                                                    *)
(***************************************************************************)
Fields == {"dealer", "phase", "scores", "hands", "played", "thrown", "starter", "pile",
           "count", "gone", "lastPlayer", "winner"}

IsGame(g) == DOMAIN g = Fields /\ g = [x \in Fields |-> g[x]]

\* What an event of the log does to the dealer and the scores of a game.
LEMMA ReduceScores ==
  ASSUME NEW g, IsGame(g), NEW e, Command(e) \/ FollowUp(e)
  PROVE  LET h == Reduce(0, g, e)
         IN  /\ IsGame(h)
             /\ h.dealer = IF e.type = "hand_dealt" THEN e.dealer ELSE g.dealer
             /\ h.scores =
                  IF e.type \in {"starter_cut", "crib_shown"}
                    THEN AddPoints(0, g.scores, g.dealer, e.points)
                    ELSE IF e.type \in {"card_played", "go_awarded", "hand_shown"}
                      THEN AddPoints(0, g.scores, e.seat, e.points)
                      ELSE g.scores
<1>. DEFINE h == Reduce(0, g, e)
            P == /\ IsGame(h)
                 /\ h.dealer = IF e.type = "hand_dealt" THEN e.dealer ELSE g.dealer
                 /\ h.scores =
                      IF e.type \in {"starter_cut", "crib_shown"}
                        THEN AddPoints(0, g.scores, g.dealer, e.points)
                        ELSE IF e.type \in {"card_played", "go_awarded", "hand_shown"}
                          THEN AddPoints(0, g.scores, e.seat, e.points)
                          ELSE g.scores
<1>. SUFFICES P
  OBVIOUS
<1>1. ASSUME NEW s, NEW p
      PROVE  LET k == Scored(0, g, s, p)
             IN  IsGame(k) /\ k.dealer = g.dealer /\ k.scores = AddPoints(0, g.scores, s, p)
  BY DEF Scored, IsGame, Fields
<1>2. CASE e.type = "hand_dealt"
  <2>1. h = [Blank EXCEPT !.dealer = e.dealer, !.hands = e.hands, !.scores = g.scores,
                          !.lastPlayer = e.dealer, !.winner = g.winner]
    BY <1>2 DEF Reduce
  <2>2. IsGame(h) /\ h.dealer = e.dealer /\ h.scores = g.scores
    <3>. HIDE DEF h
    <3>. QED BY <2>1 DEF Blank, IsGame, Fields
  <2>. QED BY <1>2, <2>2
<1>3. CASE e.type = "discarded"
  <2>1. h = [g EXCEPT !.hands[e.seat] = @ \ e.cards, !.thrown[e.seat] = e.cards]
    BY <1>3 DEF Reduce
  <2>2. IsGame(h) /\ h.dealer = g.dealer /\ h.scores = g.scores
    <3>. HIDE DEF h
    <3>. QED BY <2>1 DEF IsGame, Fields
  <2>. QED BY <1>3, <2>2
<1>4. CASE e.type = "starter_cut"
  <2>. DEFINE k == Scored(0, g, g.dealer, e.points)
  <2>1. h = [k EXCEPT !.starter = e.card, !.phase = "play"]
    BY <1>4 DEF Reduce
  <2>2. IsGame(k) /\ k.dealer = g.dealer /\ k.scores = AddPoints(0, g.scores, g.dealer, e.points)
    BY <1>1
  <2>3. IsGame(h) /\ h.dealer = k.dealer /\ h.scores = k.scores
    <3>. HIDE DEF h, k
    <3>. QED BY <2>1, <2>2 DEF IsGame, Fields
  <2>. HIDE DEF h, k
  <2>. QED BY <1>4, <2>2, <2>3
<1>5. CASE e.type = "card_played"
  <2>. DEFINE k == LayCard(g, e)
  <2>1. h = Scored(0, k, e.seat, e.points)
    BY <1>5 DEF Reduce
  <2>2. IsGame(k) /\ k.dealer = g.dealer /\ k.scores = g.scores
    BY DEF LayCard, IsGame, Fields
  <2>3. IsGame(h) /\ h.dealer = k.dealer /\ h.scores = AddPoints(0, k.scores, e.seat, e.points)
    <3>. HIDE DEF h, k
    <3>. QED BY <2>1, <2>2 DEF Scored, IsGame, Fields
  <2>. HIDE DEF h, k
  <2>. QED BY <1>5, <2>2, <2>3
<1>6. CASE e.type = "pass"
  <2>1. h = [g EXCEPT !.gone[e.seat] = TRUE]
    BY <1>6 DEF Reduce
  <2>2. IsGame(h) /\ h.dealer = g.dealer /\ h.scores = g.scores
    <3>. HIDE DEF h
    <3>. QED BY <2>1 DEF IsGame, Fields
  <2>. QED BY <1>6, <2>2
<1>7. CASE e.type \in {"go_awarded", "hand_shown"}
  <2>1. h = Scored(0, g, e.seat, e.points)
    BY <1>7 DEF Reduce
  <2>. QED BY <1>1, <1>7, <2>1
<1>8. CASE e.type = "crib_shown"
  <2>1. h = Scored(0, g, g.dealer, e.points)
    BY <1>8 DEF Reduce
  <2>. QED BY <1>1, <1>8, <2>1
<1>9. CASE e.type = "series_reset"
  <2>1. h = ResetSeries(g, e.leader)
    BY <1>9 DEF Reduce
  <2>2. IsGame(h) /\ h.dealer = g.dealer /\ h.scores = g.scores
    <3>. HIDE DEF h
    <3>. QED BY <2>1 DEF ResetSeries, IsGame, Fields
  <2>. QED BY <1>9, <2>2
<1>10. CASE e.type = "game_won"
  <2>1. h = [g EXCEPT !.winner = e.seat, !.phase = "complete"]
    BY <1>10 DEF Reduce
  <2>2. IsGame(h) /\ h.dealer = g.dealer /\ h.scores = g.scores
    <3>. HIDE DEF h
    <3>. QED BY <2>1 DEF IsGame, Fields
  <2>. QED BY <1>10, <2>2
<1>11. CASE e.type = "show_not_counted"
  <2>1. h = g
    BY <1>11 DEF Reduce
  <2>. QED BY <1>11, <2>1
<1>. HIDE DEF h
<1>. HIDE DEF P
<1>. QED BY <1>2, <1>3, <1>4, <1>5, <1>6, <1>7, <1>8, <1>9, <1>10, <1>11
         DEF Command, FollowUp

Tally(d, p, h, c) == [dealer |-> d, pegging |-> p, hand |-> h, crib |-> c]

\* The points credited to s and those it started with are its score.
Matches(g, t, s, start) ==
  /\ IsGame(g) /\ g.scores \in [Seat -> Nat]
  /\ \E p, h, c \in Nat :
       t = Tally(g.dealer, p, h, c) /\ g.scores[s] = start + (p + h + c)

LEMMA MatchesGoOn ==
  ASSUME NEW s \in Seat, NEW start \in Nat, NEW g, NEW t, Matches(g, t, s, start),
         NEW e, Command(e) \/ FollowUp(e)
  PROVE  Matches(Reduce(0, g, e), Credited(t, s, e), s, start)
<1>. DEFINE k == Reduce(0, g, e)
            u == Credited(t, s, e)
<1>1. PICK p, h, c \in Nat :
        t = Tally(g.dealer, p, h, c) /\ g.scores[s] = start + (p + h + c)
  BY DEF Matches
<1>2. /\ IsGame(k)
      /\ k.dealer = IF e.type = "hand_dealt" THEN e.dealer ELSE g.dealer
      /\ k.scores =
           IF e.type \in {"starter_cut", "crib_shown"}
             THEN AddPoints(0, g.scores, g.dealer, e.points)
             ELSE IF e.type \in {"card_played", "go_awarded", "hand_shown"}
               THEN AddPoints(0, g.scores, e.seat, e.points)
               ELSE g.scores
  BY ReduceScores DEF Matches
<1>3. g.scores \in [Seat -> Nat] /\ (Scores(e) => e.points \in Nat)
  BY DEF Matches, Command, FollowUp
<1>4. ASSUME NEW w, NEW pts \in Nat
      PROVE  LET n == AddPoints(0, g.scores, w, pts)
             IN  /\ n \in [Seat -> Nat]
                 /\ n[s] = IF w = s THEN g.scores[s] + pts ELSE g.scores[s]
  <2>. DEFINE n == AddPoints(0, g.scores, w, pts)
  <2>1. n = [g.scores EXCEPT ![w] = g.scores[w] + pts]
    BY DEF AddPoints
  <2>. HIDE DEF n
  <2>2. n \in [Seat -> Nat] /\ n[s] = IF w = s THEN g.scores[s] + pts ELSE g.scores[s]
    <3>1. g.scores[s] \in Nat /\ g.scores[s] + pts \in Nat
      BY <1>3
    <3>2. CASE w = s
      BY <1>3, <2>1, <3>1, <3>2
    <3>3. CASE w # s
      <4>1. CASE w \in Seat
        <5>1. g.scores[w] + pts \in Nat
          BY <1>3, <4>1
        <5>. QED BY <1>3, <2>1, <3>3, <5>1
      <4>2. CASE w \notin Seat
        <5>1. n = g.scores
          BY <1>3, <2>1, <4>2
        <5>. QED BY <1>3, <3>3, <5>1
      <4>. QED BY <4>1, <4>2
    <3>. QED BY <3>2, <3>3
  <2>. QED BY <2>2 DEF n
<1>5. ASSUME NEW p2 \in Nat, NEW h2 \in Nat, NEW c2 \in Nat,
             u = Tally(k.dealer, p2, h2, c2), k.scores \in [Seat -> Nat],
             k.scores[s] = start + (p2 + h2 + c2)
      PROVE  Matches(k, u, s, start)
  BY <1>2, <1>5 DEF Matches
<1>. SUFFICES Matches(k, u, s, start)
  OBVIOUS
<1>. HIDE DEF k
<1>6. t.dealer = g.dealer /\ t.pegging = p /\ t.hand = h /\ t.crib = c
  BY <1>1 DEF Tally
<1>7. CASE e.type = "hand_dealt"
  <2>1. u = [t EXCEPT !.dealer = e.dealer]
    BY <1>7 DEF Credited
  <2>2. u = Tally(k.dealer, p, h, c) /\ k.scores = g.scores
    <3>. HIDE DEF u
    <3>. QED BY <1>1, <1>2, <1>7, <2>1 DEF Tally
  <2>. HIDE DEF u
  <2>. QED BY <1>1, <1>3, <1>5, <2>2
<1>8. CASE e.type \in {"starter_cut", "crib_shown"}
  <2>1. /\ e.points \in Nat /\ k.dealer = g.dealer
        /\ k.scores = AddPoints(0, g.scores, g.dealer, e.points)
    BY <1>2, <1>3, <1>8 DEF Scores
  <2>2. CASE g.dealer # s
    <3>1. u = t
      BY <1>6, <1>8, <2>2 DEF Credited, OwnsTheCrib
    <3>2. k.scores \in [Seat -> Nat] /\ k.scores[s] = g.scores[s]
      BY <1>4, <2>1, <2>2
    <3>. HIDE DEF u
    <3>. QED BY <1>1, <1>5, <2>1, <3>1, <3>2
  <2>3. CASE g.dealer = s
    <3>1. k.scores \in [Seat -> Nat] /\ k.scores[s] = g.scores[s] + e.points
      BY <1>4, <2>1, <2>3
    <3>2. CASE e.type = "starter_cut"
      <4>1. u = [t EXCEPT !.pegging = @ + e.points]
        BY <1>6, <2>3, <3>2 DEF Credited, OwnsTheCrib
      <4>2. u = Tally(k.dealer, p + e.points, h, c)
        <5>. HIDE DEF u
        <5>. QED BY <1>1, <2>1, <4>1 DEF Tally
      <4>3. p + e.points \in Nat /\ k.scores[s] = start + ((p + e.points) + h + c)
        BY <1>1, <2>1, <3>1
      <4>. HIDE DEF u
      <4>. QED BY <1>5, <3>1, <4>2, <4>3
    <3>3. CASE e.type = "crib_shown"
      <4>1. u = [t EXCEPT !.crib = @ + e.points]
        BY <1>6, <2>3, <3>3 DEF Credited, OwnsTheCrib
      <4>2. u = Tally(k.dealer, p, h, c + e.points)
        <5>. HIDE DEF u
        <5>. QED BY <1>1, <2>1, <4>1 DEF Tally
      <4>3. c + e.points \in Nat /\ k.scores[s] = start + (p + h + (c + e.points))
        BY <1>1, <2>1, <3>1
      <4>. HIDE DEF u
      <4>. QED BY <1>5, <3>1, <4>2, <4>3
    <3>. QED BY <1>8, <3>2, <3>3
  <2>. QED BY <2>2, <2>3
<1>9. CASE e.type \in {"card_played", "go_awarded", "hand_shown"}
  <2>1. /\ e.points \in Nat /\ k.dealer = g.dealer
        /\ k.scores = AddPoints(0, g.scores, e.seat, e.points)
    BY <1>2, <1>3, <1>9 DEF Scores
  <2>2. CASE e.seat # s
    <3>1. u = t
      BY <1>9, <2>2 DEF Credited
    <3>2. k.scores \in [Seat -> Nat] /\ k.scores[s] = g.scores[s]
      BY <1>4, <2>1, <2>2
    <3>. HIDE DEF u
    <3>. QED BY <1>1, <1>5, <2>1, <3>1, <3>2
  <2>3. CASE e.seat = s
    <3>1. k.scores \in [Seat -> Nat] /\ k.scores[s] = g.scores[s] + e.points
      BY <1>4, <2>1, <2>3
    <3>2. CASE e.type \in {"card_played", "go_awarded"}
      <4>1. u = [t EXCEPT !.pegging = @ + e.points]
        BY <2>3, <3>2 DEF Credited
      <4>2. u = Tally(k.dealer, p + e.points, h, c)
        <5>. HIDE DEF u
        <5>. QED BY <1>1, <2>1, <4>1 DEF Tally
      <4>3. p + e.points \in Nat /\ k.scores[s] = start + ((p + e.points) + h + c)
        BY <1>1, <2>1, <3>1
      <4>. HIDE DEF u
      <4>. QED BY <1>5, <3>1, <4>2, <4>3
    <3>3. CASE e.type = "hand_shown"
      <4>1. u = [t EXCEPT !.hand = @ + e.points]
        BY <2>3, <3>3 DEF Credited
      <4>2. u = Tally(k.dealer, p, h + e.points, c)
        <5>. HIDE DEF u
        <5>. QED BY <1>1, <2>1, <4>1 DEF Tally
      <4>3. h + e.points \in Nat /\ k.scores[s] = start + (p + (h + e.points) + c)
        BY <1>1, <2>1, <3>1
      <4>. HIDE DEF u
      <4>. QED BY <1>5, <3>1, <4>2, <4>3
    <3>. QED BY <1>9, <3>2, <3>3
  <2>. QED BY <2>2, <2>3
<1>10. CASE e.type \in {"discarded", "pass", "series_reset", "game_won", "show_not_counted"}
  <2>1. u = t
    BY <1>10 DEF Credited
  <2>2. k.scores = g.scores /\ k.dealer = g.dealer
    BY <1>2, <1>10
  <2>. HIDE DEF u
  <2>. QED BY <1>1, <1>3, <1>5, <2>1, <2>2
<1>. QED BY <1>7, <1>8, <1>9, <1>10 DEF Command, FollowUp

\* The score a seat starts with.
StartScore(s) == IF log[1].type = "handicap" THEN log[1].scores[s] ELSE 0

\* After the opening and the first deal.
LEMMA MatchesAtFirst ==
  ASSUME LogInv, NEW s \in Seat
  PROVE  /\ StartScore(s) \in Nat
         /\ Matches(Reduce(0, Reduce(0, Blank, log[1]), log[2]),
                    Credited(Credited(NoPoints, s, log[1]), s, log[2]), s, StartScore(s))
<1>. DEFINE a == log[1]
            b == log[2]
            g == Reduce(0, Blank, a)
            h == Reduce(0, g, b)
            t == Credited(NoPoints, s, a)
            u == Credited(t, s, b)
<1>1. Opening(a) /\ b.type = "hand_dealt"
  BY DEF LogInv
<1>. SUFFICES StartScore(s) \in Nat /\ Matches(h, u, s, StartScore(s))
  OBVIOUS
<1>. HIDE DEF a, b
<1>2. StartScore(s) = IF a.type = "handicap" THEN a.scores[s] ELSE 0
  BY DEF StartScore, a
<1>3. StartScore(s) \in Nat
  BY <1>1, <1>2 DEF Opening
<1>4. g.scores \in [Seat -> Nat] /\ g.scores[s] = StartScore(s)
  <2>1. CASE a.type = "handicap"
    <3>1. g = [Blank EXCEPT !.scores = a.scores]
      BY <2>1 DEF Reduce
    <3>2. g.scores = a.scores
      <4>. HIDE DEF g
      <4>. QED BY <3>1 DEF Blank
    <3>. HIDE DEF g
    <3>. QED BY <1>1, <1>2, <2>1, <3>2 DEF Opening
  <2>2. CASE a.type = "cut_for_deal"
    <3>1. g = [Blank EXCEPT !.dealer = a.dealer]
      BY <2>2 DEF Reduce
    <3>2. g.scores = [x \in Seat |-> 0]
      <4>. HIDE DEF g
      <4>. QED BY <3>1 DEF Blank
    <3>. HIDE DEF g
    <3>. QED BY <1>2, <2>2, <3>2
  <2>. QED BY <1>1, <2>1, <2>2 DEF Opening
<1>. HIDE DEF g
<1>5. /\ IsGame(h) /\ h.dealer = b.dealer /\ h.scores = g.scores
  <2>1. h = [Blank EXCEPT !.dealer = b.dealer, !.hands = b.hands, !.scores = g.scores,
                          !.lastPlayer = b.dealer, !.winner = g.winner]
    BY <1>1 DEF Reduce
  <2>. HIDE DEF h
  <2>. QED BY <2>1 DEF Blank, IsGame, Fields
<1>6. t = NoPoints
  BY <1>1 DEF Opening, Credited
<1>7. u = Tally(b.dealer, 0, 0, 0)
  <2>1. u = [t EXCEPT !.dealer = b.dealer]
    BY <1>1 DEF Credited
  <2>. HIDE DEF u, t
  <2>. QED BY <1>6, <2>1 DEF NoPoints, Tally
<1>. HIDE DEF h, u
<1>8. 0 \in Nat /\ StartScore(s) = StartScore(s) + (0 + 0 + 0)
  BY <1>3
<1>9. u = Tally(h.dealer, 0, 0, 0) /\ h.scores[s] = StartScore(s) + (0 + 0 + 0)
  BY <1>4, <1>5, <1>7, <1>8
<1>10. \E p, q, c \in Nat :
         u = Tally(h.dealer, p, q, c) /\ h.scores[s] = StartScore(s) + (p + q + c)
  BY <1>8, <1>9, Zenon
<1>. QED BY <1>3, <1>4, <1>5, <1>10 DEF Matches

\* At the end of the log, for the fold without a target.
LEMMA PointsAreTheScore ==
  ASSUME LogInv, NEW s \in Seat
  PROVE  /\ StartScore(s) \in Nat
         /\ Folded(0, log).scores[s] = StartScore(s) + TotalPoints(log, s)
<1>1. PICK f : Reads(f, "game", 0, log)
  BY ReadsExist DEF LogInv
<1>2. PICK t : Reads(t, "points", s, log)
  BY ReadsExist DEF LogInv
<1>3. Len(log) \in Nat /\ Len(log) >= 2
  BY LogFacts DEF LogInv
<1>4. StartScore(s) \in Nat
  BY MatchesAtFirst
<1>5. \A n \in 1..Len(log) : /\ f[n] = Reduce(0, f[n - 1], log[n])
                             /\ t[n] = Credited(t[n - 1], s, log[n])
  <2>1. TAKE n \in 1..Len(log)
  <2>2. n \in 0..Len(log) /\ n # 0
    BY <1>3
  <2>3. f[n] = Step("game", 0, f[n - 1], log[n])
    BY <1>1, <2>2 DEF Reads
  <2>4. t[n] = Step("points", s, t[n - 1], log[n])
    BY <1>2, <2>2 DEF Reads
  <2>5. "points" # "game"
    OBVIOUS
  <2>. QED BY <2>3, <2>4, <2>5, Zenon DEF Step
<1>6. f[0] = Blank /\ t[0] = NoPoints
  BY <1>1, <1>2, <1>3 DEF Reads, Start
<1>7. Matches(f[2], t[2], s, StartScore(s))
  <2>1. 1 \in 1..Len(log) /\ 2 \in 1..Len(log) /\ 1 - 1 = 0 /\ 2 - 1 = 1
    BY <1>3
  <2>2. /\ f[1] = Reduce(0, Blank, log[1]) /\ f[2] = Reduce(0, f[1], log[2])
        /\ t[1] = Credited(NoPoints, s, log[1]) /\ t[2] = Credited(t[1], s, log[2])
    BY <1>5, <1>6, <2>1
  <2>. QED BY <2>2, MatchesAtFirst
<1>. DEFINE G == {n \in Nat : n + 2 <= Len(log) => Matches(f[n + 2], t[n + 2], s, StartScore(s))}
<1>8. 0 \in G
  BY <1>7
<1>9. ASSUME NEW n \in G PROVE n + 1 \in G
  <2>1. CASE (n + 1) + 2 <= Len(log)
    <3>. DEFINE i == n + 3
    <3>1. /\ i \in 3..Len(log) /\ i \in 1..Len(log) /\ i - 1 = n + 2 /\ (n + 1) + 2 = i
          /\ n + 1 \in Nat
      BY <1>3, <2>1
    <3>2. Matches(f[i - 1], t[i - 1], s, StartScore(s))
      BY <2>1, <3>1
    <3>3. Command(log[i]) \/ FollowUp(log[i])
      BY <3>1 DEF LogInv
    <3>. HIDE DEF i
    <3>4. Matches(f[i], t[i], s, StartScore(s))
      BY <1>4, <1>5, <3>1, <3>2, <3>3, MatchesGoOn
    <3>. QED BY <3>1, <3>4
  <2>2. CASE ~((n + 1) + 2 <= Len(log))
    BY <2>2
  <2>. QED BY <2>1, <2>2
<1>10. G = Nat
  <2>. HIDE DEF G
  <2>1. G \in SUBSET Nat
    BY DEF G
  <2>. QED BY <1>8, <1>9, <2>1, InductionOverNat
<1>11. Matches(f[Len(log)], t[Len(log)], s, StartScore(s))
  <2>1. Len(log) - 2 \in Nat /\ (Len(log) - 2) + 2 = Len(log)
    BY <1>3
  <2>2. Len(log) - 2 \in G
    <3>. HIDE DEF G
    <3>. QED BY <1>10, <2>1
  <2>. QED BY <1>3, <2>1, <2>2
<1>12. Folded(0, log) = f[Len(log)] /\ GamePoints(log, s) = t[Len(log)]
  BY <1>1, <1>2, FoldedIs, PointsAre DEF LogInv
<1>. DEFINE g == f[Len(log)]
            u == t[Len(log)]
<1>. HIDE DEF g, u
<1>13. PICK p, h, c \in Nat :
         u = Tally(g.dealer, p, h, c) /\ g.scores[s] = StartScore(s) + (p + h + c)
  BY <1>11 DEF Matches, g, u
<1>14. TotalPoints(log, s) = p + h + c
  <2>1. TotalPoints(log, s) = u.pegging + u.hand + u.crib
    BY <1>12 DEF TotalPoints, u
  <2>2. u.pegging = p /\ u.hand = h /\ u.crib = c
    BY <1>13 DEF Tally
  <2>. QED BY <2>1, <2>2
<1>15. Folded(0, log).scores[s] = g.scores[s]
  BY <1>12 DEF g
<1>. QED BY <1>4, <1>13, <1>14, <1>15

(***************************************************************************)
(* The three categories of the statistics add up to what a seat gained,    *)
(* but for the excess of the winner's last award.                          *)
(***************************************************************************)
THEOREM StatisticsAddUp == HistorySpec => []StatsAccountForTheScore
<1>1. LogInv /\ TellInv => StatsAccountForTheScore
  <2>. SUFFICES ASSUME LogInv, TellInv, NEW s \in Seat
                PROVE  IF s = winner THEN StartScore(s) + TotalPoints(log, s) >= scores[s]
                                     ELSE StartScore(s) + TotalPoints(log, s) = scores[s]
    BY DEF StatsAccountForTheScore, StartScore
  <2>1. PICK sc \in [Seat -> Nat] :
               Folded(0, log) = LiveWith(sc) /\ Alike(0, sc, scores, winner)
    BY DEF TellInv, Caps
  <2>2. Folded(0, log).scores = sc
    BY <2>1 DEF LiveWith, Game
  <2>3. sc[s] = StartScore(s) + TotalPoints(log, s)
    BY <2>2, PointsAreTheScore
  <2>. QED BY <2>1, <2>3 DEF Alike
<1>. QED BY <1>1, LogIsKept, PTL

-----------------------------------------------------------------------------
(***************************************************************************)
(* The hand on the table.  Since the last deal the log has the throws and  *)
(* the cards laid, the cut and what names no card; every card of a seat is *)
(* in its hand, on the table or thrown.                                    *)
(***************************************************************************)
Plain == {Pass(t) : t \in Seat} \cup {GoAwarded(t) : t \in Seat} \cup {SeriesReset(t) : t \in Seat}

\* An event names a card on the table, a throw or the cut, if any.
Openly(e, pd, th, ph, st) ==
  \/ e \in Plain
  \/ \E t \in Seat : \E c \in pd[t], p \in Nat : e = CardPlayed(t, c, p)
  \/ \E t \in Seat : th[t] # {} /\ e = DiscardedBy(t, th[t])
  \/ \E h \in Nat : ph = "play" /\ e = StarterCut(st, h)

OpenNow(e)  == Openly(e, played, thrown, phase, starter)

AllOf(t) == hands[t] \cup played[t] \cup thrown[t]

DealtAt(k) ==
  /\ k \in 2..Len(log)
  /\ \E dl, hs : log[k] = HandDealt(dl, hs) /\ \A t \in Seat : hs[t] = AllOf(t)
  /\ \A i \in (k + 1)..Len(log) : OpenNow(log[i])

DealInv ==
  /\ IsLog(log)
  /\ phase = "discard" => starter = NoCard
  /\ phase # "discard" => rest = NoCard
  /\ winner = NoSeat => \E k \in 2..Len(log) : DealtAt(k)

\* What a command adds to the log.
LEMMA LogGrows ==
  ASSUME IsLog(log), NEW S, out' \in Seq(S), log' = log \o out'
  PROVE  /\ IsLog(log') /\ Len(log) \in Nat /\ Len(out') \in Nat
         /\ Len(log') = Len(log) + Len(out')
         /\ \A i \in 1..Len(log) : log'[i] = log[i]
         /\ \A i \in (Len(log) + 1)..Len(log') : log'[i] \in S
<1>1. IsLog(out')
  BY DEF IsLog
<1>2. /\ IsLog(log') /\ Len(log) \in Nat /\ Len(out') \in Nat
      /\ Len(log') = Len(log) + Len(out')
      /\ \A i \in 1..Len(log) : log'[i] = log[i]
      /\ \A i \in (Len(log) + 1)..(Len(log) + Len(out')) : log'[i] = out'[i - Len(log)]
  BY <1>1, JoinedLog
<1>3. ASSUME NEW i \in (Len(log) + 1)..Len(log') PROVE log'[i] \in S
  <2>1. i \in (Len(log) + 1)..(Len(log) + Len(out')) /\ i - Len(log) \in 1..Len(out')
    BY <1>2, <1>3
  <2>. QED BY <1>2, <2>1
<1>. QED BY <1>2, <1>3

\* A command of the same hand.
LEMMA SameHand ==
  ASSUME DealInv, NEW k, DealtAt(k), NEW S, out' \in Seq(S), log' = log \o out',
         \A t \in Seat : AllOf(t)' = AllOf(t),
         \A e : OpenNow(e) => Openly(e, played', thrown', phase', starter'),
         \A e \in S : Openly(e, played', thrown', phase', starter')
  PROVE  \E n \in 2..Len(log') : DealtAt(n)'
<1>1. /\ Len(log) \in Nat /\ Len(out') \in Nat
      /\ Len(log') = Len(log) + Len(out')
      /\ \A i \in 1..Len(log) : log'[i] = log[i]
      /\ \A i \in (Len(log) + 1)..Len(log') : log'[i] \in S
  BY LogGrows DEF DealInv
<1>2. k \in 2..Len(log) /\ k \in 1..Len(log) /\ k \in 2..Len(log')
  BY <1>1 DEF DealtAt
<1>3. ASSUME NEW i \in (k + 1)..Len(log') PROVE Openly(log'[i], played', thrown', phase', starter')
  <2>1. CASE i <= Len(log)
    <3>1. i \in (k + 1)..Len(log) /\ i \in 1..Len(log)
      BY <1>1, <1>2, <2>1
    <3>2. OpenNow(log[i]) /\ log'[i] = log[i]
      BY <1>1, <3>1 DEF DealtAt
    <3>. QED BY <3>2
  <2>2. CASE i > Len(log)
    <3>1. i \in (Len(log) + 1)..Len(log')
      BY <1>1, <1>2, <2>2
    <3>. QED BY <1>1, <3>1
  <2>. QED BY <1>1, <1>2, <2>1, <2>2
<1>4. \E dl, hs : log'[k] = HandDealt(dl, hs) /\ \A t \in Seat : hs[t] = AllOf(t)'
  BY <1>1, <1>2 DEF DealtAt
<1>5. DealtAt(k)'
  BY <1>2, <1>3, <1>4 DEF DealtAt, OpenNow
<1>. QED BY <1>2, <1>5

LEMMA DiscardDeal ==
  ASSUME GameInv, DealInv, NEW s \in Seat, NEW two \in Throws, Discard(s, two),
         log' = log \o out'
  PROVE  DealInv'
<1>. DEFINE heels == IF rest.rank = Jack THEN 2 ELSE 0
            S == {DiscardedBy(s, two), StarterCut(rest, heels)}
<1>1. /\ phase = "discard" /\ two \subseteq hands[s] /\ two # {} /\ thrown[s] = {}
      /\ hands' = [hands EXCEPT ![s] = @ \ two] /\ thrown' = [thrown EXCEPT ![s] = two]
      /\ played' = played /\ winner = NoSeat
      /\ hands \in [Seat -> SUBSET Card] /\ thrown \in [Seat -> SUBSET Card]
  BY ThrowFacts, BelowTarget DEF Discard, Discarded, GameInv, TypeOK
<1>2. /\ thrown'[s] = two
      /\ \A t \in Seat : thrown[t] # {} => thrown'[t] = thrown[t]
      /\ \A t \in Seat : AllOf(t)' = AllOf(t)
  BY <1>1 DEF AllOf
<1>3. ASSUME NEW e, OpenNow(e)
      PROVE  Openly(e, played', thrown', phase', starter')
  <2>1. CASE \E t \in Seat : thrown[t] # {} /\ e = DiscardedBy(t, thrown[t])
    BY <1>2, <2>1 DEF Openly, OpenNow
  <2>2. phase # "play"
    BY <1>1
  <2>. QED BY <1>1, <1>3, <2>1, <2>2 DEF Openly, OpenNow
<1>4. Openly(DiscardedBy(s, two), played', thrown', phase', starter')
  BY <1>1, <1>2 DEF Openly
<1>5. heels \in Nat
  OBVIOUS
<1>6. \/ /\ out' = <<DiscardedBy(s, two)>> /\ UNCHANGED <<phase, starter, rest, winner>>
      \/ /\ starter' = rest /\ rest' = NoCard /\ phase' = "complete" /\ winner' = dealer
         /\ out' = Append(<<DiscardedBy(s, two), StarterCut(rest, heels)>>, GameWon(dealer)) \o <<>>
      \/ /\ starter' = rest /\ rest' = NoCard /\ phase' = "play" /\ winner' = winner
         /\ out' = <<DiscardedBy(s, two), StarterCut(rest, heels)>>
  <2>1. \A x, y : <<x, y>> = Append(<<x>>, y)
    OBVIOUS
  <2>. QED BY <2>1 DEF Discard, CutStarter, WinsWith, GoesOn
<1>. HIDE DEF heels
<1>7. IsLog(log')
  <2>1. IsLog(out')
    BY LedDiscard DEF Led, IsLog
  <2>. QED BY <2>1, LogsJoin DEF DealInv
<1>8. CASE out' = <<DiscardedBy(s, two)>> /\ UNCHANGED <<phase, starter, rest, winner>>
  <2>1. out' \in Seq({DiscardedBy(s, two)})
    BY <1>8
  <2>2. PICK k \in 2..Len(log) : DealtAt(k)
    BY <1>1 DEF DealInv
  <2>3. \E n \in 2..Len(log') : DealtAt(n)'
    BY <1>2, <1>3, <1>4, <2>1, <2>2, SameHand
  <2>. QED BY <1>1, <1>7, <1>8, <2>3 DEF DealInv
<1>9. CASE starter' = rest /\ rest' = NoCard /\ phase' = "complete" /\ winner' = dealer
  <2>1. dealer # NoSeat
    BY SeatFacts DEF GameInv, TypeOK
  <2>. QED BY <1>7, <1>9, <2>1 DEF DealInv
<1>10. CASE /\ starter' = rest /\ rest' = NoCard /\ phase' = "play" /\ winner' = winner
            /\ out' = <<DiscardedBy(s, two), StarterCut(rest, heels)>>
  <2>1. out' \in Seq(S)
    BY <1>10
  <2>2. PICK k \in 2..Len(log) : DealtAt(k)
    BY <1>1 DEF DealInv
  <2>3. Openly(StarterCut(rest, heels), played', thrown', phase', starter')
    BY <1>5, <1>10 DEF Openly
  <2>4. \A e \in S : Openly(e, played', thrown', phase', starter')
    BY <1>4, <2>3
  <2>. HIDE DEF S
  <2>5. \E n \in 2..Len(log') : DealtAt(n)'
    BY <1>2, <1>3, <2>1, <2>2, <2>4, SameHand
  <2>. QED BY <1>7, <1>10, <2>5 DEF DealInv
<1>. QED BY <1>6, <1>8, <1>9, <1>10

\* A play that neither wins nor ends the hand, or deals the next one.
LEMMA PlayOrDeal ==
  ASSUME NEW s \in Seat, NEW c \in hands[s], Play(s, c)
  PROVE  \/ \E w \in {s, dealer, Pone} : winner' = w /\ phase' = "complete" /\ rest' = rest
         \/ /\ hands' = HandsAfter(s, c) /\ played' = PlayedAfter(s, c)
            /\ UNCHANGED <<thrown, starter, rest, phase, winner>>
            /\ out' \in Seq({CardPlayed(s, c, Score(pile, c))} \cup Plain)
         \/ \E ev : IsLog(ev) /\ DealHand(Pone, ev)
<1>. DEFINE d == CardPlayed(s, c, Score(pile, c))
            S == {d} \cup Plain
<1>1. Other(s) \in Seat /\ LeaderAfter(HandsAfter(s, c), s) \in Seat
  BY SeatFacts DEF LeaderAfter
<1>2. Down(s, c) \in Seq(S) /\ Down(s, c) \o PassOf(Other(s)) \in Seq(S)
  <2>1. Down(s, c) \in Seq(S)
    BY DEF Down
  <2>2. PassOf(Other(s)) \in Seq(S)
    <3>1. Pass(Other(s)) \in S /\ <<>> \in Seq(S)
      BY <1>1 DEF Plain
    <3>. HIDE DEF S
    <3>. QED BY <3>1 DEF PassOf
  <2>. HIDE DEF S
  <2>. QED BY <2>1, <2>2
<1>3. GoAwarded(s) \in S /\ ResetEvent(s, c) \in S
  BY <1>1 DEF Plain, ResetEvent
<1>. HIDE DEF S
<1>4. CASE PlayWins(s, c)
  BY <1>4 DEF PlayWins, WinsWith, SeriesGoesOn
<1>5. CASE PlayThenOpponent(s, c)
  BY <1>2, <1>5 DEF PlayThenOpponent, SeriesGoesOn, GoesOn, S
<1>6. CASE PlayThenSamePlayer(s, c)
  BY <1>2, <1>6 DEF PlayThenSamePlayer, SeriesGoesOn, GoesOn, S
<1>7. CASE PlayThirtyOne(s, c)
  <2>1. Append(Down(s, c), ResetEvent(s, c)) \in Seq(S)
    BY <1>2, <1>3
  <2>. QED BY <1>7, <2>1 DEF PlayThirtyOne, SeriesEnds, GoesOn, S
<1>8. CASE PlayGo(s, c)
  <2>. DEFINE go == Append(Down(s, c) \o PassOf(Other(s)), GoAwarded(s))
  <2>1. Append(go, ResetEvent(s, c)) \in Seq(S)
    BY <1>2, <1>3
  <2>2. \/ winner' = s /\ phase' = "complete" /\ rest' = rest
        \/ /\ hands' = HandsAfter(s, c) /\ played' = PlayedAfter(s, c)
           /\ UNCHANGED <<thrown, starter, rest, phase, winner>>
           /\ out' = Append(go, ResetEvent(s, c))
    BY <1>8 DEF PlayGo, WinsWith, SeriesGoesOn, SeriesEnds, GoesOn
  <2>. HIDE DEF go
  <2>. QED BY <2>1, <2>2 DEF S
<1>9. CASE LastCardWins(s, c)
  BY <1>9 DEF LastCardWins, WinsWith, SeriesGoesOn
<1>10. CASE Show(s, c)
  <2>. DEFINE laid == PlayedAfter(s, c)
              p    == ShowPoints(s, c)
              x1   == HandShown(Pone, laid[Pone], p.pone)
              x2   == HandShown(dealer, laid[dealer], p.dealer)
              x3   == CribShown(Crib, p.crib)
              ev   == Append(Append(Append(LastCardEvents(s, c), x1), x2), x3)
  <2>1. \/ \E w \in {dealer, Pone} : winner' = w /\ phase' = "complete" /\ rest' = rest
        \/ DealHand(Pone, ev)
    BY <1>10 DEF Show, ResolveShow, WinsWith, SeriesGoesOn
  <2>2. IsLog(LastCardEvents(s, c))
    <3>1. IsLog(Down(s, c))
      BY LogOfOne DEF Down
    <3>. QED BY <3>1, LogGoesOn DEF LastCardEvents
  <2>. HIDE DEF x1, x2, x3
  <2>3. IsLog(ev)
    BY <2>2, LogGoesOn
  <2>. HIDE DEF ev
  <2>. QED BY <2>1, <2>3
<1>. QED BY <1>4, <1>5, <1>6, <1>7, <1>8, <1>9, <1>10 DEF Play

LEMMA PlayDeal ==
  ASSUME GameInv, DealInv, NEW s \in Seat, NEW c \in hands[s], Play(s, c),
         log' = log \o out'
  PROVE  DealInv'
<1>1. /\ LegalPlay(s, c) /\ phase = "play" /\ winner = NoSeat /\ rest = NoCard
      /\ Score(pile, c) \in Nat /\ dealer \in Seat /\ Pone \in Seat
  <2>1. LegalPlay(s, c)
    BY PlayMovesSeries
  <2>. QED BY <2>1, LayFacts, SeatFacts DEF DealInv, GameInv, TypeOK, Pone
<1>2. IsLog(log') /\ IsLog(out')
  <2>1. IsLog(out')
    BY LedPlay DEF Led, IsLog
  <2>. QED BY <2>1, LogsJoin DEF DealInv
<1>3. CASE \E w \in {s, dealer, Pone} : winner' = w /\ phase' = "complete" /\ rest' = rest
  BY <1>1, <1>2, <1>3, SeatFacts DEF DealInv
<1>4. CASE /\ hands' = HandsAfter(s, c) /\ played' = PlayedAfter(s, c)
           /\ UNCHANGED <<thrown, starter, rest, phase, winner>>
           /\ out' \in Seq({CardPlayed(s, c, Score(pile, c))} \cup Plain)
  <2>. DEFINE d == CardPlayed(s, c, Score(pile, c))
              S == {d} \cup Plain
  <2>1. /\ \A t \in Seat : hands'[t] \cup played'[t] = hands[t] \cup played[t]
        /\ \A t \in Seat : played[t] \subseteq played'[t]
        /\ c \in played'[s]
    <3>1. \A t \in Seat : hands'[t] \cup played'[t] = hands[t] \cup played[t]
      BY <1>1, <1>4, AfterFacts
    <3>2. played \in [Seat -> SUBSET Card]
      BY DEF GameInv, TypeOK
    <3>. QED BY <1>4, <3>1, <3>2 DEF PlayedAfter
  <2>2. \A t \in Seat : AllOf(t)' = AllOf(t)
    BY <1>4, <2>1 DEF AllOf
  <2>3. ASSUME NEW e, OpenNow(e)
        PROVE  Openly(e, played', thrown', phase', starter')
    BY <1>4, <2>1, <2>3 DEF Openly, OpenNow
  <2>4. Openly(d, played', thrown', phase', starter')
    BY <1>1, <2>1 DEF Openly
  <2>5. \A e \in S : Openly(e, played', thrown', phase', starter')
    <3>1. \A e \in Plain : Openly(e, played', thrown', phase', starter')
      BY DEF Openly
    <3>. HIDE DEF d
    <3>. QED BY <2>4, <3>1
  <2>6. out' \in Seq(S)
    BY <1>4
  <2>. HIDE DEF S
  <2>7. PICK k \in 2..Len(log) : DealtAt(k)
    BY <1>1 DEF DealInv
  <2>8. \E n \in 2..Len(log') : DealtAt(n)'
    BY <2>2, <2>3, <2>5, <2>6, <2>7, SameHand
  <2>. QED BY <1>1, <1>2, <1>4, <2>8 DEF DealInv
<1>5. ASSUME NEW ev, IsLog(ev), DealHand(Pone, ev) PROVE DealInv'
  <2>1. PICK deck \in Decks :
          /\ hands' = DealtHands(deck, Pone) /\ played' = Empty /\ thrown' = Empty
          /\ phase' = "discard" /\ starter' = NoCard
          /\ out' = Append(ev, HandDealt(Pone, DealtHands(deck, Pone)))
    BY <1>5 DEF DealHand
  <2>. DEFINE hs == DealtHands(deck, Pone)
              d  == HandDealt(Pone, hs)
  <2>0. PICK k : k = Len(log')
    OBVIOUS
  <2>2. Len(out') = Len(ev) + 1 /\ Len(ev) \in Nat /\ out'[Len(out')] = d
    BY <1>5, <2>1, LogGoesOn, LogFacts
  <2>3. Len(log) \in Nat /\ k = Len(log) + Len(out') /\ log'[k] = d
    <3>1. /\ Len(log) \in Nat /\ Len(log') = Len(log) + Len(out')
          /\ \A i \in 1..Len(out') : (log \o out')[Len(log) + i] = out'[i]
      BY <1>2, JoinedLog DEF DealInv
    <3>2. Len(out') \in 1..Len(out')
      BY <2>2
    <3>. QED BY <2>0, <2>2, <3>1, <3>2
  <2>4. Len(log) >= 2
    BY <1>1, <2>3 DEF DealInv
  <2>5. \A t \in Seat : hs[t] = AllOf(t)'
    BY <2>1, EmptyFacts DEF AllOf
  <2>. HIDE DEF hs
  <2>6. /\ k \in 2..Len(log')
        /\ \E dl, h : log'[k] = HandDealt(dl, h) /\ \A t \in Seat : h[t] = AllOf(t)'
        /\ (k + 1)..Len(log') = {}
    BY <2>0, <2>2, <2>3, <2>4, <2>5
  <2>7. DealtAt(k)'
    BY <2>6 DEF DealtAt
  <2>. QED BY <1>2, <2>1, <2>6, <2>7 DEF DealInv
<1>. QED BY <1>3, <1>4, <1>5, PlayOrDeal

LEMMA DealInvNext == GameInv /\ DealInv /\ Logged => DealInv'
<1>1. ASSUME DealInv, UNCHANGED <<vars, log>> PROVE DealInv'
  BY <1>1 DEF vars, DealInv, DealtAt, AllOf, OpenNow
<1>. QED BY <1>1, DiscardDeal, PlayDeal DEF Logged

LEMMA InitDeal == HistoryInit => DealInv
<1>. SUFFICES ASSUME HistoryInit PROVE DealInv
  OBVIOUS
<1>1. PICK open \in Openings, deck \in Decks :
        /\ phase = "discard" /\ starter = NoCard
        /\ hands = DealtHands(deck, open.dealer) /\ played = Empty /\ thrown = Empty
        /\ log = <<open.event, HandDealt(open.dealer, DealtHands(deck, open.dealer))>>
  BY DEF HistoryInit, Init
<1>. DEFINE hs == DealtHands(deck, open.dealer)
<1>2. IsLog(log)
  BY InitLogInv DEF LogInv
<1>3. Len(log) = 2 /\ log[2] = HandDealt(open.dealer, hs)
  BY <1>1
<1>4. \A t \in Seat : hs[t] = AllOf(t)
  BY <1>1, EmptyFacts DEF AllOf
<1>. HIDE DEF hs
<1>5. DealtAt(2)
  BY <1>3, <1>4 DEF DealtAt
<1>. QED BY <1>1, <1>2, <1>3, <1>5 DEF DealInv

-----------------------------------------------------------------------------
(***************************************************************************)
(* What each event travels as.                                             *)
(***************************************************************************)
Sent(s, e, n) ==
  LET d == SeenBy(s, [e EXCEPT !.type = WireType(@)])
  IN  IF d.type = "card_played" THEN WithCount(d, n) ELSE d

LEMMA DeltaIs ==
  ASSUME NEW s, NEW events, NEW i
  PROVE  Delta(s, events, i) = Sent(s, events[i], ScoredCount(events, i))
BY DEF Delta, Sent

LEMMA SentForms ==
  ASSUME NEW s \in Seat, NEW n
  PROVE  /\ \A t : Sent(s, Pass(t), n) = Pass(t)
         /\ \A t : Sent(s, GoAwarded(t), n) = [type |-> "go", seat |-> t, points |-> 1]
         /\ \A t : Sent(s, SeriesReset(t), n) = SeriesReset(t)
         /\ \A t, c, p : Sent(s, CardPlayed(t, c, p), n) = WithCount(CardPlayed(t, c, p), n)
         /\ \A c, p : Sent(s, StarterCut(c, p), n) = StarterCut(c, p)
         /\ \A t, cs : Sent(s, DiscardedBy(t, cs), n)
              = IF t = s THEN DiscardedBy(t, cs) ELSE [type |-> "discarded", seat |-> t]
         /\ \A t, hs : Sent(s, HandDealt(t, hs), n)
              = [type |-> "hand_dealt", dealer |-> t, hand |-> hs[s]]
         /\ \A t, cs, p : Sent(s, HandShown(t, cs, p), n) = HandShown(t, cs, p)
         /\ \A cs, p : Sent(s, CribShown(cs, p), n) = CribShown(cs, p)
         /\ \A t : Sent(s, GameWon(t), n) = GameWon(t)
         /\ \A t, cs, x : Sent(s, ShowNotCounted(t, cs, x), n)
              = [type |-> "show_uncounted", seat |-> t, cards |-> cs, isCrib |-> x]
<1>1. \A t : Sent(s, Pass(t), n) = Pass(t)
  BY DEF Sent, SeenBy, WireType, Pass
<1>2. \A t : Sent(s, GoAwarded(t), n) = [type |-> "go", seat |-> t, points |-> 1]
  BY DEF Sent, SeenBy, WireType, GoAwarded
<1>3. \A t : Sent(s, SeriesReset(t), n) = SeriesReset(t)
  BY DEF Sent, SeenBy, WireType, SeriesReset
<1>4. \A t, c, p : Sent(s, CardPlayed(t, c, p), n) = WithCount(CardPlayed(t, c, p), n)
  BY DEF Sent, SeenBy, WireType, CardPlayed
<1>5. \A c, p : Sent(s, StarterCut(c, p), n) = StarterCut(c, p)
  BY DEF Sent, SeenBy, WireType, StarterCut
<1>6. \A t, cs : Sent(s, DiscardedBy(t, cs), n)
        = IF t = s THEN DiscardedBy(t, cs) ELSE [type |-> "discarded", seat |-> t]
  BY DEF Sent, SeenBy, WireType, DiscardedBy
<1>7. \A t, hs : Sent(s, HandDealt(t, hs), n)
        = [type |-> "hand_dealt", dealer |-> t, hand |-> hs[s]]
  BY DEF Sent, SeenBy, WireType, HandDealt
<1>8. \A t, cs, p : Sent(s, HandShown(t, cs, p), n) = HandShown(t, cs, p)
  BY DEF Sent, SeenBy, WireType, HandShown
<1>9. \A cs, p : Sent(s, CribShown(cs, p), n) = CribShown(cs, p)
  BY DEF Sent, SeenBy, WireType, CribShown
<1>10. \A t : Sent(s, GameWon(t), n) = GameWon(t)
  BY DEF Sent, SeenBy, WireType, GameWon
<1>11. \A t, cs, x : Sent(s, ShowNotCounted(t, cs, x), n)
         = [type |-> "show_uncounted", seat |-> t, cards |-> cs, isCrib |-> x]
  BY DEF Sent, SeenBy, WireType, ShowNotCounted
<1>. QED BY <1>1, <1>2, <1>3, <1>4, <1>5, <1>6, <1>7, <1>8, <1>9, <1>10, <1>11

\* What is told of an event of the hand names only what its seat may know.
LEMMA SentOpenly ==
  ASSUME NEW s \in Seat, NEW n, NEW e, OpenNow(e)
  PROVE  NamedIn(Sent(s, e, n))
           \subseteq played[0] \cup played[1] \cup thrown[s]
                       \cup (IF phase = "play" THEN {starter} ELSE {})
<1>1. CASE e \in Plain
  <2>1. PICK t \in Seat : e = Pass(t) \/ e = GoAwarded(t) \/ e = SeriesReset(t)
    BY <1>1 DEF Plain
  <2>2. Sent(s, e, n) \in {Pass(t), [type |-> "go", seat |-> t, points |-> 1], SeriesReset(t)}
    BY <2>1, SentForms
  <2>3. /\ NamedIn(Pass(t)) = {}
        /\ NamedIn([type |-> "go", seat |-> t, points |-> 1]) = {}
        /\ NamedIn(SeriesReset(t)) = {}
    BY DEF NamedIn, Pass, SeriesReset
  <2>. QED BY <2>2, <2>3
<1>2. ASSUME NEW t \in Seat, NEW c \in played[t], NEW p \in Nat, e = CardPlayed(t, c, p)
      PROVE  NamedIn(Sent(s, e, n)) \subseteq played[t]
  <2>1. Sent(s, e, n) = WithCount(CardPlayed(t, c, p), n)
    BY <1>2, SentForms
  <2>2. NamedIn(WithCount(CardPlayed(t, c, p), n)) = {c}
    BY DEF NamedIn, WithCount, CardPlayed
  <2>. QED BY <2>1, <2>2
<1>3. ASSUME NEW t \in Seat, e = DiscardedBy(t, thrown[t])
      PROVE  NamedIn(Sent(s, e, n)) \subseteq thrown[s]
  <2>1. Sent(s, e, n) = IF t = s THEN DiscardedBy(t, thrown[t])
                                 ELSE [type |-> "discarded", seat |-> t]
    BY <1>3, SentForms
  <2>2. NamedIn(DiscardedBy(t, thrown[t])) = thrown[t]
    BY DEF NamedIn, DiscardedBy
  <2>3. NamedIn([type |-> "discarded", seat |-> t]) = {}
    BY DEF NamedIn
  <2>. QED BY <2>1, <2>2, <2>3
<1>4. ASSUME NEW h \in Nat, e = StarterCut(starter, h)
      PROVE  NamedIn(Sent(s, e, n)) = {starter}
  <2>1. Sent(s, e, n) = StarterCut(starter, h)
    BY <1>4, SentForms
  <2>. QED BY <2>1 DEF NamedIn, StarterCut
<1>. QED BY <1>1, <1>2, <1>3, <1>4 DEF OpenNow, Openly, Seat

LEMMA LastDealIs ==
  ASSUME DealInv, NEW k, DealtAt(k)
  PROVE  LastDeal = k
<1>1. IsLog(log) /\ Len(log) \in Nat /\ DOMAIN log = 1..Len(log) /\ k \in 2..Len(log)
  BY LogFacts DEF DealInv, DealtAt
<1>2. log[k].type = "hand_dealt"
  BY DEF DealtAt, HandDealt
<1>3. \A j \in (k + 1)..Len(log) : log[j].type # "hand_dealt"
  <2>1. ASSUME NEW e, OpenNow(e) PROVE e.type # "hand_dealt"
    BY <2>1 DEF OpenNow, Openly, Plain, Pass, GoAwarded, SeriesReset, CardPlayed,
                DiscardedBy, StarterCut
  <2>. QED BY <2>1 DEF DealtAt
<1>. DEFINE Is(i) == log[i].type = "hand_dealt" /\ \A j \in (i + 1)..Len(log) : log[j].type # "hand_dealt"
<1>4. k \in DOMAIN log /\ Is(k)
  BY <1>1, <1>2, <1>3
<1>5. LastDeal = CHOOSE i \in DOMAIN log : Is(i)
  BY DEF LastDeal
<1>6. LastDeal \in DOMAIN log /\ Is(LastDeal)
  <2>. HIDE DEF Is
  <2>. QED BY <1>4, <1>5
<1>7. LastDeal \in 1..Len(log) /\ log[LastDeal].type = "hand_dealt"
      /\ \A j \in (LastDeal + 1)..Len(log) : log[j].type # "hand_dealt"
  BY <1>1, <1>6
<1>. QED BY <1>1, <1>2, <1>3, <1>7

\* A seat knows its own cards, the table and the cut, and none of the rest.
LEMMA OthersCards ==
  ASSUME GameInv, CutInv, DealInv, winner = NoSeat, NEW s \in Seat
  PROVE  LET hidden == hands[Other(s)] \cup thrown[Other(s)] \cup {rest}
         IN  /\ AllOf(s) \cap hidden = {}
             /\ (played[0] \cup played[1] \cup thrown[s]
                  \cup (IF phase = "play" THEN {starter} ELSE {})) \cap hidden = {}
<1>1. /\ AllOf(0) \cap AllOf(1) = {}
      /\ \A t \in Seat : /\ AllOf(t) \subseteq Card
                         /\ played[t] \cap (hands[t] \cup thrown[t]) = {}
      /\ phase \in {"discard", "play"}
      /\ phase = "discard" => rest \in Card
      /\ phase = "play" => rest = NoCard /\ starter \in Card
  BY DEF GameInv, TypeOK, CardInv, ScoreInv, OnlyTheWinnerIsAtTarget, DealInv, AllOf
<1>2. NoCard \notin Card
  BY DEF NoCard, Card, Rank
<1>3. /\ phase = "discard" => \A t \in Seat : rest \notin AllOf(t)
      /\ phase = "play" => \A t \in Seat : starter \notin AllOf(t)
  BY DEF CutInv, AllOf, GameInv, CardInv
<1>4. s = 0 \/ s = 1
  BY DEF Seat
<1>5. Other(0) = 1 /\ Other(1) = 0 /\ 0 \in Seat /\ 1 \in Seat
  BY DEF Other, Seat
<1>6. CASE phase = "discard"
  BY <1>1, <1>3, <1>4, <1>5, <1>6 DEF AllOf
<1>7. CASE phase = "play"
  BY <1>1, <1>2, <1>3, <1>4, <1>5, <1>7 DEF AllOf
<1>. QED BY <1>1, <1>6, <1>7

LEMMA SecretHands ==
  ASSUME GameInv, CutInv, DealInv
  PROVE  HandsStaySecret
<1>. SUFFICES ASSUME winner = NoSeat, NEW s \in Seat, NEW i \in LastDeal..Len(log)
              PROVE  NamedIn(Delta(s, log, i))
                       \cap (hands[Other(s)] \cup thrown[Other(s)] \cup {rest}) = {}
  BY DEF HandsStaySecret
<1>1. PICK k \in 2..Len(log) : DealtAt(k)
  BY DEF DealInv
<1>2. LastDeal = k /\ i \in k..Len(log) /\ Len(log) \in Nat
  BY <1>1, LastDealIs, LogFacts DEF DealInv
<1>3. CASE i = k
  <2>1. PICK dl, hs : log[k] = HandDealt(dl, hs) /\ \A t \in Seat : hs[t] = AllOf(t)
    BY <1>1 DEF DealtAt
  <2>2. Delta(s, log, i) = [type |-> "hand_dealt", dealer |-> dl, hand |-> hs[s]]
    BY <1>3, <2>1, DeltaIs, SentForms
  <2>3. NamedIn(Delta(s, log, i)) = AllOf(s)
    BY <2>1, <2>2 DEF NamedIn
  <2>. QED BY <2>3, OthersCards
<1>4. CASE i \in (k + 1)..Len(log)
  <2>1. OpenNow(log[i])
    BY <1>1, <1>4 DEF DealtAt
  <2>. QED BY <2>1, DeltaIs, SentOpenly, OthersCards
<1>. QED BY <1>2, <1>3, <1>4

-----------------------------------------------------------------------------
(***************************************************************************)
(* The page's table, field by field.                                       *)
(***************************************************************************)
IsTable(u) ==
  {"dealer", "score", "hand", "botCards", "played", "count", "starter", "cribCount",
   "inPlay", "show", "over"} \subseteq DOMAIN u

\* What a step leaves of it alone.
SameBut(fields, r, u) ==
  /\ IsTable(r)
  /\ "dealer" \in fields \/ r.dealer = u.dealer
  /\ "score" \in fields \/ r.score = u.score
  /\ "hand" \in fields \/ r.hand = u.hand
  /\ "botCards" \in fields \/ r.botCards = u.botCards
  /\ "played" \in fields \/ r.played = u.played
  /\ "count" \in fields \/ r.count = u.count
  /\ "starter" \in fields \/ r.starter = u.starter
  /\ "cribCount" \in fields \/ r.cribCount = u.cribCount
  /\ "inPlay" \in fields \/ r.inPlay = u.inPlay
  /\ "show" \in fields \/ r.show = u.show
  /\ "over" \in fields \/ r.over = u.over

LEMMA FreshFields ==
  /\ IsTable(Fresh)
  /\ Fresh.score = [s \in Seat |-> 0] /\ Fresh.over = NoResult
  /\ Fresh.count = 0 /\ Fresh.starter = NoCard /\ Fresh.played = Empty
  /\ Fresh.show = NoReveal
BY DEF Fresh, IsTable

LEMMA HandFields ==
  ASSUME NEW u, IsTable(u), NEW hd
  PROVE  LET r == [u EXCEPT !.hand = hd] IN SameBut({"hand"}, r, u) /\ r.hand = hd
BY DEF IsTable, SameBut

LEMMA DealtFields ==
  ASSUME NEW u, IsTable(u), NEW dl, NEW hd
  PROVE  LET r == Dealt(u, dl, hd)
         IN  /\ IsTable(r) /\ r.score = u.score /\ r.show = u.show /\ r.over = u.over
             /\ r.dealer = dl /\ r.hand = hd /\ r.botCards = 6
             /\ r.played = Empty /\ r.count = 0 /\ r.starter = NoCard /\ r.cribCount = 0
BY DEF IsTable, Dealt

LEMMA NextHandFields ==
  ASSUME NEW u, IsTable(u), NEW dl, NEW hd
  PROVE  LET r == Dealt(HandComplete(u, dl), dl, hd)
         IN  /\ IsTable(r) /\ r.score = u.score /\ r.over = u.over
             /\ r.dealer = dl /\ r.hand = hd /\ r.botCards = 6 /\ r.show = NoReveal
             /\ r.played = Empty /\ r.count = 0 /\ r.starter = NoCard /\ r.cribCount = 0
BY DEF IsTable, Dealt, HandComplete

LEMMA AwardedFields ==
  ASSUME NEW u, IsTable(u), NEW s, NEW p
  PROVE  LET r == Awarded(u, s, p)
         IN  /\ SameBut({"score"}, r, u)
             /\ r.score = [u.score EXCEPT ![s] = Capped(@ + p)]
BY DEF IsTable, Awarded, SameBut

LEMMA CutFields ==
  ASSUME NEW u, IsTable(u), NEW c, NEW r,
         r = [u EXCEPT !.cribCount = 4, !.botCards = 4, !.starter = c, !.inPlay = TRUE]
  PROVE  /\ SameBut({"cribCount", "botCards", "starter", "inPlay"}, r, u)
         /\ r.cribCount = 4 /\ r.botCards = 4 /\ r.starter = c /\ r.inPlay
BY DEF IsTable, SameBut

LEMMA LaidFields ==
  ASSUME NEW u, IsTable(u), NEW d
  PROVE  LET r == Laid(u, d)
         IN  /\ SameBut({"score", "played", "count", "botCards"}, r, u)
             /\ r.score = [u.score EXCEPT ![d.seat] = Capped(@ + d.points)]
             /\ r.played = [u.played EXCEPT ![d.seat] = @ \cup {d.card}]
             /\ r.count = d.count
             /\ r.botCards = IF d.seat = Bot /\ u.botCards > 0 THEN u.botCards - 1
                                                              ELSE u.botCards
BY DEF IsTable, Laid, Awarded, SameBut

LEMMA CountFields ==
  ASSUME NEW u, IsTable(u)
  PROVE  LET r == [u EXCEPT !.count = 0] IN SameBut({"count"}, r, u) /\ r.count = 0
BY DEF IsTable, SameBut

LEMMA RevealFields ==
  ASSUME NEW u, IsTable(u), NEW s, NEW isCrib, NEW cs
  PROVE  SameBut({"botCards", "starter", "inPlay", "played", "show"}, Reveal(u, s, isCrib, cs), u)
BY DEF IsTable, SameBut, Reveal

LEMMA OverFields ==
  ASSUME NEW u, IsTable(u), NEW w
  PROVE  LET r == GameOverBox(u, w)
         IN  /\ SameBut({"over"}, r, u)
             /\ r.over = [won |-> w = You, my |-> Capped(u.score[You]),
                          opp |-> Capped(u.score[Bot]), skunk |-> SkunkOf(u.score, w)]
BY DEF IsTable, SameBut, GameOverBox

LEMMA HydratedFields ==
  ASSUME NEW v
  PROVE  LET r == Hydrated(v)
         IN  /\ IsTable(r) /\ r.show = NoReveal /\ r.over = NoResult
             /\ r.dealer = v.dealer /\ r.score = v.scores /\ r.hand = v.yourHand
             /\ r.botCards = v.opponentCards /\ r.count = v.count
             /\ r.played = [s \in Seat |-> IF s = You THEN v.yourPlayed ELSE v.opponentPlayed]
             /\ r.starter = (IF v.phase = "discard" THEN NoCard ELSE v.starter)
             /\ r.inPlay = (v.phase = "play")
             /\ r.cribCount = IF v.phase = "discard" THEN 0 ELSE 4
BY DEF IsTable, Hydrated, Fresh

-----------------------------------------------------------------------------
(***************************************************************************)
(* The driver and the server take turns: while the server answers, the     *)
(* page waits or has gone, and what it rests at is the person's decision.  *)
(***************************************************************************)
Moves ==
  {[type |-> "discard", cards |-> two] : two \in Throws} \cup {[type |-> "play", card |-> c] : c \in Card}

Untouched ==
  /\ ~busy /\ phase = "discard" /\ thrown[You] = {} /\ winner = NoSeat
  /\ scores = [s \in Seat |-> 0]

Control ==
  /\ at # "stranded"
  /\ IsTable(ui)
  /\ busy => at \in {"posting", "resuming", "dead", "elsewhere"}
  /\ ~busy /\ at # "creating" => ~BotToAct
  /\ at \in {"creating", "opening"} => Untouched
  /\ at = "posting" => move \in Moves
  /\ at \in {"discarding", "playing"} => winner = NoSeat /\ ui.hand = hands[You]
  /\ at = "discarding" => phase = "discard"
  /\ at = "playing" => phase = "play"
  /\ at # "animating" => deltas = <<>>

LEMMA ShownTable ==
  ASSUME NEW u, IsTable(u), NEW d PROVE IsTable(Shown(u, d))
<1>1. IsTable(Dealt(HandComplete(u, d.dealer), d.dealer, d.hand))
  BY NextHandFields
<1>2. \A s, p : IsTable(Awarded(u, s, p))
  BY AwardedFields DEF SameBut
<1>3. IsTable([Awarded(u, ctx.dealer, d.points) EXCEPT !.cribCount = 4, !.botCards = 4,
                                       !.starter = d.card, !.inPlay = TRUE])
  BY <1>2, CutFields DEF SameBut
<1>4. IsTable(Laid(u, d)) /\ IsTable([u EXCEPT !.count = 0])
  BY LaidFields, CountFields DEF SameBut
<1>5. \A s, x, cs : IsTable(Reveal(u, s, x, cs))
  BY RevealFields DEF SameBut
<1>6. \A q, p, s, x, cs : IsTable(Reveal(Awarded(u, q, p), s, x, cs))
  BY <1>2, RevealFields DEF SameBut
<1>7. \A w : IsTable(GameOverBox(u, w))
  BY OverFields DEF SameBut
<1>. QED BY <1>1, <1>2, <1>3, <1>4, <1>5, <1>6, <1>7 DEF Shown

LEMMA PlayLegal ==
  ASSUME NEW s, NEW c, Play(s, c) PROVE c \in hands[s]
<1>1. LegalPlay(s, c)
  BY Zenon DEF Play, PlayWins, PlayThenOpponent, PlayThenSamePlayer, PlayThirtyOne, PlayGo, LastCardWins,
         Show, LastCard
<1>. QED BY <1>1 DEF LegalPlay

LEMMA ApplyIsLogged ==
  ASSUME NEW s \in Seat, NEW cmd, cmd \in Moves, Apply(s, cmd)
  PROVE  HistoryNext
<1>1. CASE cmd.type = "discard"
  <2>1. cmd.cards \in Throws
    BY <1>1 DEF Moves
  <2>2. LoggedDiscard(s, cmd.cards)
    BY <1>1 DEF Apply
  <2>. QED BY <2>1, <2>2 DEF HistoryNext
<1>2. CASE cmd.type # "discard"
  <2>1. LoggedPlay(s, cmd.card)
    BY <1>2 DEF Apply
  <2>2. cmd.card \in hands[s]
    BY <2>1, PlayLegal DEF LoggedPlay
  <2>. QED BY <2>1, <2>2 DEF HistoryNext
<1>. QED BY <1>1, <1>2

LEMMA MoveForms ==
  /\ \A two \in Throws : [type |-> "discard", cards |-> two] \in Moves
  /\ \A c \in Card : [type |-> "play", card |-> c] \in Moves
BY DEF Moves

LEMMA TableIsHistory == GameInv /\ Control /\ [TableNext]_tableVars => [HistoryNext]_historyVars
<1>. SUFFICES ASSUME GameInv, Control, [TableNext]_tableVars PROVE [HistoryNext]_historyVars
  OBVIOUS
<1>1. ASSUME UNCHANGED historyVars PROVE [HistoryNext]_historyVars
  BY <1>1
<1>2. You \in Seat /\ Bot \in Seat
  BY DEF You, Bot, Seat
<1>3. CASE Create
  <2>1. PICK two \in Throws : Apply(Bot, [type |-> "discard", cards |-> two])
    BY <1>3 DEF Create
  <2>. QED BY <1>2, <2>1, MoveForms, ApplyIsLogged
<1>4. CASE Handle
  <2>1. move \in Moves /\ Apply(You, move)
    BY <1>4 DEF Handle, Control
  <2>. QED BY <1>2, <2>1, ApplyIsLogged
<1>5. CASE BotMoves
  <2>1. \A c \in LegalPlays(Bot) : c \in Card
    BY <1>2 DEF LegalPlays, GameInv, TypeOK
  <2>2. \E cmd \in Moves : Apply(Bot, cmd)
    BY <1>5, <2>1, MoveForms DEF BotMoves
  <2>. QED BY <1>2, <2>2, ApplyIsLogged
<1>6. CASE Answer \/ Open \/ Ask \/ Animate \/ AskAgain \/ Resume \/ Reload \/ Lose
  BY <1>1, <1>6 DEF Answer, Open, Ask, Animate, AskAgain, Resume, Reload, Lose
<1>7. CASE PersonStep
  BY <1>1, <1>7 DEF PersonStep, PostDiscard, PostPlay
<1>8. CASE UNCHANGED tableVars
  BY <1>1, <1>8 DEF tableVars
<1>. QED BY <1>3, <1>4, <1>5, <1>6, <1>7, <1>8 DEF TableNext, ServerStep, PageStep

LEMMA TableIsLogged == GameInv /\ Control /\ [TableNext]_tableVars => Logged
BY TableIsHistory, HistoryIsLogged

LEMMA CreateControl == GameInv /\ Control /\ Create => Control'
<1>. SUFFICES ASSUME GameInv, Control, Create PROVE Control'
  OBVIOUS
<1>1. PICK two \in Throws : Apply(Bot, [type |-> "discard", cards |-> two])
  BY DEF Create
<1>2. Discard(Bot, two)
  BY <1>1 DEF Apply, LoggedDiscard
<1>3. You \in Seat /\ Bot \in Seat /\ You # Bot /\ Other(Bot) = You
  BY DEF You, Bot, Seat, Other
<1>4. Untouched /\ thrown \in [Seat -> SUBSET Card]
  BY DEF Create, Control, GameInv, TypeOK
<1>5. /\ thrown' = [thrown EXCEPT ![Bot] = two] /\ phase' = "discard"
      /\ scores' = scores /\ winner' = winner
  BY <1>2, <1>3, <1>4 DEF Discard, Discarded, Untouched
<1>6. two # {}
  BY ThrowFacts
<1>7. Untouched' /\ ~BotToAct'
  BY <1>3, <1>4, <1>5, <1>6 DEF Untouched, BotToAct, Discarded, Create
<1>. QED BY <1>7 DEF Create, Control

LEMMA HandleControl == Control /\ Handle => Control'
BY DEF Handle, Control, pageVars

LEMMA BotMovesControl == Control /\ BotMoves => Control'
BY DEF BotMoves, Control, pageVars

LEMMA AnswerControl == Control /\ Answer => Control'
<1>. SUFFICES ASSUME Control, Answer PROVE Control'
  OBVIOUS
<1>1. ~BotToAct' /\ ~busy' /\ at' # "creating"
  BY DEF Answer, Control, BotToAct, Discarded, historyVars, vars, Turn, CanPlay
<1>2. at' \in {at, "animating"} /\ (at' # "animating" => deltas' = deltas)
  BY DEF Answer
<1>. QED BY <1>1, <1>2 DEF Answer, Control

\* Where the driver finds the game when it asks.
LEMMA RestsAtYou ==
  ASSUME GameInv, ~BotToAct, winner = NoSeat
  PROVE  \/ phase = "discard" /\ Cardinality(hands[You]) = 6
         \/ phase = "play" /\ Turn = You
<1>1. You \in Seat /\ Bot \in Seat /\ You # Bot /\ Seat = {You, Bot}
  BY DEF You, Bot, Seat
<1>2. phase \in {"discard", "play"}
  BY DEF GameInv, TypeOK, ScoreInv, OnlyTheWinnerIsAtTarget
<1>3. CASE phase = "discard"
  <2>1. thrown[Bot] # {} /\ \E s \in Seat : thrown[s] = {}
    BY <1>3 DEF BotToAct, Discarded, GameInv, CardInv
  <2>2. thrown[You] = {} /\ played[You] = {}
    BY <1>1, <1>3, <2>1 DEF GameInv, CardInv
  <2>3. Cardinality(hands[You]) + Cardinality(played[You]) + Cardinality(thrown[You]) = 6
    BY <1>1 DEF GameInv, CardInv
  <2>4. Cardinality(hands[You]) \in Nat
    BY <1>1, FS_CardinalityType DEF GameInv, CardInv
  <2>. QED BY <1>3, <2>2, <2>3, <2>4, FS_EmptySet
<1>4. CASE phase = "play"
  <2>1. Turn \in Seat
    BY SeatFacts DEF Turn, GameInv, TypeOK
  <2>. QED BY <1>1, <1>4, <2>1 DEF BotToAct
<1>. QED BY <1>2, <1>3, <1>4

LEMMA SnapshotFields ==
  LET v == Snapshot
  IN  /\ v.dealer = dealer /\ v.phase = phase /\ v.scores = scores
      /\ v.yourHand = hands[You] /\ v.opponentCards = Cardinality(hands[Bot])
      /\ v.yourPlayed = played[You] /\ v.opponentPlayed = played[Bot]
      /\ v.count = count /\ v.starter = starter /\ v.winner = winner
      /\ v.cribCards = Cardinality(Crib)
      /\ v.toPlay = IF phase = "play" THEN Turn ELSE NoSeat
      /\ v.legalPlays \subseteq hands[You]
<1>1. TurnIn(Live) = Turn
  BY DEF TurnIn, Live, Turn, CanPlay
<1>2. Other(You) = Bot
  BY DEF Other, You, Bot
<1>. QED BY <1>1, <1>2 DEF Snapshot, View, Live, Crib

LEMMA OpenControl == Control /\ Open => Control'
<1>. SUFFICES ASSUME Control, Open PROVE Control'
  OBVIOUS
<1>1. IsTable(ui')
  BY FreshFields, DealtFields DEF Open
<1>2. ~BotToAct' /\ ~busy'
  BY DEF Open, Control, Untouched, BotToAct, Discarded, historyVars, vars, Turn, CanPlay
<1>. QED BY <1>1, <1>2 DEF Open, Control

LEMMA AskControl == GameInv /\ Control /\ Ask => Control'
<1>. SUFFICES ASSUME GameInv, Control, Ask PROVE Control'
  OBVIOUS
<1>1. ~BotToAct /\ ~busy
  BY DEF Ask, Control
<1>2. ~BotToAct' /\ ~busy'
  BY <1>1 DEF Ask, BotToAct, Discarded, historyVars, vars, Turn, CanPlay
<1>3. winner' = winner /\ hands' = hands /\ phase' = phase /\ deltas' = deltas
  BY DEF Ask, historyVars, vars
<1>4. CASE winner # NoSeat
  <2>1. at' = "over" /\ ui' = ui
    BY <1>4, SnapshotFields DEF Ask
  <2>. QED BY <1>2, <1>3, <2>1 DEF Control, Ask
<1>5. CASE winner = NoSeat
  <2>1. ui' = [ui EXCEPT !.hand = hands[You]]
    BY <1>5, SnapshotFields DEF Ask
  <2>2. IsTable(ui') /\ ui'.hand = hands[You]
    BY <2>1, HandFields DEF Control, SameBut
  <2>3. \/ phase = "discard" /\ at' = "discarding"
        \/ phase = "play" /\ at' = "playing"
    <3>1. CASE phase = "discard" /\ Cardinality(hands[You]) = 6
      BY <1>5, <3>1, SnapshotFields DEF Ask
    <3>2. CASE phase = "play" /\ Turn = You
      BY <1>5, <3>2, SnapshotFields DEF Ask
    <3>. QED BY <1>1, <1>5, <3>1, <3>2, RestsAtYou
  <2>. QED BY <1>2, <1>3, <1>5, <2>2, <2>3 DEF Control, Ask
<1>. QED BY <1>4, <1>5

LEMMA PersonControl == GameInv /\ Control /\ PersonStep => Control'
<1>. SUFFICES ASSUME GameInv, Control, PersonStep PROVE Control'
  OBVIOUS
<1>1. /\ at \in {"discarding", "playing"} /\ at' = "posting" /\ deltas' = deltas
      /\ UNCHANGED <<historyVars, busy>>
  BY DEF PersonStep, PostDiscard, PostPlay
<1>2. ~BotToAct' /\ ~busy'
  BY <1>1 DEF Control, BotToAct, Discarded, historyVars, vars, Turn, CanPlay
<1>3. IsTable(ui')
  BY HandFields DEF PersonStep, PostDiscard, PostPlay, Control, SameBut
<1>4. move' \in Moves
  <2>1. CASE \E two \in Throws : PostDiscard(two)
    BY <2>1, MoveForms DEF PostDiscard
  <2>2. CASE \E c \in ui.hand : PostPlay(c)
    <3>1. PICK c : c \in Snapshot.legalPlays /\ move' = [type |-> "play", card |-> c]
      BY <2>2 DEF PostPlay
    <3>2. c \in Card
      BY <3>1, SnapshotFields DEF GameInv, TypeOK, You, Seat
    <3>. QED BY <3>1, <3>2, MoveForms
  <2>. QED BY <2>1, <2>2 DEF PersonStep
<1>. QED BY <1>1, <1>2, <1>3, <1>4 DEF Control

LEMMA AnimateControl == Control /\ Animate => Control'
<1>. SUFFICES ASSUME Control, Animate PROVE Control'
  OBVIOUS
<1>1. IsTable(ui')
  BY ShownTable DEF Animate, Control
<1>2. ~BotToAct' /\ ~busy'
  BY DEF Animate, Control, BotToAct, Discarded, historyVars, vars, Turn, CanPlay
<1>. QED BY <1>1, <1>2 DEF Animate, Control

LEMMA AskAgainControl == Control /\ AskAgain => Control'
<1>. SUFFICES ASSUME Control, AskAgain PROVE Control'
  OBVIOUS
<1>2. ~BotToAct' /\ ~busy'
  BY DEF AskAgain, Control, BotToAct, Discarded, historyVars, vars, Turn, CanPlay
<1>. QED BY <1>2 DEF AskAgain, Control

LEMMA AwayControl == Control /\ (Reload \/ Resume \/ Lose) => Control'
<1>. SUFFICES ASSUME Control, Reload \/ Resume \/ Lose PROVE Control'
  OBVIOUS
<1>1. UNCHANGED <<historyVars, busy>> /\ at # "creating"
  BY DEF Reload, Resume, Lose
<1>2. ~busy' => ~BotToAct'
  BY <1>1 DEF Control, BotToAct, Discarded, historyVars, vars, Turn, CanPlay
<1>3. CASE Reload
  BY <1>1, <1>2, <1>3, FreshFields DEF Reload, Control
<1>4. CASE Resume
  <2>1. IsTable(ui') /\ at' \in {"elsewhere", "asking"}
    BY <1>4, HydratedFields DEF Resume, Control
  <2>. QED BY <1>1, <1>2, <1>4, <2>1 DEF Resume, Control
<1>5. CASE Lose
  BY <1>1, <1>2, <1>5 DEF Lose, Control
<1>. QED BY <1>3, <1>4, <1>5

LEMMA ControlNext == GameInv /\ Control /\ [TableNext]_tableVars => Control'
<1>1. ASSUME Control, UNCHANGED tableVars PROVE Control'
  BY <1>1 DEF Control, tableVars, pageVars, historyVars, vars, BotToAct, Discarded, Turn, CanPlay,
              Untouched
<1>. QED BY <1>1, CreateControl, HandleControl, BotMovesControl, AnswerControl, OpenControl,
            AskControl, PersonControl, AnimateControl, AskAgainControl, AwayControl
     DEF TableNext, ServerStep, PageStep

LEMMA InitControl == TableInit => Control
<1>. SUFFICES ASSUME TableInit PROVE Control
  OBVIOUS
<1>1. PICK open \in Openings : /\ phase = "discard" /\ thrown = Empty /\ winner = NoSeat
                               /\ scores = open.scores
  BY DEF TableInit, HistoryInit, Init
<1>2. open.scores = [s \in Seat |-> 0]
  BY BotGameAssumption DEF Openings
<1>3. thrown[You] = {}
  BY <1>1, EmptyFacts DEF You, Seat
<1>. QED BY <1>1, <1>2, <1>3, FreshFields DEF TableInit, Control, Untouched

-----------------------------------------------------------------------------
(***************************************************************************)
(* The order of the events in the whole log.                               *)
(***************************************************************************)
ShapeInv == \A i \in 3..Len(log) : May(Stage(log[i - 1]), log[i])

LEMMA LastStage ==
  ASSUME DealInv, winner = NoSeat
  PROVE  /\ Len(log) \in Nat /\ Len(log) >= 2
         /\ Stage(log[Len(log)]) \in {"deal", "throw", "play"}
<1>1. PICK k \in 2..Len(log) : DealtAt(k)
  BY DEF DealInv
<1>2. Len(log) \in Nat
  BY LogFacts DEF DealInv
<1>3. ASSUME NEW e, OpenNow(e) PROVE Stage(e) \in {"deal", "throw", "play"}
  BY <1>3 DEF OpenNow, Openly, Plain, Stage, Pass, GoAwarded, SeriesReset, CardPlayed,
              DiscardedBy, StarterCut
<1>4. CASE Len(log) = k
  BY <1>1, <1>2, <1>4 DEF DealtAt, HandDealt, Stage
<1>5. CASE Len(log) # k
  <2>0. \A l \in Nat : k \in 2..l /\ l # k => l \in (k + 1)..l
    BY <1>2
  <2>1. Len(log) \in (k + 1)..Len(log)
    BY <1>1, <1>2, <1>5, <2>0
  <2>2. OpenNow(log[Len(log)])
    BY <1>1, <2>1 DEF DealtAt
  <2>. QED BY <1>2, <1>3, <2>2
<1>. QED BY <1>4, <1>5

LEMMA ShapeGoesOn ==
  ASSUME LogInv, ShapeInv, Stage(log[Len(log)]) \in {"deal", "throw", "play"},
         NEW e, Command(e), Led(out', e), log' = log \o out'
  PROVE  ShapeInv'
<1>1. PICK S : /\ out' \in Seq(S) /\ Len(out') >= 1 /\ out'[1] = e
               /\ \A i \in 2..Len(out') : May(Stage(out'[i - 1]), out'[i])
  BY DEF Led
<1>. DEFINE l == Len(log)
            n == Len(out')
<1>2. /\ l \in Nat /\ n \in Nat /\ Len(log') = l + n /\ l >= 2
      /\ \A i \in 1..l : log'[i] = log[i]
      /\ \A i \in (l + 1)..(l + n) : log'[i] = out'[i - l]
  <2>1. IsLog(out')
    BY <1>1 DEF IsLog
  <2>. QED BY <2>1, JoinedLog DEF LogInv
<1>3. May(Stage(log[l]), e)
  BY DEF May, Command
<1>. HIDE DEF l, n
<1>4. ASSUME NEW i \in 3..(l + n) PROVE May(Stage(log'[i - 1]), log'[i])
  <2>1. CASE i \in 3..l
    <3>1. i \in 1..l /\ i - 1 \in 1..l
      BY <1>2, <2>1
    <3>. QED BY <1>2, <2>1, <3>1 DEF ShapeInv, l
  <2>2. CASE i = l + 1
    <3>1. i - 1 = l /\ l \in 1..l /\ i \in (l + 1)..(l + n) /\ i - l = 1
      BY <1>2, <2>2
    <3>. QED BY <1>1, <1>2, <1>3, <3>1
  <2>3. CASE i \in (l + 2)..(l + n)
    <3>1. /\ i \in (l + 1)..(l + n) /\ i - 1 \in (l + 1)..(l + n)
          /\ i - l \in 2..n /\ (i - 1) - l = (i - l) - 1
      BY <1>2, <2>3
    <3>2. log'[i] = out'[i - l] /\ log'[i - 1] = out'[(i - l) - 1]
      BY <1>2, <3>1
    <3>. QED BY <1>1, <3>1, <3>2 DEF n
  <2>4. i \in 3..l \/ i = l + 1 \/ i \in (l + 2)..(l + n)
    <3>1. l \in Nat /\ n \in Nat
      BY <1>2
    <3>. QED BY <3>1
  <2>. QED BY <2>1, <2>2, <2>3, <2>4
<1>. QED BY <1>2, <1>4 DEF ShapeInv

\* A game that is won takes no command.
LEMMA WonTakesNone ==
  ASSUME GameInv, winner # NoSeat
  PROVE  /\ \A s, two : ~Discard(s, two)
         /\ \A s, c : ~Play(s, c)
<1>1. phase = "complete"
  BY DEF GameInv, ScoreInv, OnlyTheWinnerIsAtTarget
<1>2. ASSUME NEW s, NEW c, Play(s, c) PROVE LegalPlay(s, c)
  BY <1>2, Zenon DEF Play, PlayWins, PlayThenOpponent, PlayThenSamePlayer, PlayThirtyOne, PlayGo,
         LastCardWins, Show, LastCard
<1>. QED BY <1>1, <1>2 DEF Discard, LegalPlay

LEMMA ShapeInvNext == GameInv /\ LogInv /\ DealInv /\ ShapeInv /\ Logged => ShapeInv'
<1>. SUFFICES ASSUME GameInv, LogInv, DealInv, ShapeInv, Logged PROVE ShapeInv'
  OBVIOUS
<1>1. CASE winner = NoSeat
  <2>0. Stage(log[Len(log)]) \in {"deal", "throw", "play"}
    BY <1>1, LastStage
  <2>1. ASSUME NEW s \in Seat, NEW two \in Throws, Discard(s, two), log' = log \o out'
        PROVE  ShapeInv'
    <3>1. Command(DiscardedBy(s, two))
      BY Commands
    <3>. QED BY <2>0, <2>1, <3>1, LedDiscard, ShapeGoesOn
  <2>2. ASSUME NEW s \in Seat, NEW c \in hands[s], Play(s, c), log' = log \o out'
        PROVE  ShapeInv'
    <3>1. Score(pile, c) \in Nat
      BY <2>2, PlayMovesSeries, LayFacts
    <3>2. Command(CardPlayed(s, c, Score(pile, c)))
      BY <3>1, Commands
    <3>. QED BY <2>0, <2>2, <3>2, LedPlay, ShapeGoesOn
  <2>3. CASE UNCHANGED log
    BY <2>3 DEF ShapeInv
  <2>. QED BY <2>1, <2>2, <2>3 DEF Logged
<1>2. CASE winner # NoSeat
  <2>1. UNCHANGED log
    BY <1>2, WonTakesNone DEF Logged
  <2>. QED BY <2>1 DEF ShapeInv
<1>. QED BY <1>1, <1>2

LEMMA InitShape == HistoryInit => ShapeInv
<1>. SUFFICES ASSUME HistoryInit PROVE ShapeInv
  OBVIOUS
<1>1. PICK a, b : log = <<a, b>>
  BY DEF HistoryInit, Init
<1>2. Len(log) = 2
  BY <1>1
<1>. QED BY <1>2 DEF ShapeInv

-----------------------------------------------------------------------------
(***************************************************************************)
(* The game as it stood after each event: what is laid was held, and the   *)
(* count it travels with is the one it makes.                              *)
(***************************************************************************)
AfterOf(events, n) == Folded(Target, SubSeq(events, 1, n))

\* The event e comes next in the game g, with the count n.
ComesNext(g, e, n) ==
  /\ e.type = "card_played" =>
       /\ g.phase = "play" /\ g.hands \in [Seat -> SUBSET Card]
       /\ e.seat \in Seat /\ e.card \in g.hands[e.seat] /\ IsFiniteSet(g.hands[Bot])
       /\ n = g.count + Pip(e.card)
  /\ e.type = "starter_cut" =>
       Cardinality(g.hands[Bot]) = 4 /\ \A t \in Seat : g.thrown[t] # {}
  /\ e.type = "discarded" =>
       /\ g.phase = "discard" /\ g.thrown \in [Seat -> SUBSET Card]
       /\ e.seat \in Seat /\ g.thrown[e.seat] = {} /\ e.cards \in SUBSET Card /\ e.cards # {}

FitsAt(events, i) ==
  ComesNext(AfterOf(events, i), events[i + 1], ScoredCount(events, i + 1))

FitInv == \A i \in 2..(Len(log) - 1) : FitsAt(log, i)

LEMMA PrefixFolds ==
  ASSUME NEW cap, NEW events, IsLog(events), NEW n \in Nat, n + 1 \in 1..Len(events)
  PROVE  Folded(cap, SubSeq(events, 1, n + 1))
           = Reduce(cap, Folded(cap, SubSeq(events, 1, n)), events[n + 1])
<1>1. PICK S : events \in Seq(S)
  BY DEF IsLog
<1>2. Len(events) \in Nat
  BY <1>1
<1>. DEFINE a == SubSeq(events, 1, n)
<1>3. a \in Seq(S)
  BY <1>1, <1>2
<1>4. SubSeq(events, 1, n + 1) = Append(a, events[n + 1])
  <2>1. SubSeq(events, 1, n + 1) \in Seq(S) /\ Append(a, events[n + 1]) \in Seq(S)
    BY <1>1, <1>2, <1>3
  <2>2. Len(SubSeq(events, 1, n + 1)) = n + 1 /\ Len(Append(a, events[n + 1])) = n + 1
    BY <1>1, <1>2
  <2>3. \A j \in 1..(n + 1) : SubSeq(events, 1, n + 1)[j] = Append(a, events[n + 1])[j]
    BY <1>1, <1>2
  <2>. QED BY <2>1, <2>2, <2>3
<1>. HIDE DEF a
<1>5. IsLog(a)
  BY <1>3 DEF IsLog
<1>6. \A e : Folded(cap, Append(a, e)) = Reduce(cap, Folded(cap, a), e)
  BY <1>5, FoldedGoesOn
<1>. QED BY <1>4, <1>6 DEF a

LEMMA PrefixGoesOn ==
  ASSUME NEW events, IsLog(events), NEW n \in Nat, n + 1 \in 1..Len(events)
  PROVE  AfterOf(events, n + 1) = Reduce(Target, AfterOf(events, n), events[n + 1])
BY PrefixFolds DEF AfterOf

\* What was so of a log stays so.
LEMMA FitsStay ==
  ASSUME NEW events, IsLog(events), NEW more, IsLog(more), NEW all, all = events \o more
  PROVE  /\ \A n \in 0..Len(events) : AfterOf(all, n) = AfterOf(events, n)
         /\ \A i \in 2..(Len(events) - 1) : FitsAt(events, i) => FitsAt(all, i)
         /\ AfterOf(all, Len(events)) = Folded(Target, events)
<1>1. /\ Len(events) \in Nat
      /\ \A i \in 1..Len(events) : all[i] = events[i]
      /\ \A i \in 0..Len(events) : SubSeq(all, 1, i) = SubSeq(events, 1, i)
      /\ SubSeq(all, 1, Len(events)) = events
  BY JoinedLog
<1>2. \A n \in 0..Len(events) : AfterOf(all, n) = AfterOf(events, n)
  BY <1>1 DEF AfterOf
<1>3. ASSUME NEW i \in 2..(Len(events) - 1), FitsAt(events, i) PROVE FitsAt(all, i)
  <2>1. i \in 0..Len(events) /\ i + 1 \in 1..Len(events) /\ (i + 1) - 1 \in 0..Len(events)
    BY <1>1
  <2>2. AfterOf(all, i) = AfterOf(events, i) /\ all[i + 1] = events[i + 1]
    BY <1>1, <1>2, <2>1
  <2>3. ScoredCount(all, i + 1) = ScoredCount(events, i + 1)
    BY <1>1, <2>1, <2>2 DEF ScoredCount, Before
  <2>. QED BY <1>3, <2>2, <2>3 DEF FitsAt, ComesNext
<1>4. AfterOf(all, Len(events)) = Folded(Target, events)
  BY <1>1 DEF AfterOf
<1>. QED BY <1>2, <1>3, <1>4

LEMMA NowAfterLog ==
  ASSUME GameInv, TellInv, winner = NoSeat
  PROVE  Folded(Target, log) = Live /\ Folded(0, log) = Live
<1>1. Live = LiveWith(scores)
  BY DEF Live, LiveWith, Game
<1>. QED BY <1>1, OnTheGo DEF Caps

LEMMA BeforeIs ==
  ASSUME NEW events, NEW n \in Nat
  PROVE  Before(events, n + 1) = Folded(0, SubSeq(events, 1, n))
<1>1. (n + 1) - 1 = n
  OBVIOUS
<1>2. PICK k : k = n + 1
  OBVIOUS
<1>3. Before(events, k) = Folded(0, SubSeq(events, 1, k - 1)) /\ k - 1 = n
  BY <1>1, <1>2 DEF Before
<1>. QED BY <1>2, <1>3

\* The command itself.
LEMMA PlayFits ==
  ASSUME GameInv, TellInv, CountedInv, NEW s \in Seat, NEW c \in hands[s], LegalPlay(s, c),
         NEW all, all[Len(log) + 1] = CardPlayed(s, c, Score(pile, c)),
         SubSeq(all, 1, Len(log)) = log, Len(log) \in Nat
  PROVE  FitsAt(all, Len(log))
<1>. DEFINE e == all[Len(log) + 1]
<1>1. e.type = "card_played" /\ e.seat = s /\ e.card = c
  BY DEF CardPlayed
<1>2. winner = NoSeat /\ phase = "play" /\ c \in Card
  BY LayFacts
<1>3. AfterOf(all, Len(log)) = Live /\ Before(all, Len(log) + 1) = Live
  <2>2. AfterOf(all, Len(log)) = Folded(Target, log)
    BY DEF AfterOf
  <2>3. Before(all, Len(log) + 1) = Folded(0, log)
    BY BeforeIs
  <2>. QED BY <1>2, <2>2, <2>3, NowAfterLog
<1>4. Live.phase = "play" /\ Live.hands = hands /\ Live.pile = pile /\ Live.count = count
  BY <1>2 DEF Live
<1>5. ScoredCount(all, Len(log) + 1) = count + Pip(c)
  <2>1. ScoredCount(all, Len(log) + 1) = RunningCount(Append(pile, c))
    BY <1>1, <1>3, <1>4 DEF ScoredCount
  <2>2. RunningCount(Append(pile, c)) = RunningCount(pile) + Pip(c)
    BY <1>2, RunningCountGrows DEF GameInv, TypeOK
  <2>. QED BY <2>1, <2>2 DEF CountedInv
<1>6. hands \in [Seat -> SUBSET Card] /\ IsFiniteSet(hands[Bot])
  BY DEF GameInv, TypeOK, CardInv, Bot, Seat
<1>. HIDE DEF e
<1>. QED BY <1>1, <1>3, <1>4, <1>5, <1>6 DEF FitsAt, ComesNext, e

\* The cut comes after the second throw.
LEMMA BotHoldsFour ==
  ASSUME GameInv, NEW s \in Seat, NEW two \in Throws, Discard(s, two), Len(out') # 1
  PROVE  Cardinality(hands'[Bot]) = 4 /\ \A t \in Seat : thrown'[t] # {}
<1>0. Bot \in Seat /\ s \in Seat /\ Seat = {s, Other(s)}
  BY DEF Bot, Seat, Other
<1>1. GameInv'
  BY NextInv DEF Next
<1>2. /\ Discarded(Other(s)) /\ phase = "discard" /\ played' = played
      /\ thrown' = [thrown EXCEPT ![s] = two] /\ two # {}
      /\ thrown \in [Seat -> SUBSET Card]
  <2>1. Len(<<DiscardedBy(s, two)>>) = 1
    OBVIOUS
  <2>. QED BY <2>1, ThrowFacts DEF Discard, GameInv, TypeOK
<1>3. played'[Bot] = {} /\ \A t \in Seat : thrown'[t] # {}
  BY <1>0, <1>2 DEF GameInv, CardInv, Discarded
<1>4. /\ Cardinality(hands'[Bot]) + Cardinality(played'[Bot]) + Cardinality(thrown'[Bot]) = 6
      /\ Cardinality(thrown'[Bot]) = 2 /\ IsFiniteSet(hands'[Bot])
  BY <1>0, <1>1, <1>3 DEF GameInv, CardInv
<1>. QED BY <1>3, <1>4, FS_EmptySet, FS_CardinalityType

LEMMA CutFits ==
  ASSUME GameInv, TellInv, winner = NoSeat, NEW s \in Seat, NEW two \in Throws,
         Discard(s, two), Len(out') # 1, NEW all, IsLog(all), Len(log) \in Nat,
         SubSeq(all, 1, Len(log)) = log, all[Len(log) + 1] = DiscardedBy(s, two),
         Len(log) + 2 \in 1..Len(all), all[Len(log) + 2].type = "starter_cut"
  PROVE  FitsAt(all, Len(log) + 1)
<1>. DEFINE l == Len(log)
            g == AfterOf(all, l + 1)
<1>1. AfterOf(all, l) = Live
  BY NowAfterLog DEF AfterOf
<1>2. l + 1 \in 1..Len(all) /\ l \in Nat /\ (l + 1) + 1 = l + 2
  BY LogFacts
<1>3. g = Reduce(Target, AfterOf(all, l), all[l + 1])
  <2>. HIDE DEF l
  <2>. QED BY <1>2, PrefixGoesOn
<1>4. g = Reduce(Target, Live, DiscardedBy(s, two))
  BY <1>1, <1>3
<1>5. g.hands = hands' /\ g.thrown = thrown'
  <2>. HIDE DEF g
  <2>1. Live = Game(dealer, phase, scores, hands, played, thrown, starter, pile, count, gone,
                    lastPlayer, winner)
    BY DEF Live, Game
  <2>2. g = Game(dealer, phase, scores, [hands EXCEPT ![s] = @ \ two], played,
                 [thrown EXCEPT ![s] = two], starter, pile, count, gone, lastPlayer, winner)
    BY <1>4, <2>1, ReduceDiscard
  <2>3. g.hands = [hands EXCEPT ![s] = @ \ two] /\ g.thrown = [thrown EXCEPT ![s] = two]
    BY <2>2 DEF Game
  <2>. QED BY <2>3 DEF Discard
<1>6. Cardinality(g.hands[Bot]) = 4 /\ \A t \in Seat : g.thrown[t] # {}
  BY <1>5, BotHoldsFour
<1>. HIDE DEF g
<1>7. all[(l + 1) + 1].type = "starter_cut"
  BY <1>2
<1>. SUFFICES FitsAt(all, l + 1)
  OBVIOUS
<1>. HIDE DEF l
<1>. QED BY <1>6, <1>7 DEF FitsAt, ComesNext, g

\* The rest of the command: no card is laid, and the cut comes second.
LEMMA FollowUpFits ==
  ASSUME NEW ev, NEW e, Command(e), Led(ev, e), NEW j \in 2..Len(ev)
  PROVE  /\ ev[j].type \notin {"card_played", "discarded"}
         /\ ev[j].type = "starter_cut" => j = 2 /\ e.type = "discarded"
<1>1. /\ ev[1] = e /\ Len(ev) \in Nat
      /\ \A i \in 2..Len(ev) : FollowUp(ev[i]) /\ May(Stage(ev[i - 1]), ev[i])
  BY DEF Led
<1>2. ev[j].type \notin {"card_played", "discarded"}
  BY <1>1 DEF FollowUp
<1>3. ASSUME ev[j].type = "starter_cut" PROVE j = 2 /\ e.type = "discarded"
  <2>1. Stage(ev[j - 1]) = "throw"
    BY <1>1, <1>3 DEF May
  <2>2. ev[j - 1].type = "discarded"
    BY <2>1 DEF Stage
  <2>3. j - 1 \notin 2..Len(ev)
    BY <1>1, <2>2 DEF FollowUp
  <2>4. j = 2
    BY <1>1, <2>3
  <2>. QED BY <1>1, <2>2, <2>4
<1>. QED BY <1>2, <1>3

LEMMA FitGoesOn ==
  ASSUME LogInv, FitInv, NEW e, Command(e), Led(out', e), log' = log \o out',
         FitsAt(log', Len(log)),
         Len(log) + 2 \in 1..Len(log') /\ e.type = "discarded"
           /\ log'[Len(log) + 2].type = "starter_cut" => FitsAt(log', Len(log) + 1)
  PROVE  FitInv'
<1>. DEFINE l == Len(log)
            n == Len(out')
<1>1. IsLog(log) /\ IsLog(out')
  BY DEF LogInv, Led, IsLog
<1>2. /\ l \in Nat /\ n \in Nat /\ Len(log') = l + n
      /\ \A i \in (l + 1)..(l + n) : log'[i] = out'[i - l]
  BY <1>1, JoinedLog
<1>3. \A i \in 2..(l - 1) : FitsAt(log', i)
  BY <1>1, FitsStay DEF FitInv
<1>. HIDE DEF l, n
<1>4. ASSUME NEW i \in (l + 1)..(l + n - 1) PROVE FitsAt(log', i)
  <2>1. /\ i + 1 \in (l + 1)..(l + n) /\ (i + 1) - l \in 2..n
        /\ (i + 1) - l = 2 => i = l + 1 /\ i + 1 = l + 2 /\ l + 2 \in 1..(l + n)
    BY <1>2
  <2>2. log'[i + 1] = out'[(i + 1) - l]
    BY <1>2, <2>1
  <2>3. /\ log'[i + 1].type \notin {"card_played", "discarded"}
        /\ log'[i + 1].type = "starter_cut" => (i + 1) - l = 2 /\ e.type = "discarded"
    BY <2>1, <2>2, FollowUpFits DEF n
  <2>4. CASE log'[i + 1].type = "starter_cut"
    <3>1. i = l + 1 /\ i + 1 = l + 2 /\ l + 2 \in 1..Len(log') /\ e.type = "discarded"
      BY <1>2, <2>1, <2>3, <2>4
    <3>. QED BY <2>4, <3>1 DEF l
  <2>5. CASE log'[i + 1].type # "starter_cut"
    BY <2>3, <2>5 DEF FitsAt, ComesNext
  <2>. QED BY <2>4, <2>5
<1>5. ASSUME NEW i \in 2..(Len(log') - 1) PROVE FitsAt(log', i)
  <2>1. i \in 2..(l - 1) \/ i = l \/ i \in (l + 1)..(l + n - 1)
    <3>1. i \in 2..(l + n - 1) /\ l \in Nat /\ n \in Nat
      BY <1>2, <1>5
    <3>. QED BY ONLY <3>1
  <2>. QED BY <1>3, <1>4, <2>1 DEF l
<1>. QED BY <1>5 DEF FitInv

LEMMA FitInvNext ==
  GameInv /\ TellInv /\ LogInv /\ CountedInv /\ FitInv /\ Logged => FitInv'
<1>. SUFFICES ASSUME GameInv, TellInv, LogInv, CountedInv, FitInv, Logged PROVE FitInv'
  OBVIOUS
<1>0. IsLog(log) /\ Len(log) \in Nat /\ Len(log) >= 2
  BY LogFacts DEF LogInv
<1>1. ASSUME NEW s \in Seat, NEW c \in hands[s], Play(s, c), log' = log \o out'
      PROVE  FitInv'
  <2>. DEFINE e == CardPlayed(s, c, Score(pile, c))
  <2>1. LegalPlay(s, c) /\ Score(pile, c) \in Nat
    BY <1>1, PlayMovesSeries, LayFacts
  <2>2. Command(e) /\ Led(out', e)
    BY <1>1, <2>1, Commands, LedPlay
  <2>3. e.type # "discarded"
    BY DEF CardPlayed
  <2>. HIDE DEF e
  <2>4. IsLog(out') /\ out'[1] = e /\ Len(out') \in Nat /\ Len(out') >= 1
    BY <2>2, LogFacts DEF Led, IsLog
  <2>5. SubSeq(log', 1, Len(log)) = log /\ log'[Len(log) + 1] = e
    <3>1. 1 \in 1..Len(out')
      BY <2>4
    <3>. QED BY <1>0, <1>1, <2>4, <3>1, JoinedLog
  <2>6. FitsAt(log', Len(log))
    <3>1. PICK all : all = log'
      OBVIOUS
    <3>2. FitsAt(all, Len(log))
      BY <1>0, <2>1, <2>5, <3>1, PlayFits DEF e
    <3>. QED BY <3>1, <3>2
  <2>. QED BY <1>1, <2>2, <2>3, <2>6, FitGoesOn
<1>2. ASSUME NEW s \in Seat, NEW two \in Throws, Discard(s, two), log' = log \o out'
      PROVE  FitInv'
  <2>. DEFINE e == DiscardedBy(s, two)
  <2>2. Command(e) /\ Led(out', e)
    BY <1>2, Commands, LedDiscard
  <2>3. e.type = "discarded"
    BY DEF DiscardedBy
  <2>. HIDE DEF e
  <2>4. IsLog(out') /\ out'[1] = e /\ Len(out') \in Nat /\ Len(out') >= 1
    BY <2>2, LogFacts DEF Led, IsLog
  <2>5. /\ SubSeq(log', 1, Len(log)) = log /\ log'[Len(log) + 1] = e
        /\ IsLog(log') /\ Len(log') = Len(log) + Len(out')
    <3>1. 1 \in 1..Len(out')
      BY <2>4
    <3>. QED BY <1>0, <1>2, <2>4, <3>1, JoinedLog
  <2>6. FitsAt(log', Len(log))
    <3>1. /\ winner = NoSeat /\ phase = "discard" /\ thrown[s] = {}
          /\ thrown \in [Seat -> SUBSET Card] /\ two \in SUBSET Card /\ two # {}
      BY <1>2, ThrowFacts, WonTakesNone DEF Discard, Discarded, GameInv, TypeOK
    <3>2. Folded(Target, log).phase = "discard" /\ Folded(Target, log).thrown = thrown
      BY <3>1, NowAfterLog DEF Live
    <3>. DEFINE g == AfterOf(log', Len(log))
    <3>3. g.phase = "discard" /\ g.thrown = thrown
      BY <2>5, <3>2 DEF AfterOf
    <3>4. e.type = "discarded" /\ e.seat = s /\ e.cards = two
      BY DEF e, DiscardedBy
    <3>. HIDE DEF g
    <3>5. \A n : ComesNext(g, e, n)
      BY <3>1, <3>3, <3>4 DEF ComesNext
    <3>. QED BY <2>5, <3>5 DEF FitsAt, g
  <2>7. ASSUME Len(log) + 2 \in 1..Len(log'), log'[Len(log) + 2].type = "starter_cut"
        PROVE  FitsAt(log', Len(log) + 1)
    <3>1. PICK all : all = log'
      OBVIOUS
    <3>2. Len(out') # 1
      <4>1. \A x, y \in Nat : x + 2 \in 1..(x + y) => y # 1
        OBVIOUS
      <4>. QED BY <1>0, <2>4, <2>5, <2>7, <4>1
    <3>3. winner = NoSeat
      BY <1>2, WonTakesNone
    <3>4. FitsAt(all, Len(log) + 1)
      BY <1>0, <1>2, <2>5, <2>7, <3>1, <3>2, <3>3, CutFits DEF e
    <3>. QED BY <3>1, <3>4
  <2>. QED BY <1>2, <2>2, <2>6, <2>7, FitGoesOn
<1>3. CASE UNCHANGED log
  BY <1>3 DEF FitInv
<1>. QED BY <1>1, <1>2, <1>3 DEF Logged

LEMMA InitFit == HistoryInit => FitInv
<1>. SUFFICES ASSUME HistoryInit PROVE FitInv
  OBVIOUS
<1>1. PICK a, b : log = <<a, b>>
  BY DEF HistoryInit, Init
<1>2. Len(log) = 2
  BY <1>1
<1>. QED BY <1>2 DEF FitInv

-----------------------------------------------------------------------------
(***************************************************************************)
(* The reducer, field by field, for the fields the page shows.             *)
(***************************************************************************)
HasFields(g) ==
  {"dealer", "phase", "scores", "hands", "played", "thrown", "starter", "pile", "count",
   "gone", "lastPlayer", "winner"} \subseteq DOMAIN g

\* g and h differ in the fields named at most.
GameBut(fields, h, g) ==
  /\ HasFields(h)
  /\ "dealer" \in fields \/ h.dealer = g.dealer
  /\ "phase" \in fields \/ h.phase = g.phase
  /\ "scores" \in fields \/ h.scores = g.scores
  /\ "hands" \in fields \/ h.hands = g.hands
  /\ "played" \in fields \/ h.played = g.played
  /\ "thrown" \in fields \/ h.thrown = g.thrown
  /\ "pile" \in fields \/ h.pile = g.pile
  /\ "starter" \in fields \/ h.starter = g.starter
  /\ "count" \in fields \/ h.count = g.count
  /\ "winner" \in fields \/ h.winner = g.winner

\* The page stops at the hole the engine stops at.
LEMMA CapsAlike ==
  ASSUME NEW sc, NEW s, NEW p
  PROVE  [sc EXCEPT ![s] = Capped(@ + p)] = AddPoints(Target, sc, s, p)
<1>1. \A x : Capped(x) = IF Target > 0 /\ x > Target THEN Target ELSE x
  BY BotGameAssumption, TargetAssumption DEF Capped
<1>2. PICK y : y = sc[s] + p
  OBVIOUS
<1>3. [sc EXCEPT ![s] = Capped(@ + p)] = [sc EXCEPT ![s] = Capped(y)]
  BY <1>2
<1>4. AddPoints(Target, sc, s, p) = [sc EXCEPT ![s] = IF Target > 0 /\ y > Target THEN Target ELSE y]
  BY <1>2 DEF AddPoints
<1>. QED BY <1>1, <1>3, <1>4

LEMMA DealtGame ==
  ASSUME NEW g, HasFields(g), NEW dl, NEW hs
  PROVE  LET h == Reduce(Target, g, HandDealt(dl, hs))
         IN  /\ GameBut({"dealer", "phase", "hands", "played", "thrown", "pile", "starter", "count"}, h, g)
             /\ h.dealer = dl /\ h.phase = "discard" /\ h.hands = hs /\ h.played = Empty
             /\ h.thrown = Empty /\ h.pile = <<>> /\ h.starter = NoCard /\ h.count = 0
BY DEF Reduce, HandDealt, GameBut, HasFields, Blank

\* h is g with the cards two thrown by the seat s.
ThrowsOut(h, g, s, two) ==
  /\ GameBut({"hands", "thrown"}, h, g)
  /\ h.hands = [g.hands EXCEPT ![s] = @ \ two]
  /\ h.thrown = [g.thrown EXCEPT ![s] = two]

LEMMA ThrownGame ==
  ASSUME NEW g, HasFields(g), NEW s, NEW two
  PROVE  ThrowsOut(Reduce(Target, g, DiscardedBy(s, two)), g, s, two)
BY DEF ThrowsOut, Reduce, DiscardedBy, GameBut, HasFields

LEMMA CutGame ==
  ASSUME NEW g, HasFields(g), NEW c, NEW p
  PROVE  LET h == Reduce(Target, g, StarterCut(c, p))
         IN  /\ GameBut({"phase", "scores", "starter"}, h, g)
             /\ h.phase = "play" /\ h.starter = c
             /\ h.scores = AddPoints(Target, g.scores, g.dealer, p)
BY DEF Reduce, StarterCut, GameBut, HasFields, Scored

\* h is g with the card c laid by the seat s.
LaysOut(h, g, s, c, p) ==
  /\ GameBut({"scores", "hands", "played", "pile", "count"}, h, g)
  /\ h.scores = AddPoints(Target, g.scores, s, p)
  /\ h.hands = [g.hands EXCEPT ![s] = @ \ {c}]
  /\ h.played = [g.played EXCEPT ![s] = @ \cup {c}]
  /\ h.pile = Append(g.pile, c)
  /\ h.count = g.count + Pip(c)

LEMMA LaidOut ==
  ASSUME NEW g, HasFields(g), NEW s, NEW c, NEW p
  PROVE  LaysOut(Reduce(Target, g, CardPlayed(s, c, p)), g, s, c, p)
BY DEF LaysOut, Reduce, CardPlayed, GameBut, HasFields, Scored, LayCard

LEMMA PassedGame ==
  ASSUME NEW g, HasFields(g), NEW s PROVE GameBut({}, Reduce(Target, g, Pass(s)), g)
BY DEF Reduce, Pass, GameBut, HasFields

LEMMA GoneGame ==
  ASSUME NEW g, HasFields(g), NEW s
  PROVE  LET h == Reduce(Target, g, GoAwarded(s))
         IN  GameBut({"scores"}, h, g) /\ h.scores = AddPoints(Target, g.scores, s, 1)
BY DEF Reduce, GoAwarded, GameBut, HasFields, Scored

LEMMA ResetGame ==
  ASSUME NEW g, HasFields(g), NEW s
  PROVE  LET h == Reduce(Target, g, SeriesReset(s))
         IN  GameBut({"pile", "count"}, h, g) /\ h.pile = <<>> /\ h.count = 0
BY DEF Reduce, SeriesReset, GameBut, HasFields, ResetSeries

LEMMA WonGame ==
  ASSUME NEW g, HasFields(g), NEW s
  PROVE  LET h == Reduce(Target, g, GameWon(s))
         IN  GameBut({"phase", "winner"}, h, g) /\ h.phase = "complete" /\ h.winner = s
BY DEF Reduce, GameWon, GameBut, HasFields

LEMMA ShownGame ==
  ASSUME NEW g, HasFields(g), NEW s, NEW cs, NEW p
  PROVE  LET h == Reduce(Target, g, HandShown(s, cs, p))
         IN  GameBut({"scores"}, h, g) /\ h.scores = AddPoints(Target, g.scores, s, p)
BY DEF Reduce, HandShown, GameBut, HasFields, Scored

LEMMA CribGame ==
  ASSUME NEW g, HasFields(g), NEW cs, NEW p
  PROVE  LET h == Reduce(Target, g, CribShown(cs, p))
         IN  GameBut({"scores"}, h, g) /\ h.scores = AddPoints(Target, g.scores, g.dealer, p)
BY DEF Reduce, CribShown, GameBut, HasFields, Scored

LEMMA UncountedGame ==
  ASSUME NEW g, NEW s, NEW cs, NEW b
  PROVE  Reduce(Target, g, ShowNotCounted(s, cs, b)) = g
BY DEF Reduce, ShowNotCounted

-----------------------------------------------------------------------------
(***************************************************************************)
(* The page after an event shows the game after that event.                *)
(***************************************************************************)
BoxOf(sc, w) ==
  [won |-> w = You, my |-> Capped(sc[You]), opp |-> Capped(sc[Bot]), skunk |-> SkunkOf(sc, w)]

\* During the throw and the play, the whole table; at the show, its cards are
\* being turned over.
Laying(u, g) ==
  /\ u.played = g.played /\ u.count = g.count /\ u.starter = g.starter /\ u.show = NoReveal
  /\ g.phase = "play" =>
       u.inPlay /\ u.cribCount = 4 /\ u.botCards = Cardinality(g.hands[Bot])

Paints(u, c, g, stage) ==
  /\ IsTable(u) /\ HasFields(g)
  /\ c = [dealer |-> g.dealer, starter |-> g.starter]
  /\ u.dealer = g.dealer /\ u.score = g.scores
  /\ stage \in {"deal", "throw", "play"} => Laying(u, g)
  /\ u.over = IF stage = "end" THEN BoxOf(g.scores, g.winner) ELSE NoResult
  /\ g.winner # NoSeat => stage = "end"

\* The event e is played back to a page that shows the game g.
PlaysBack(u, c, g, stage, e, n) ==
  LET d == Sent(You, e, n)
      h == Reduce(Target, g, e)
  IN  Paints(u, c, g, stage) /\ May(stage, e) /\ ComesNext(g, e, n) /\ c = ctx
        => Paints(Shown(u, d), CtxAfter(c, d), h, Stage(e))

LEMMA PaintDeal ==
  ASSUME NEW u, NEW g, NEW stage, NEW n, NEW dl, NEW hs
  PROVE  PlaysBack(u, ctx, g, stage, HandDealt(dl, hs), n)
<1>. DEFINE e == HandDealt(dl, hs)
            d == Sent(You, e, n)
            h == Reduce(Target, g, e)
            v == Shown(u, d)
<1>. SUFFICES ASSUME Paints(u, ctx, g, stage), May(stage, e)
              PROVE  Paints(v, CtxAfter(ctx, d), h, Stage(e))
  BY DEF PlaysBack
<1>1. d = [type |-> "hand_dealt", dealer |-> dl, hand |-> hs[You]] /\ You \in Seat
  BY SentForms DEF You, Seat
<1>2. v = Dealt(HandComplete(u, dl), dl, hs[You])
  BY <1>1 DEF Shown
<1>3. CtxAfter(ctx, d) = [dealer |-> dl, starter |-> NoCard]
  BY <1>1 DEF CtxAfter
<1>4. Stage(e) = "deal" /\ stage # "end"
  BY DEF Stage, HandDealt, May
<1>5. /\ GameBut({"dealer", "phase", "hands", "played", "thrown", "pile", "starter", "count"}, h, g)
      /\ h.dealer = dl /\ h.phase = "discard" /\ h.played = Empty
      /\ h.starter = NoCard /\ h.count = 0
  BY DealtGame DEF Paints
<1>6. /\ IsTable(v) /\ v.score = u.score /\ v.over = u.over
      /\ v.dealer = dl /\ v.show = NoReveal
      /\ v.played = Empty /\ v.count = 0 /\ v.starter = NoCard
  BY <1>2, NextHandFields DEF Paints
<1>. HIDE DEF e, d, h, v
<1>. QED BY <1>3, <1>4, <1>5, <1>6 DEF Paints, Laying, GameBut

LEMMA PaintThrow ==
  ASSUME NEW u, NEW g, NEW stage, NEW n, NEW s, NEW two
  PROVE  PlaysBack(u, ctx, g, stage, DiscardedBy(s, two), n)
<1>. DEFINE e == DiscardedBy(s, two)
            d == Sent(You, e, n)
            h == Reduce(Target, g, e)
<1>. SUFFICES ASSUME Paints(u, ctx, g, stage), May(stage, e), ComesNext(g, e, n)
              PROVE  Paints(Shown(u, d), CtxAfter(ctx, d), h, Stage(e))
  BY DEF PlaysBack
<1>1. d.type = "discarded"
  <2>1. d \in {DiscardedBy(s, two), [type |-> "discarded", seat |-> s]}
    BY SentForms DEF You, Seat
  <2>. QED BY <2>1 DEF DiscardedBy
<1>2. Shown(u, d) = u /\ CtxAfter(ctx, d) = ctx
  BY <1>1 DEF Shown, CtxAfter
<1>4. Stage(e) = "throw" /\ stage \in {"deal", "throw", "play"} /\ g.phase = "discard"
  BY DEF Stage, DiscardedBy, May, ComesNext
<1>5. GameBut({"hands", "thrown"}, h, g)
  BY ThrownGame DEF Paints, ThrowsOut
<1>. HIDE DEF e, d, h
<1>. QED BY <1>2, <1>4, <1>5 DEF Paints, Laying, GameBut

LEMMA PaintCut ==
  ASSUME NEW u, NEW g, NEW stage, NEW n, NEW c, NEW p
  PROVE  PlaysBack(u, ctx, g, stage, StarterCut(c, p), n)
<1>. DEFINE e == StarterCut(c, p)
            d == Sent(You, e, n)
            h == Reduce(Target, g, e)
            a == Awarded(u, g.dealer, p)
            v == Shown(u, d)
<1>. SUFFICES ASSUME Paints(u, ctx, g, stage), May(stage, e), ComesNext(g, e, n)
              PROVE  Paints(v, CtxAfter(ctx, d), h, Stage(e))
  BY DEF PlaysBack
<1>1. d = StarterCut(c, p)
  BY SentForms DEF You, Seat
<1>2. d.type = "starter_cut" /\ d.card = c /\ d.points = p
  BY <1>1 DEF StarterCut
<1>3. ctx.dealer = g.dealer
  BY DEF Paints
<1>4. v = [a EXCEPT !.cribCount = 4, !.botCards = 4, !.starter = c, !.inPlay = TRUE]
  BY <1>2, <1>3 DEF Shown
<1>5. CtxAfter(ctx, d) = [dealer |-> g.dealer, starter |-> c]
  BY <1>2 DEF CtxAfter, Paints
<1>6. Stage(e) = "play" /\ stage = "throw" /\ Cardinality(g.hands[Bot]) = 4
  BY DEF Stage, StarterCut, May, ComesNext
<1>7. /\ GameBut({"phase", "scores", "starter"}, h, g)
      /\ h.phase = "play" /\ h.starter = c
      /\ h.scores = AddPoints(Target, g.scores, g.dealer, p)
  BY CutGame DEF Paints
<1>8. SameBut({"score"}, a, u) /\ a.score = [u.score EXCEPT ![g.dealer] = Capped(@ + p)]
  BY AwardedFields DEF Paints
<1>. HIDE DEF a
<1>9. /\ SameBut({"cribCount", "botCards", "starter", "inPlay"}, v, a)
      /\ v.cribCount = 4 /\ v.botCards = 4 /\ v.starter = c /\ v.inPlay
  <2>1. IsTable(a)
    BY <1>8 DEF SameBut
  <2>. HIDE DEF v
  <2>. QED BY <1>4, <2>1 DEF IsTable, SameBut
<1>10. v.score = h.scores
  BY <1>7, <1>8, <1>9, CapsAlike DEF SameBut, Paints
<1>. HIDE DEF e, d, h, v
<1>. QED BY <1>5, <1>6, <1>7, <1>8, <1>9, <1>10 DEF Paints, Laying, GameBut, SameBut

LEMMA PaintPlay ==
  ASSUME NEW u, NEW g, NEW stage, NEW n, NEW s, NEW c, NEW p
  PROVE  PlaysBack(u, ctx, g, stage, CardPlayed(s, c, p), n)
<1>. DEFINE e == CardPlayed(s, c, p)
            d == Sent(You, e, n)
            h == Reduce(Target, g, e)
            v == Shown(u, d)
<1>. SUFFICES ASSUME Paints(u, ctx, g, stage), May(stage, e), ComesNext(g, e, n)
              PROVE  Paints(v, CtxAfter(ctx, d), h, Stage(e))
  BY DEF PlaysBack
<1>1. d = WithCount(CardPlayed(s, c, p), n)
  BY SentForms DEF You, Seat
<1>2. d.type = "card_played" /\ d.card = c /\ d.points = p /\ d.seat = s /\ d.count = n
  BY <1>1 DEF CardPlayed, WithCount
<1>4. v = Laid(u, d) /\ CtxAfter(ctx, d) = ctx
  BY <1>2 DEF Shown, CtxAfter
<1>5. e.type = "card_played" /\ e.seat = s /\ e.card = c
  BY DEF CardPlayed
<1>6. /\ Stage(e) = "play" /\ stage \in {"deal", "throw", "play"}
      /\ g.phase = "play" /\ g.hands \in [Seat -> SUBSET Card]
      /\ s \in Seat /\ c \in g.hands[s] /\ IsFiniteSet(g.hands[Bot])
      /\ n = g.count + Pip(c)
  BY <1>5 DEF Stage, May, ComesNext
<1>7. /\ GameBut({"scores", "hands", "played", "pile", "count"}, h, g)
      /\ h.scores = AddPoints(Target, g.scores, s, p)
      /\ h.hands = [g.hands EXCEPT ![s] = @ \ {c}]
      /\ h.played = [g.played EXCEPT ![s] = @ \cup {c}]
      /\ h.count = g.count + Pip(c)
  <2>1. LaysOut(h, g, s, c, p)
    BY LaidOut DEF Paints
  <2>. HIDE DEF h
  <2>. QED BY <2>1 DEF LaysOut
<1>8. /\ SameBut({"score", "played", "count", "botCards"}, v, u)
      /\ v.score = [u.score EXCEPT ![s] = Capped(@ + p)]
      /\ v.played = [u.played EXCEPT ![s] = @ \cup {c}]
      /\ v.count = n
      /\ v.botCards = IF s = Bot /\ u.botCards > 0 THEN u.botCards - 1 ELSE u.botCards
  <2>1. IsTable(u)
    BY DEF Paints
  <2>. HIDE DEF d, v
  <2>. QED BY <1>2, <1>4, <2>1, LaidFields
<1>9. v.score = h.scores
  BY <1>7, <1>8, CapsAlike DEF Paints
<1>. HIDE DEF e, d, h, v
<1>10. u.botCards = Cardinality(g.hands[Bot]) /\ Bot \in Seat
  BY <1>6 DEF Paints, Laying, Bot, Seat
<1>11. v.botCards = Cardinality(h.hands[Bot])
  <2>1. CASE s = Bot
    <3>1. h.hands[Bot] = g.hands[Bot] \ {c}
      BY <1>6, <1>7, <2>1
    <3>2. Cardinality(h.hands[Bot]) = Cardinality(g.hands[Bot]) - 1
      <4>1. PICK held : held = g.hands[Bot]
        OBVIOUS
      <4>2. Cardinality(held \ {c}) = Cardinality(held) - 1
        BY <1>6, <2>1, <4>1, FS_RemoveElement
      <4>. QED BY <3>1, <4>1, <4>2
    <3>3. Cardinality(g.hands[Bot]) \in Nat /\ Cardinality(g.hands[Bot]) # 0
      BY <1>6, <2>1, FS_CardinalityType, FS_EmptySet
    <3>. QED BY <1>8, <1>10, <2>1, <3>2, <3>3
  <2>2. CASE s # Bot
    <3>1. h.hands[Bot] = g.hands[Bot]
      BY <1>6, <1>7, <1>10, <2>2
    <3>. QED BY <1>8, <1>10, <2>2, <3>1
  <2>. QED BY <2>1, <2>2
<1>12. Laying(u, g) /\ HasFields(h) /\ IsTable(v)
  BY <1>6, <1>7, <1>8 DEF Paints, GameBut, SameBut
<1>13. Laying(v, h)
  BY <1>6, <1>7, <1>8, <1>11, <1>12 DEF Paints, Laying, GameBut, SameBut
<1>. QED BY <1>4, <1>6, <1>7, <1>8, <1>9, <1>12, <1>13 DEF Paints, GameBut, SameBut

LEMMA PaintQuiet ==
  ASSUME NEW u, NEW g, NEW stage, NEW n, NEW s
  PROVE  /\ PlaysBack(u, ctx, g, stage, Pass(s), n)
         /\ PlaysBack(u, ctx, g, stage, GoAwarded(s), n)
         /\ PlaysBack(u, ctx, g, stage, SeriesReset(s), n)
<1>0. You \in Seat
  BY DEF You, Seat
<1>1. ASSUME Paints(u, ctx, g, stage), May(stage, Pass(s))
      PROVE  LET d == Sent(You, Pass(s), n)
             IN  Paints(Shown(u, d), CtxAfter(ctx, d), Reduce(Target, g, Pass(s)), Stage(Pass(s)))
  <2>. DEFINE d == Sent(You, Pass(s), n)
              h == Reduce(Target, g, Pass(s))
  <2>1. d.type = "pass"
    BY <1>0, SentForms DEF Pass
  <2>2. Shown(u, d) = u /\ CtxAfter(ctx, d) = ctx
    BY <2>1 DEF Shown, CtxAfter
  <2>3. Stage(Pass(s)) = "play" /\ stage = "play"
    BY <1>1 DEF Stage, Pass, May
  <2>4. GameBut({}, h, g)
    BY <1>1, PassedGame DEF Paints
  <2>. HIDE DEF d, h
  <2>5. Paints(u, ctx, h, "play")
    BY <1>1, <2>3, <2>4 DEF Paints, Laying, GameBut
  <2>. QED BY <2>2, <2>3, <2>5 DEF d, h
<1>2. ASSUME Paints(u, ctx, g, stage), May(stage, GoAwarded(s))
      PROVE  LET d == Sent(You, GoAwarded(s), n)
             IN  Paints(Shown(u, d), CtxAfter(ctx, d), Reduce(Target, g, GoAwarded(s)),
                        Stage(GoAwarded(s)))
  <2>. DEFINE d == Sent(You, GoAwarded(s), n)
              h == Reduce(Target, g, GoAwarded(s))
              v == Awarded(u, s, 1)
  <2>1. d = [type |-> "go", seat |-> s, points |-> 1]
    BY <1>0, SentForms
  <2>2. Shown(u, d) = v /\ CtxAfter(ctx, d) = ctx
    BY <2>1 DEF Shown, CtxAfter
  <2>3. Stage(GoAwarded(s)) = "play" /\ stage = "play"
    BY <1>2 DEF Stage, GoAwarded, May
  <2>4. GameBut({"scores"}, h, g) /\ h.scores = AddPoints(Target, g.scores, s, 1)
    BY <1>2, GoneGame DEF Paints
  <2>5. SameBut({"score"}, v, u) /\ v.score = [u.score EXCEPT ![s] = Capped(@ + 1)]
    <3>1. IsTable(u)
      BY <1>2 DEF Paints
    <3>. QED BY <3>1, AwardedFields
  <2>6. v.score = h.scores
    BY <1>2, <2>4, <2>5, CapsAlike DEF Paints
  <2>. HIDE DEF d, h, v
  <2>7. Paints(v, ctx, h, "play")
    BY <1>2, <2>3, <2>4, <2>5, <2>6 DEF Paints, Laying, GameBut, SameBut
  <2>. QED BY <2>2, <2>3, <2>7 DEF d, h
<1>3. ASSUME Paints(u, ctx, g, stage), May(stage, SeriesReset(s))
      PROVE  LET d == Sent(You, SeriesReset(s), n)
             IN  Paints(Shown(u, d), CtxAfter(ctx, d), Reduce(Target, g, SeriesReset(s)),
                        Stage(SeriesReset(s)))
  <2>. DEFINE d == Sent(You, SeriesReset(s), n)
              h == Reduce(Target, g, SeriesReset(s))
              v == [u EXCEPT !.count = 0]
  <2>1. d.type = "series_reset"
    BY <1>0, SentForms DEF SeriesReset
  <2>2. Shown(u, d) = v /\ CtxAfter(ctx, d) = ctx
    BY <2>1 DEF Shown, CtxAfter
  <2>3. Stage(SeriesReset(s)) = "play" /\ stage = "play"
    BY <1>3 DEF Stage, SeriesReset, May
  <2>4. GameBut({"pile", "count"}, h, g) /\ h.count = 0
    BY <1>3, ResetGame DEF Paints
  <2>5. SameBut({"count"}, v, u) /\ v.count = 0
    BY <1>3, CountFields DEF Paints
  <2>. HIDE DEF d, h, v
  <2>7. Paints(v, ctx, h, "play")
    BY <1>3, <2>3, <2>4, <2>5 DEF Paints, Laying, GameBut, SameBut
  <2>. QED BY <2>2, <2>3, <2>7 DEF d, h
<1>. QED BY <1>1, <1>2, <1>3 DEF PlaysBack

\* A hand or the crib is counted, for the seat s.
LEMMA PaintCounted ==
  ASSUME NEW u, NEW g, NEW stage, Paints(u, ctx, g, stage), stage \notin {"throw", "end"},
         NEW h, NEW s, NEW p, GameBut({"scores"}, h, g),
         h.scores = AddPoints(Target, g.scores, s, p), NEW isCrib, NEW cs, NEW t
  PROVE  Paints(Reveal(Awarded(u, s, p), t, isCrib, cs), ctx, h, "show")
<1>. DEFINE a == Awarded(u, s, p)
            v == Reveal(a, t, isCrib, cs)
<1>1. SameBut({"score"}, a, u) /\ a.score = [u.score EXCEPT ![s] = Capped(@ + p)]
  <2>1. IsTable(u)
    BY DEF Paints
  <2>. QED BY ONLY <2>1, AwardedFields
<1>. HIDE DEF a
<1>2. SameBut({"botCards", "starter", "inPlay", "played", "show"}, v, a)
  BY <1>1, RevealFields DEF SameBut
<1>. HIDE DEF v
<1>3. v.score = h.scores
  BY <1>1, <1>2, CapsAlike DEF SameBut, Paints
<1>4. Paints(v, ctx, h, "show")
  BY <1>1, <1>2, <1>3 DEF Paints, GameBut, SameBut
<1>. QED BY <1>4 DEF v, a

LEMMA PaintShow ==
  ASSUME NEW u, NEW g, NEW stage, NEW n, NEW s, NEW cs, NEW p
  PROVE  /\ PlaysBack(u, ctx, g, stage, HandShown(s, cs, p), n)
         /\ PlaysBack(u, ctx, g, stage, CribShown(cs, p), n)
<1>0. You \in Seat
  BY DEF You, Seat
<1>1. ASSUME Paints(u, ctx, g, stage), May(stage, HandShown(s, cs, p))
      PROVE  LET d == Sent(You, HandShown(s, cs, p), n)
             IN  Paints(Shown(u, d), CtxAfter(ctx, d), Reduce(Target, g, HandShown(s, cs, p)),
                        Stage(HandShown(s, cs, p)))
  <2>. DEFINE d == Sent(You, HandShown(s, cs, p), n)
              h == Reduce(Target, g, HandShown(s, cs, p))
  <2>0. d = HandShown(s, cs, p)
    BY <1>0, SentForms
  <2>1. d.type = "hand_shown" /\ d.seat = s /\ d.cards = cs /\ d.points = p
    BY <2>0 DEF HandShown
  <2>2. Shown(u, d) = Reveal(Awarded(u, s, p), s, FALSE, cs) /\ CtxAfter(ctx, d) = ctx
    BY <2>1 DEF Shown, CtxAfter
  <2>3. Stage(HandShown(s, cs, p)) = "show" /\ stage \notin {"throw", "end"}
    BY <1>1 DEF Stage, HandShown, May
  <2>4. GameBut({"scores"}, h, g) /\ h.scores = AddPoints(Target, g.scores, s, p)
    BY <1>1, ShownGame DEF Paints
  <2>. HIDE DEF d, h
  <2>5. Paints(Reveal(Awarded(u, s, p), s, FALSE, cs), ctx, h, "show")
    BY <1>1, <2>3, <2>4, PaintCounted
  <2>. QED BY <2>2, <2>3, <2>5 DEF d, h
<1>2. ASSUME Paints(u, ctx, g, stage), May(stage, CribShown(cs, p))
      PROVE  LET d == Sent(You, CribShown(cs, p), n)
             IN  Paints(Shown(u, d), CtxAfter(ctx, d), Reduce(Target, g, CribShown(cs, p)),
                        Stage(CribShown(cs, p)))
  <2>. DEFINE d == Sent(You, CribShown(cs, p), n)
              h == Reduce(Target, g, CribShown(cs, p))
              dl == g.dealer
  <2>0. d = CribShown(cs, p)
    BY <1>0, SentForms
  <2>1. d.type = "crib_shown" /\ d.cards = cs /\ d.points = p /\ ctx.dealer = dl
    BY <1>2, <2>0 DEF CribShown, Paints
  <2>2. Shown(u, d) = Reveal(Awarded(u, dl, p), dl, TRUE, cs) /\ CtxAfter(ctx, d) = ctx
    BY <2>1 DEF Shown, CtxAfter
  <2>3. Stage(CribShown(cs, p)) = "show" /\ stage \notin {"throw", "end"}
    BY <1>2 DEF Stage, CribShown, May
  <2>4. GameBut({"scores"}, h, g) /\ h.scores = AddPoints(Target, g.scores, dl, p)
    BY <1>2, CribGame DEF Paints
  <2>. HIDE DEF d, h, dl
  <2>5. Paints(Reveal(Awarded(u, dl, p), dl, TRUE, cs), ctx, h, "show")
    BY <1>2, <2>3, <2>4, PaintCounted
  <2>. QED BY <2>2, <2>3, <2>5 DEF d, h
<1>. QED BY <1>1, <1>2 DEF PlaysBack

LEMMA PaintEnd ==
  ASSUME NEW u, NEW g, NEW stage, NEW n, NEW s, NEW cs, NEW b
  PROVE  /\ PlaysBack(u, ctx, g, stage, GameWon(s), n)
         /\ PlaysBack(u, ctx, g, stage, ShowNotCounted(s, cs, b), n)
<1>0. You \in Seat
  BY DEF You, Seat
<1>1. ASSUME Paints(u, ctx, g, stage), May(stage, GameWon(s))
      PROVE  LET d == Sent(You, GameWon(s), n)
             IN  Paints(Shown(u, d), CtxAfter(ctx, d), Reduce(Target, g, GameWon(s)),
                        Stage(GameWon(s)))
  <2>. DEFINE d == Sent(You, GameWon(s), n)
              h == Reduce(Target, g, GameWon(s))
              v == GameOverBox(u, s)
  <2>0. d = GameWon(s)
    BY <1>0, SentForms
  <2>1. d.type = "game_won" /\ d.seat = s
    BY <2>0 DEF GameWon
  <2>2. Shown(u, d) = v /\ CtxAfter(ctx, d) = ctx
    BY <2>1 DEF Shown, CtxAfter
  <2>3. Stage(GameWon(s)) = "end"
    BY DEF Stage, GameWon
  <2>4. GameBut({"phase", "winner"}, h, g) /\ h.winner = s
    BY <1>1, WonGame DEF Paints
  <2>5. /\ SameBut({"over"}, v, u)
        /\ v.over = BoxOf(u.score, s)
    BY <1>1, OverFields DEF Paints, BoxOf
  <2>. HIDE DEF d, h, v
  <2>6. Paints(v, ctx, h, "end")
    BY <1>1, <2>4, <2>5 DEF Paints, GameBut, SameBut
  <2>. QED BY <2>2, <2>3, <2>6 DEF d, h
<1>2. ASSUME Paints(u, ctx, g, stage), May(stage, ShowNotCounted(s, cs, b))
      PROVE  LET d == Sent(You, ShowNotCounted(s, cs, b), n)
             IN  Paints(Shown(u, d), CtxAfter(ctx, d), Reduce(Target, g, ShowNotCounted(s, cs, b)),
                        Stage(ShowNotCounted(s, cs, b)))
  <2>. DEFINE d == Sent(You, ShowNotCounted(s, cs, b), n)
              v == Reveal(u, s, b, cs)
  <2>0. d = [type |-> "show_uncounted", seat |-> s, cards |-> cs, isCrib |-> b]
    BY <1>0, SentForms
  <2>2. Shown(u, d) = v /\ CtxAfter(ctx, d) = ctx
    BY <2>0 DEF Shown, CtxAfter
  <2>3. Stage(ShowNotCounted(s, cs, b)) = "end" /\ stage = "end"
    BY <1>2 DEF Stage, ShowNotCounted, May
  <2>4. Reduce(Target, g, ShowNotCounted(s, cs, b)) = g
    BY UncountedGame
  <2>5. SameBut({"botCards", "starter", "inPlay", "played", "show"}, v, u)
    BY <1>2, RevealFields DEF Paints
  <2>. HIDE DEF d, v
  <2>6. Paints(v, ctx, g, "end")
    BY <1>2, <2>3, <2>5 DEF Paints, SameBut
  <2>. QED BY <2>2, <2>3, <2>4, <2>6 DEF d
<1>. QED BY <1>1, <1>2 DEF PlaysBack

LEMMA PaintStep ==
  ASSUME NEW u, NEW g, NEW stage, NEW n, NEW e, Made(e)
  PROVE  PlaysBack(u, ctx, g, stage, e, n)
BY PaintDeal, PaintThrow, PaintCut, PaintPlay, PaintQuiet, PaintShow, PaintEnd DEF Made

-----------------------------------------------------------------------------
(***************************************************************************)
(* The end of a game, and the log as it is.                                *)
(***************************************************************************)
LEMMA LiveIs ==
  ASSUME TellInv
  PROVE  Folded(Target, log) = Live /\ AfterOf(log, Len(log)) = Live
<1>1. \E sc \in [Seat -> Nat] : Folded(Target, log) = LiveWith(sc) /\ sc = scores
  BY DEF TellInv, Caps, Alike
<1>2. Folded(Target, log) = Live
  BY <1>1 DEF Live, LiveWith, Game
<1>3. SubSeq(log, 1, Len(log)) = log
  BY DEF TellInv, IsLog
<1>. QED BY <1>2, <1>3 DEF AfterOf

LEMMA LiveFields ==
  /\ HasFields(Live) /\ Live.dealer = dealer /\ Live.phase = phase /\ Live.scores = scores
  /\ Live.hands = hands /\ Live.played = played /\ Live.starter = starter
  /\ Live.count = count /\ Live.winner = winner
BY DEF Live, HasFields

\* Nothing but hands that are no longer counted comes after the end.
LEMMA EndsThere ==
  ASSUME LogInv, ShapeInv, NEW n \in 2..Len(log), Stage(log[n]) = "end"
  PROVE  /\ Stage(log[Len(log)]) = "end"
         /\ AfterOf(log, Len(log)) = AfterOf(log, n)
<1>. DEFINE Same(m) == Stage(log[m]) = "end" /\ AfterOf(log, m) = AfterOf(log, n)
            G == {k \in Nat : n + k <= Len(log) => Same(n + k)}
<1>0. IsLog(log) /\ Len(log) \in Nat /\ n \in Nat /\ n >= 2
  BY LogFacts DEF LogInv
<1>1. 0 \in G
  BY <1>0
<1>2. ASSUME NEW k \in G PROVE k + 1 \in G
  <2>1. CASE n + (k + 1) <= Len(log)
    <3>1. PICK m : m = n + k
      OBVIOUS
    <3>2. /\ m \in Nat /\ m + 1 = n + (k + 1) /\ m + 1 \in 1..Len(log) /\ m + 1 \in 3..Len(log)
          /\ m <= Len(log) /\ (m + 1) - 1 = m
      BY <1>0, <2>1, <3>1
    <3>3. Same(m)
      BY <3>1, <3>2
    <3>4. May(Stage(log[m]), log[m + 1])
      BY <3>2 DEF ShapeInv
    <3>5. log[m + 1].type = "show_not_counted"
      BY <3>3, <3>4 DEF May
    <3>6. Stage(log[m + 1]) = "end"
      BY <3>5 DEF Stage
    <3>7. AfterOf(log, m + 1) = Reduce(Target, AfterOf(log, m), log[m + 1])
      BY <1>0, <3>2, PrefixGoesOn
    <3>8. AfterOf(log, m + 1) = AfterOf(log, m)
      BY <3>5, <3>7 DEF Reduce
    <3>9. Same(m + 1)
      BY <3>3, <3>6, <3>8
    <3>. HIDE DEF Same
    <3>. QED BY <3>2, <3>9
  <2>2. CASE ~(n + (k + 1) <= Len(log))
    BY <2>2
  <2>. QED BY <2>1, <2>2
<1>. HIDE DEF Same
<1>3. G = Nat
  <2>. HIDE DEF G
  <2>1. G \in SUBSET Nat
    BY DEF G
  <2>. QED BY <1>1, <1>2, <2>1, InductionOverNat
<1>4. PICK k \in Nat : n + k = Len(log)
  <2>1. Len(log) - n \in Nat /\ n + (Len(log) - n) = Len(log)
    BY <1>0
  <2>. HIDE DEF G
  <2>. QED BY <2>1
<1>5. Same(Len(log))
  <2>1. k \in G
    <3>. HIDE DEF G
    <3>. QED BY <1>3
  <2>. QED BY <1>0, <1>4, <2>1
<1>. QED BY <1>5 DEF Same

-----------------------------------------------------------------------------
(***************************************************************************)
(* While the page follows the game, it shows the game as it stood after    *)
(* the events it has been told of, and what it is still to play back is    *)
(* the rest.                                                               *)
(***************************************************************************)
Following == at \in {"asking", "discarding", "playing", "posting", "animating"}

Reached == IF at = "posting" /\ busy THEN base ELSE Len(log) - Len(deltas)

ShowsAt(u, c, events, n) ==
  n \in 2..Len(events) /\ Paints(u, c, AfterOf(events, n), Stage(events[n]))

PageInv ==
  /\ Following => ShowsAt(ui, ctx, log, Reached)
  /\ at = "animating" => deltas = DeltasSince(You, log, Len(log) - Len(deltas))

LEMMA NoneOwed ==
  ASSUME NEW ds, ds = <<>>, NEW l, l \in Nat
  PROVE  l - Len(ds) = l
<1>1. Len(ds) = 0
  OBVIOUS
<1>. QED BY <1>1

LEMMA DeltasFacts ==
  ASSUME NEW events, Len(events) \in Nat, NEW n \in 0..Len(events)
  PROVE  LET ds == DeltasSince(You, events, n)
         IN  /\ Len(ds) = Len(events) - n
             /\ n = Len(events) => ds = <<>>
             /\ n < Len(events) =>
                  /\ Head(ds) = Sent(You, events[n + 1], ScoredCount(events, n + 1))
                  /\ Tail(ds) = DeltasSince(You, events, n + 1)
<1>. DEFINE D(i) == Delta(You, events, i)
            ds == DeltasSince(You, events, n)
            tl == DeltasSince(You, events, n + 1)
<1>0. D(n + 1) = Sent(You, events[n + 1], ScoredCount(events, n + 1))
  BY DeltaIs
<1>1. /\ ds = [i \in 1..(Len(events) - n) |-> D(n + i)]
      /\ tl = [i \in 1..(Len(events) - (n + 1)) |-> D((n + 1) + i)]
  BY DEF DeltasSince
<1>. HIDE DEF D, ds, tl
<1>2. PICK l : l = Len(events) - n
  OBVIOUS
<1>3. l \in Nat /\ Len(events) - (n + 1) = l - 1 /\ (n < Len(events) => l >= 1) /\ (n = Len(events) => l = 0)
  BY <1>2
<1>4. ds = [i \in 1..l |-> D(n + i)] /\ tl = [i \in 1..(l - 1) |-> D((n + 1) + i)]
  BY <1>1, <1>2, <1>3
<1>. DEFINE T == {D(n + i) : i \in 1..l}
<1>5. ds \in Seq(T) /\ Len(ds) = l
  <2>1. \A i \in 1..l : D(n + i) \in T
    OBVIOUS
  <2>. HIDE DEF T
  <2>2. ds \in [1..l -> T]
    BY <1>4, <2>1
  <2>. QED BY <1>3, <2>2
<1>. HIDE DEF T
<1>6. n = Len(events) => ds = <<>>
  BY <1>3, <1>5
<1>7. ASSUME n < Len(events)
      PROVE  Head(ds) = D(n + 1) /\ Tail(ds) = tl
  <2>1. Head(ds) = ds[1] /\ ds[1] = D(n + 1)
    BY <1>3, <1>4, <1>5, <1>7
  <2>2. /\ Tail(ds) \in Seq(T) /\ Len(Tail(ds)) = l - 1
        /\ \A i \in 1..(l - 1) : Tail(ds)[i] = ds[i + 1]
    BY <1>3, <1>5, <1>7
  <2>0. l - 1 \in Nat
    BY <1>3, <1>7
  <2>3. ASSUME NEW i \in 1..(l - 1) PROVE ds[i + 1] = tl[i]
    <3>1. i + 1 \in 1..l /\ n + (i + 1) = (n + 1) + i
      BY <1>3
    <3>. QED BY <1>4, <3>1
  <2>4. Tail(ds) = [i \in 1..(l - 1) |-> Tail(ds)[i]]
    <3>1. PICK y : y = Tail(ds)
      OBVIOUS
    <3>2. PICK m : m = l - 1
      OBVIOUS
    <3>3. y \in Seq(T) /\ Len(y) = m /\ m \in Nat
      BY <2>0, <2>2, <3>1, <3>2
    <3>4. y = [i \in 1..m |-> y[i]]
      BY <3>3
    <3>. QED BY <3>1, <3>2, <3>4
  <2>5. Tail(ds) = [i \in 1..(l - 1) |-> tl[i]]
    BY <2>2, <2>3, <2>4
  <2>6. tl = [i \in 1..(l - 1) |-> tl[i]]
    BY <1>4
  <2>. QED BY <2>1, <2>5, <2>6
<1>. QED BY <1>0, <1>2, <1>5, <1>6, <1>7 DEF ds, tl

\* The log only grows.
LEMMA LogOnlyGrows ==
  ASSUME GameInv, LogInv, Logged
  PROVE  \E more : IsLog(more) /\ log' = log \o more
<1>1. ASSUME NEW s \in Seat, NEW two \in Throws, Discard(s, two), log' = log \o out'
      PROVE  \E more : IsLog(more) /\ log' = log \o more
  <2>1. IsLog(out')
    BY <1>1, LedDiscard DEF Led, IsLog
  <2>. QED BY <1>1, <2>1
<1>2. ASSUME NEW s \in Seat, NEW c \in hands[s], Play(s, c), log' = log \o out'
      PROVE  \E more : IsLog(more) /\ log' = log \o more
  <2>1. IsLog(out')
    BY <1>2, LedPlay DEF Led, IsLog
  <2>. QED BY <1>2, <2>1
<1>3. CASE UNCHANGED log
  <2>1. IsLog(<<>>) /\ log \o <<>> = log
    BY LogOfOne, LogsJoin DEF LogInv
  <2>. QED BY <1>3, <2>1
<1>. QED BY <1>1, <1>2, <1>3 DEF Logged

LEMMA ShownStays ==
  ASSUME GameInv, LogInv, Logged, NEW u, NEW c, NEW n, ShowsAt(u, c, log, n)
  PROVE  ShowsAt(u, c, log', n)
<1>1. PICK more : IsLog(more) /\ log' = log \o more
  BY LogOnlyGrows
<1>2. PICK all : all = log'
  OBVIOUS
<1>3. /\ Len(log) \in Nat /\ Len(more) \in Nat /\ Len(all) = Len(log) + Len(more)
      /\ \A i \in 1..Len(log) : all[i] = log[i]
  BY <1>1, <1>2, JoinedLog DEF LogInv
<1>4. n \in 2..Len(log) /\ n \in 1..Len(log) /\ n \in 0..Len(log) /\ n \in 2..Len(all)
  BY <1>3 DEF ShowsAt
<1>5. AfterOf(all, n) = AfterOf(log, n)
  BY <1>1, <1>2, <1>4, FitsStay DEF LogInv
<1>6. all[n] = log[n]
  BY <1>3, <1>4
<1>. QED BY <1>2, <1>4, <1>5, <1>6 DEF ShowsAt

\* The steps of the page.
LEMMA PaintsHand ==
  ASSUME NEW u, NEW r, SameBut({"hand"}, r, u), NEW c, NEW events, NEW n, ShowsAt(u, c, events, n)
  PROVE  ShowsAt(r, c, events, n)
<1>. DEFINE g == AfterOf(events, n)
            stage == Stage(events[n])
<1>1. Paints(u, c, g, stage) /\ n \in 2..Len(events)
  BY DEF ShowsAt
<1>. HIDE DEF g, stage
<1>2. Paints(r, c, g, stage)
  BY <1>1 DEF Paints, Laying, SameBut
<1>. QED BY <1>1, <1>2 DEF ShowsAt, g, stage

\* A page painted from a snapshot.
LEMMA PaintsLive ==
  ASSUME GameInv, TellInv, DealInv, winner = NoSeat, NEW u, NEW c,
         IsTable(u), c = [dealer |-> dealer, starter |-> starter],
         u.dealer = dealer, u.score = scores, u.over = NoResult, u.show = NoReveal,
         u.played = played, u.count = count, u.starter = starter,
         phase = "play" => u.inPlay /\ u.cribCount = 4 /\ u.botCards = Cardinality(hands[Bot])
  PROVE  ShowsAt(u, c, log, Len(log))
<1>1. Len(log) \in 2..Len(log) /\ Stage(log[Len(log)]) \in {"deal", "throw", "play"}
  BY LastStage
<1>2. AfterOf(log, Len(log)) = Live
  BY LiveIs
<1>. DEFINE stage == Stage(log[Len(log)])
<1>. HIDE DEF stage
<1>3. Paints(u, c, Live, stage)
  BY <1>1, LiveFields DEF Paints, Laying, stage
<1>. QED BY <1>1, <1>2, <1>3 DEF ShowsAt, stage

LEMMA OpenPage == GameInv /\ TellInv /\ DealInv /\ Control /\ Open => PageInv'
<1>. SUFFICES ASSUME GameInv, TellInv, DealInv, Control, Open PROVE PageInv'
  OBVIOUS
<1>1. /\ at = "opening" /\ at' = "asking" /\ deltas' = deltas /\ deltas = <<>> /\ log' = log
      /\ ui' = Dealt(Fresh, dealer, Snapshot.yourHand)
      /\ ctx' = [dealer |-> dealer, starter |-> NoCard]
  BY DEF Open, Control, historyVars
<1>2. winner = NoSeat /\ phase = "discard" /\ scores = [s \in Seat |-> 0]
  BY <1>1 DEF Control, Untouched
<1>3. starter = NoCard /\ count = 0 /\ played = Empty
  <2>1. \A s \in Seat : played[s] = {}
    BY <1>2 DEF GameInv, CardInv
  <2>2. played = Empty
    BY <2>1 DEF GameInv, TypeOK, Empty
  <2>. QED BY <1>2, <2>2 DEF DealInv, GameInv, PlayInv
<1>4. /\ IsTable(ui') /\ ui'.score = Fresh.score /\ ui'.show = Fresh.show /\ ui'.over = Fresh.over
      /\ ui'.dealer = dealer /\ ui'.played = Empty /\ ui'.count = 0 /\ ui'.starter = NoCard
  BY <1>1, FreshFields, DealtFields
<1>5. ShowsAt(ui', ctx', log, Len(log))
  BY <1>1, <1>2, <1>3, <1>4, FreshFields, PaintsLive
<1>6. Len(log) \in Nat /\ Len(log) - Len(<<>>) = Len(log)
  BY LogFacts DEF DealInv
<1>. QED BY <1>1, <1>5, <1>6 DEF PageInv, Following, Reached

LEMMA ResumePage == GameInv /\ TellInv /\ DealInv /\ Control /\ Resume => PageInv'
<1>. SUFFICES ASSUME GameInv, TellInv, DealInv, Control, Resume PROVE PageInv'
  OBVIOUS
<1>1. at = "resuming" /\ deltas' = deltas /\ deltas = <<>> /\ log' = log
  BY DEF Resume, Control, historyVars
<1>2. CASE winner # NoSeat
  <2>1. at' = "elsewhere"
    BY <1>2, SnapshotFields DEF Resume
  <2>. QED BY <2>1 DEF PageInv, Following
<1>3. CASE winner = NoSeat
  <2>1. at' = "asking" /\ ui' = Hydrated(Snapshot) /\ ctx' = CtxOf(Snapshot)
    BY <1>3, SnapshotFields DEF Resume
  <2>. DEFINE v == Snapshot
  <2>2. /\ v.dealer = dealer /\ v.phase = phase /\ v.scores = scores
        /\ v.opponentCards = Cardinality(hands[Bot])
        /\ v.yourPlayed = played[You] /\ v.opponentPlayed = played[Bot]
        /\ v.count = count /\ v.starter = starter
    BY SnapshotFields
  <2>. HIDE DEF v
  <2>3. /\ IsTable(ui') /\ ui'.show = NoReveal /\ ui'.over = NoResult
        /\ ui'.dealer = v.dealer /\ ui'.score = v.scores
        /\ ui'.botCards = v.opponentCards /\ ui'.count = v.count
        /\ ui'.played = [s \in Seat |-> IF s = You THEN v.yourPlayed ELSE v.opponentPlayed]
        /\ ui'.starter = (IF v.phase = "discard" THEN NoCard ELSE v.starter)
        /\ ui'.inPlay = (v.phase = "play")
        /\ ui'.cribCount = IF v.phase = "discard" THEN 0 ELSE 4
    BY <2>1, HydratedFields DEF v
  <2>4. ui'.played = played
    <3>1. \A s \in Seat : s = You \/ s = Bot
      BY DEF You, Bot, Seat
    <3>2. played = [s \in Seat |-> played[s]]
      BY DEF GameInv, TypeOK
    <3>. QED BY <2>2, <2>3, <3>1, <3>2
  <2>5. ui'.starter = starter
    BY <2>2, <2>3 DEF DealInv
  <2>6. ctx' = [dealer |-> dealer, starter |-> starter]
    <3>1. ctx' = [dealer |-> v.dealer, starter |-> ui'.starter]
      BY <2>1 DEF CtxOf, v
    <3>. QED BY <2>2, <2>5, <3>1
  <2>7. phase = "play" => ui'.inPlay /\ ui'.cribCount = 4 /\ ui'.botCards = Cardinality(hands[Bot])
    BY <2>2, <2>3
  <2>8. ShowsAt(ui', ctx', log, Len(log))
    BY <1>3, <2>2, <2>3, <2>4, <2>5, <2>6, <2>7, PaintsLive
  <2>9. Len(log) \in Nat /\ Len(log) - Len(<<>>) = Len(log)
    BY LogFacts DEF DealInv
  <2>. QED BY <1>1, <2>1, <2>8, <2>9 DEF PageInv, Following, Reached
<1>. QED BY <1>2, <1>3

\* The hand is set from a snapshot, or a card leaves it.
LEMMA HandPage == Control /\ PageInv /\ (Ask \/ PersonStep) => PageInv'
<1>. SUFFICES ASSUME Control, PageInv, Ask \/ PersonStep PROVE PageInv'
  OBVIOUS
<1>1. /\ at \in {"asking", "discarding", "playing"} /\ at' # "animating"
      /\ log' = log /\ deltas' = deltas /\ busy' = busy /\ base' = base /\ ctx' = ctx
  BY DEF Ask, PersonStep, PostDiscard, PostPlay, historyVars
<1>2. ~busy /\ Following /\ at # "posting"
  BY <1>1 DEF Control, Following
<1>3. SameBut({"hand"}, ui', ui)
  <2>1. ui' = ui \/ \E hd : ui' = [ui EXCEPT !.hand = hd]
    BY DEF Ask, PersonStep, PostDiscard, PostPlay
  <2>2. IsTable(ui)
    BY DEF Control
  <2>3. CASE ui' = ui
    BY <2>2, <2>3 DEF SameBut
  <2>. QED BY <2>1, <2>2, <2>3, HandFields
<1>4. ShowsAt(ui', ctx, log, Len(log) - Len(deltas))
  BY <1>2, <1>3, PaintsHand DEF PageInv, Reached
<1>. QED BY <1>1, <1>2, <1>4 DEF PageInv, Reached

LEMMA AskAgainPage == PageInv /\ AskAgain => PageInv'
BY DEF PageInv, AskAgain, Following, Reached, historyVars

LEMMA AwayPage == Control /\ (Reload \/ Lose) => PageInv'
BY DEF PageInv, Reload, Lose, Following

\* A delta is played back.
LEMMA AnimatePage ==
  LogInv /\ ShapeInv /\ FitInv /\ PageInv /\ Animate => PageInv'
<1>. SUFFICES ASSUME LogInv, ShapeInv, FitInv, PageInv, Animate PROVE PageInv'
  OBVIOUS
<1>0. IsLog(log) /\ Len(log) \in Nat
  BY LogFacts DEF LogInv
<1>1. /\ at = "animating" /\ at' = "animating" /\ deltas # <<>> /\ log' = log
      /\ ui' = Shown(ui, Head(deltas)) /\ ctx' = CtxAfter(ctx, Head(deltas))
      /\ deltas' = Tail(deltas)
  BY DEF Animate, historyVars
<1>2. PICK n : n = Len(log) - Len(deltas)
  OBVIOUS
<1>3. ShowsAt(ui, ctx, log, n) /\ deltas = DeltasSince(You, log, n)
  BY <1>1, <1>2 DEF PageInv, Following, Reached
<1>4. /\ n \in Nat /\ n >= 2 /\ n <= Len(log) /\ n \in 0..Len(log)
      /\ Paints(ui, ctx, AfterOf(log, n), Stage(log[n]))
  BY <1>0, <1>3 DEF ShowsAt
<1>5. n < Len(log)
  <2>0. \A l \in Nat : n <= l /\ n # l => n < l
    BY <1>4
  <2>1. n # Len(log)
    <3>1. n = Len(log) => DeltasSince(You, log, n) = <<>>
      BY <1>0, <1>4, DeltasFacts
    <3>. QED BY <1>1, <1>3, <3>1
  <2>. QED BY <1>0, <1>4, <2>0, <2>1
<1>. DEFINE e == log[n + 1]
            k == ScoredCount(log, n + 1)
            g == AfterOf(log, n)
<1>6. Head(deltas) = Sent(You, e, k) /\ Tail(deltas) = DeltasSince(You, log, n + 1)
  BY <1>0, <1>3, <1>4, <1>5, DeltasFacts
<1>7. /\ n + 1 \in 3..Len(log) /\ (n + 1) - 1 = n /\ n \in 2..(Len(log) - 1)
      /\ n + 1 \in 1..Len(log) /\ n + 1 \in 2..Len(log)
  BY <1>0, <1>4, <1>5
<1>8. May(Stage(log[n]), e)
  BY <1>7 DEF ShapeInv
<1>9. ComesNext(g, e, k)
  BY <1>7 DEF FitInv, FitsAt
<1>10. Made(e)
  <2>1. Command(log[n + 1]) \/ FollowUp(log[n + 1])
    BY <1>7 DEF LogInv
  <2>. QED BY <2>1 DEF Command, FollowUp
<1>11. AfterOf(log, n + 1) = Reduce(Target, g, e)
  BY <1>0, <1>4, <1>7, PrefixGoesOn
<1>12. PlaysBack(ui, ctx, g, Stage(log[n]), e, k)
  BY <1>10, PaintStep
<1>. HIDE DEF e, k, g
<1>13. Paints(ui', ctx', Reduce(Target, g, e), Stage(e))
  BY <1>1, <1>4, <1>6, <1>8, <1>9, <1>12 DEF PlaysBack, g
<1>14. ShowsAt(ui', ctx', log, n + 1)
  BY <1>7, <1>11, <1>13 DEF ShowsAt, e
<1>15. Len(log) - Len(Tail(deltas)) = n + 1
  <2>1. Len(Tail(deltas)) = Len(log) - (n + 1)
    <3>1. n + 1 \in 0..Len(log)
      BY <1>7
    <3>. QED BY <1>0, <1>6, <3>1, DeltasFacts
  <2>2. PICK l, m : l = Len(log) /\ m = Len(Tail(deltas))
    OBVIOUS
  <2>3. m = l - (n + 1) /\ l \in Nat /\ n \in Nat
    BY <1>0, <1>4, <2>1, <2>2
  <2>4. l - m = n + 1
    BY <2>3
  <2>. QED BY <2>2, <2>4
<1>. QED BY <1>1, <1>6, <1>14, <1>15 DEF PageInv, Following, Reached

\* The steps of the server.
LEMMA ServerPage ==
  GameInv /\ LogInv /\ Control /\ PageInv /\ Logged /\ ServerStep => PageInv'
<1>. SUFFICES ASSUME GameInv, LogInv, Control, PageInv, Logged, ServerStep PROVE PageInv'
  OBVIOUS
<1>0. Len(log) \in Nat
  BY LogFacts DEF LogInv
<1>1. CASE Create
  BY <1>1 DEF Create, PageInv, Following
<1>2. CASE Handle
  <2>1. /\ at = "posting" /\ ~busy /\ busy' /\ base' = Len(log)
        /\ at' = at /\ ui' = ui /\ ctx' = ctx
    BY <1>2 DEF Handle, pageVars
  <2>2. deltas = <<>>
    BY <2>1 DEF Control
  <2>3. Len(log) - Len(deltas) = Len(log)
    BY <1>0, <2>2, NoneOwed
  <2>4. ShowsAt(ui, ctx, log, Len(log))
    BY <2>1, <2>3 DEF PageInv, Following, Reached
  <2>5. PICK n : n = Len(log)
    OBVIOUS
  <2>6. ShowsAt(ui, ctx, log', n)
    BY <2>4, <2>5, ShownStays
  <2>. QED BY <2>1, <2>5, <2>6 DEF PageInv, Reached
<1>3. CASE BotMoves
  <2>1. /\ busy /\ at' = at /\ ui' = ui /\ ctx' = ctx /\ busy' = busy /\ base' = base
    BY <1>3 DEF BotMoves, pageVars
  <2>2. CASE at = "posting"
    <3>1. ShowsAt(ui, ctx, log, base)
      BY <2>1, <2>2 DEF PageInv, Following, Reached
    <3>2. ShowsAt(ui, ctx, log', base)
      BY <3>1, ShownStays
    <3>. QED BY <2>1, <2>2, <3>2 DEF PageInv, Reached
  <2>3. CASE at # "posting"
    BY <2>1, <2>3 DEF Control, PageInv, Following
  <2>. QED BY <2>2, <2>3
<1>4. CASE Answer
  <2>1. /\ busy /\ ui' = ui /\ ctx' = ctx /\ log' = log
    BY <1>4 DEF Answer, historyVars
  <2>2. CASE at = "posting"
    <3>1. ShowsAt(ui, ctx, log, base)
      BY <2>1, <2>2 DEF PageInv, Following, Reached
    <3>2. at' = "animating" /\ deltas' = DeltasSince(You, log, base)
      BY <1>4, <2>2 DEF Answer
    <3>3. base \in 0..Len(log) /\ base \in Nat
      BY <1>0, <3>1 DEF ShowsAt
    <3>4. Len(DeltasSince(You, log, base)) = Len(log) - base
      BY <1>0, <3>3, DeltasFacts
    <3>5. Len(log) - (Len(log) - base) = base
      BY <1>0, <3>3
    <3>. QED BY <2>1, <3>1, <3>2, <3>4, <3>5 DEF PageInv, Reached
  <2>3. CASE at # "posting"
    <3>1. at' = at
      BY <1>4, <2>3 DEF Answer
    <3>. QED BY <2>1, <2>3, <3>1 DEF Control, PageInv, Following
  <2>. QED BY <2>2, <2>3
<1>. QED BY <1>1, <1>2, <1>3, <1>4 DEF ServerStep

LEMMA PageInvNext ==
  GameInv /\ TellInv /\ LogInv /\ DealInv /\ ShapeInv /\ FitInv /\ Control /\ PageInv /\ Logged
    /\ [TableNext]_tableVars => PageInv'
<1>1. ASSUME PageInv, UNCHANGED tableVars PROVE PageInv'
  BY <1>1 DEF PageInv, tableVars, pageVars, historyVars, Following, Reached
<1>. QED BY <1>1, ServerPage, OpenPage, ResumePage, HandPage, AskAgainPage, AwayPage, AnimatePage
     DEF TableNext, PageStep

-----------------------------------------------------------------------------
(***************************************************************************)
(* The result box.                                                         *)
(***************************************************************************)
BoxTrue == ui.over # NoResult => winner # NoSeat /\ ui.over = BoxOf(scores, winner)

BoxInv ==
  ~Following => BoxTrue /\ (at = "over" => ui.over # NoResult)

LEMMA EndIsTheWin ==
  ASSUME TellInv, LogInv, DealInv, ShapeInv, NEW n \in 2..Len(log), Stage(log[n]) = "end"
  PROVE  AfterOf(log, n) = Live /\ winner # NoSeat
<1>1. Stage(log[Len(log)]) = "end" /\ AfterOf(log, Len(log)) = AfterOf(log, n)
  BY EndsThere
<1>. QED BY <1>1, LiveIs, LastStage

LEMMA BoxOnThePage ==
  ASSUME TellInv, LogInv, DealInv, ShapeInv, PageInv, Following
  PROVE  BoxTrue
<1>1. PICK n : ShowsAt(ui, ctx, log, n)
  BY DEF PageInv
<1>. DEFINE g == AfterOf(log, n)
            stage == Stage(log[n])
<1>2. n \in 2..Len(log) /\ ui.over = IF stage = "end" THEN BoxOf(g.scores, g.winner) ELSE NoResult
  BY <1>1 DEF ShowsAt, Paints
<1>3. stage = "end" => g = Live /\ winner # NoSeat
  BY <1>2, EndIsTheWin
<1>. HIDE DEF g, stage
<1>. QED BY <1>2, <1>3, LiveFields DEF BoxTrue

LEMMA BoxStays ==
  ASSUME GameInv, Logged, BoxTrue, ui' = ui
  PROVE  BoxTrue'
<1>1. CASE winner = NoSeat
  BY <1>1 DEF BoxTrue
<1>2. CASE winner # NoSeat
  <2>1. UNCHANGED vars
    BY <1>2, WonTakesNone DEF Logged
  <2>. QED BY <2>1 DEF BoxTrue, vars
<1>. QED BY <1>1, <1>2

LEMMA BoxInvNext ==
  GameInv /\ TellInv /\ LogInv /\ DealInv /\ ShapeInv /\ PageInv /\ Control /\ BoxInv /\ Logged
    /\ [TableNext]_tableVars => BoxInv'
<1>. SUFFICES ASSUME GameInv, TellInv, LogInv, DealInv, ShapeInv, PageInv, Control, BoxInv, Logged,
                     [TableNext]_tableVars, ~Following'
              PROVE  BoxTrue' /\ (at' = "over" => ui'.over # NoResult)
  BY DEF BoxInv
<1>1. BoxTrue
  BY BoxOnThePage DEF BoxInv
<1>2. ASSUME ui' = ui, at' = "over" => at = "over"
      PROVE  BoxTrue' /\ (at' = "over" => ui'.over # NoResult)
  BY <1>1, <1>2, BoxStays DEF BoxInv, Following
<1>3. CASE Ask
  <2>0. at = "asking" /\ ~busy /\ deltas = <<>> /\ Len(log) \in Nat
    BY <1>3, LogFacts DEF Ask, Control, LogInv
  <2>1. at' = "over" /\ ui' = ui /\ winner # NoSeat
    <3>1. at' \in {"over", "discarding", "playing", "stranded"} /\ (winner # NoSeat => ui' = ui)
      BY <1>3, SnapshotFields DEF Ask
    <3>2. at' # "stranded"
      BY <1>3, AskControl DEF Control
    <3>3. at' = "over"
      BY <3>1, <3>2 DEF Following
    <3>4. winner # NoSeat
      BY <1>3, <3>3, SnapshotFields DEF Ask
    <3>. QED BY <3>1, <3>3, <3>4
  <2>2. ShowsAt(ui, ctx, log, Len(log))
    <3>1. Len(log) - Len(deltas) = Len(log)
      BY <2>0, NoneOwed
    <3>. QED BY <2>0, <3>1 DEF PageInv, Following, Reached
  <2>3. ui.over = BoxOf(scores, winner)
    <3>. DEFINE stage == Stage(log[Len(log)])
    <3>1. Paints(ui, ctx, Live, stage)
      BY <2>2, LiveIs DEF ShowsAt
    <3>. HIDE DEF stage
    <3>. QED BY <2>1, <3>1, LiveFields DEF Paints
  <2>4. BoxOf(scores, winner) # NoResult
    BY DEF BoxOf, NoResult, SkunkOf
  <2>. QED BY <1>1, <2>1, <2>3, <2>4, BoxStays
<1>4. CASE Create \/ Handle \/ BotMoves
  BY <1>2, <1>4 DEF Create, Handle, BotMoves, pageVars
<1>5. CASE Answer \/ Lose
  BY <1>2, <1>5 DEF Answer, Lose
<1>6. CASE Open \/ PersonStep \/ Animate \/ AskAgain
  BY <1>6 DEF Open, PersonStep, PostDiscard, PostPlay, Animate, AskAgain, Following
<1>7. CASE Resume
  BY <1>2, <1>7 DEF Resume, Following
<1>8. CASE Reload
  BY <1>8, FreshFields DEF Reload, BoxTrue
<1>9. CASE UNCHANGED tableVars
  BY <1>2, <1>9 DEF tableVars, pageVars
<1>. QED BY <1>3, <1>4, <1>5, <1>6, <1>7, <1>8, <1>9 DEF TableNext, ServerStep, PageStep

-----------------------------------------------------------------------------
(***************************************************************************)
(* The theorems about the table.                                           *)
(***************************************************************************)
GameSide == GameInv /\ CutInv /\ CountedInv
LogSide  == TellInv /\ LogInv /\ DealInv /\ ShapeInv /\ FitInv
PageSide == Control /\ PageInv /\ BoxInv

TableInv == GameSide /\ LogSide /\ PageSide

LEMMA InitTable == TableInit => TableInv
<1>. SUFFICES ASSUME TableInit PROVE TableInv
  OBVIOUS
<1>1. HistoryInit /\ Init
  BY DEF TableInit, HistoryInit
<1>2. GameSide
  BY <1>1, InitInv, InitCut, RunningCountOfNothing DEF GameSide, Init, CountedInv
<1>3. LogSide
  BY <1>1, HistoryInitInv, InitLogInv, InitDeal, InitShape, InitFit DEF LogSide
<1>4. PageSide
  BY InitControl, FreshFields DEF TableInit, PageSide, PageInv, BoxInv, BoxTrue, Following
<1>. QED BY <1>2, <1>3, <1>4 DEF TableInv

LEMMA TableInvNext == TableInv /\ [TableNext]_tableVars => TableInv'
<1>. SUFFICES ASSUME TableInv, [TableNext]_tableVars PROVE TableInv'
  OBVIOUS
<1>1. Logged /\ [Next]_vars
  BY TableIsLogged, LoggedIsNext DEF TableInv, GameSide, PageSide
<1>2. GameSide'
  BY <1>1, NextInv, NextCut, NextCounted DEF TableInv, GameSide
<1>3. LogSide'
  BY <1>1, HistoryInvNext, LogInvNext, DealInvNext, ShapeInvNext, FitInvNext
     DEF TableInv, GameSide, LogSide
<1>4. PageSide'
  BY <1>1, ControlNext, PageInvNext, BoxInvNext DEF TableInv, GameSide, LogSide, PageSide
<1>. QED BY <1>2, <1>3, <1>4 DEF TableInv

(***************************************************************************)
(* The page, the server's answer and the log stay in step: what the page   *)
(* shows is the game as it stood after the events it was told of.          *)
(***************************************************************************)
THEOREM TableInvariant == TableSpec => []TableInv
BY InitTable, TableInvNext, PTL DEF TableSpec

(***************************************************************************)
(* A game at the table is a game: every step of the server, the bot and    *)
(* the page is a command of the rules engine that goes to the log, or      *)
(* leaves both alone.  So what is proved of the log and of its readers     *)
(* holds of the games that are played against a bot.                       *)
(***************************************************************************)
THEOREM TablePlaysTheGame == TableSpec => HistorySpec
<1>1. TableInit => HistoryInit
  BY DEF TableInit
<1>2. TableInv /\ [TableNext]_tableVars => [HistoryNext]_historyVars
  BY TableIsHistory DEF TableInv, GameSide, PageSide
<1>. QED BY <1>1, <1>2, TableInvariant, PTL DEF TableSpec, HistorySpec

(***************************************************************************)
(* The person is never left before a table that asks for nothing: whenever *)
(* the server has answered, the game is over or it is the person's move.   *)
(***************************************************************************)
THEOREM PersonIsNeverStranded == TableSpec => []NeverStranded
<1>1. TableInv => NeverStranded
  BY DEF TableInv, PageSide, Control, NeverStranded
<1>. QED BY <1>1, TableInvariant, PTL

(***************************************************************************)
(* No answer and no snapshot names a card the viewer may not know, from    *)
(* the deal until the show.                                                *)
(***************************************************************************)
THEOREM OthersHandsStaySecret == TableSpec => []HandsStaySecret
<1>1. TableInv => HandsStaySecret
  BY SecretHands DEF TableInv, GameSide, LogSide
<1>. QED BY <1>1, TableInvariant, PTL

\* Where a card is asked for.
LEMMA PromptedPage ==
  ASSUME TableInv, Prompted
  PROVE  /\ ui.dealer = dealer /\ ui.score = scores /\ ui.hand = hands[You]
         /\ Laying(ui, Live)
<1>1. /\ winner = NoSeat /\ ui.hand = hands[You] /\ deltas = <<>> /\ Following /\ at # "posting"
  BY DEF TableInv, PageSide, Control, Prompted, Following
<1>2. /\ Len(log) \in Nat /\ Stage(log[Len(log)]) \in {"deal", "throw", "play"}
  BY <1>1, LastStage DEF TableInv, LogSide
<1>3. Len(log) - Len(deltas) = Len(log)
  BY <1>1, <1>2, NoneOwed
<1>4. ShowsAt(ui, ctx, log, Len(log))
  BY <1>1, <1>3 DEF TableInv, PageSide, PageInv, Reached
<1>. DEFINE stage == Stage(log[Len(log)])
<1>5. Paints(ui, ctx, Live, stage)
  BY <1>4, LiveIs DEF ShowsAt, TableInv, LogSide
<1>6. stage \in {"deal", "throw", "play"}
  BY <1>2
<1>. HIDE DEF stage
<1>. QED BY <1>1, <1>5, <1>6, LiveFields DEF Paints

(***************************************************************************)
(* Whenever a card is asked for, the table the page has put together from  *)
(* the deltas, or carried on from a snapshot, is the seat's view on the    *)
(* server.                                                                 *)
(***************************************************************************)
THEOREM TableShowsTheView == TableSpec => []TableIsTheView
<1>1. TableInv => TableIsTheView
  <2>. SUFFICES ASSUME TableInv PROVE TableIsTheView
    OBVIOUS
  <2>. DEFINE v == Snapshot
  <2>1. /\ v.dealer = dealer /\ v.phase = phase /\ v.scores = scores
        /\ v.yourHand = hands[You] /\ v.opponentCards = Cardinality(hands[Bot])
        /\ v.yourPlayed = played[You] /\ v.opponentPlayed = played[Bot]
        /\ v.count = count /\ v.starter = starter
        /\ v.cribCards = Cardinality(Crib)
    BY SnapshotFields
  <2>. HIDE DEF v
  <2>2. played = [s \in Seat |-> IF s = You THEN v.yourPlayed ELSE v.opponentPlayed]
    <3>1. \A s \in Seat : s = You \/ s = Bot
      BY DEF You, Bot, Seat
    <3>2. played = [s \in Seat |-> played[s]]
      BY DEF TableInv, GameSide, GameInv, TypeOK
    <3>. QED BY <2>1, <3>1, <3>2
  <2>3. ASSUME Prompted
        PROVE  /\ ui.dealer = v.dealer /\ ui.score = v.scores /\ ui.hand = v.yourHand
               /\ ui.played = [s \in Seat |-> IF s = You THEN v.yourPlayed ELSE v.opponentPlayed]
               /\ ui.count = v.count
               /\ ui.starter = (IF v.phase = "play" THEN v.starter ELSE NoCard)
               /\ ui.show = NoReveal
    <3>1. /\ ui.dealer = dealer /\ ui.score = scores /\ ui.hand = hands[You]
          /\ ui.played = played /\ ui.count = count /\ ui.starter = starter /\ ui.show = NoReveal
      BY <2>3, PromptedPage, LiveFields DEF Laying
    <3>2. phase # "play" => starter = NoCard
      BY <2>3 DEF TableInv, PageSide, Control, Prompted, LogSide, DealInv
    <3>. QED BY <2>1, <2>2, <3>1, <3>2
  <2>4. ASSUME at = "playing"
        PROVE  ui.botCards = v.opponentCards /\ ui.cribCount = v.cribCards /\ ui.inPlay
    <3>1. phase = "play"
      BY <2>4 DEF TableInv, PageSide, Control
    <3>2. ui.inPlay /\ ui.cribCount = 4 /\ ui.botCards = Cardinality(hands[Bot])
      BY <2>4, <3>1, PromptedPage, LiveFields DEF Laying, Prompted
    <3>3. Cardinality(Crib) = 4
      BY <3>1, CribIsFour DEF TableInv, GameSide
    <3>. QED BY <2>1, <3>2, <3>3
  <2>. QED BY <2>3, <2>4 DEF TableIsTheView, v
<1>. QED BY <1>1, TableInvariant, PTL

(***************************************************************************)
(* The result box tells the winner, both scores and the skunk of the game  *)
(* on the server, also when the winning award was cut off at the target or *)
(* the show was cut short.                                                 *)
(***************************************************************************)
THEOREM BoxTellsTheResult == TableSpec => []FinalBoxIsTheResult
<1>1. TableInv => FinalBoxIsTheResult
  <2>. SUFFICES ASSUME TableInv PROVE FinalBoxIsTheResult
    OBVIOUS
  <2>1. BoxTrue
    BY BoxOnThePage DEF TableInv, LogSide, PageSide, BoxInv
  <2>2. at = "over" => ui.over # NoResult
    BY DEF TableInv, PageSide, BoxInv, Following
  <2>3. BoxOf(scores, winner) = [won |-> winner = You, my |-> scores[You], opp |-> scores[Bot],
                                 skunk |-> SkunkOf(scores, winner)]
    <3>1. scores[You] \in 0..Target /\ scores[Bot] \in 0..Target
      BY DEF TableInv, GameSide, GameInv, TypeOK, You, Bot, Seat
    <3>2. Capped(scores[You]) = scores[You] /\ Capped(scores[Bot]) = scores[Bot]
      BY <3>1, BotGameAssumption, TargetAssumption DEF Capped
    <3>. QED BY <3>2 DEF BoxOf
  <2>. QED BY <2>1, <2>2, <2>3 DEF BoxTrue, FinalBoxIsTheResult
<1>. QED BY <1>1, TableInvariant, PTL

-----------------------------------------------------------------------------
(***************************************************************************)
(* The readers of a finished game's log: each of the recursive functions   *)
(* the post-game pages are made with exists, and goes on by its step.      *)
(***************************************************************************)
ReaderStart(kind) ==
  CASE kind = "frames"   -> <<FirstFrame>>
    [] kind = "walk"     -> BeforeWalk
    [] kind = "discards" -> BeforeDiscards
    [] kind = "plays"    -> <<>>
    [] OTHER             -> NoVerdicts

ReaderStep(kind, arg, value, n) ==
  CASE kind = "frames"   -> AddFrame(value, arg[n])
    [] kind = "walk"     -> WalkStep(arg.events, arg.seat, value, arg.events[n])
    [] kind = "discards" -> DiscardStep(arg.seat, value, arg.events[n])
    [] kind = "plays"    -> AddPlay(arg.events, arg.seat, arg.deal, value, n)
    [] OTHER             -> AddVerdicts(value, arg.deals[n], arg.engine)

\* f holds what a reader has made of each of the first l.
Unfolds(f, kind, arg, l) ==
  f = [n \in 0..l |-> IF n = 0 THEN ReaderStart(kind) ELSE ReaderStep(kind, arg, f[n - 1], n)]

LEMMA UnfoldsExist ==
  ASSUME NEW kind, NEW arg, NEW l \in Nat
  PROVE  \E f : Unfolds(f, kind, arg, l)
<1>. DEFINE G == {n \in Nat : \E f : Unfolds(f, kind, arg, n)}
<1>1. 0 \in G
  <2>. DEFINE f == [n \in 0..0 |-> ReaderStart(kind)]
  <2>1. f = [n \in 0..0 |-> IF n = 0 THEN ReaderStart(kind) ELSE ReaderStep(kind, arg, f[n - 1], n)]
    OBVIOUS
  <2>. HIDE DEF f
  <2>2. Unfolds(f, kind, arg, 0)
    BY <2>1 DEF Unfolds
  <2>. QED BY <2>2
<1>2. ASSUME NEW k \in G PROVE k + 1 \in G
  <2>1. PICK f : Unfolds(f, kind, arg, k)
    OBVIOUS
  <2>. DEFINE next == ReaderStep(kind, arg, f[k], k + 1)
              g    == [n \in 0..(k + 1) |-> IF n = k + 1 THEN next ELSE f[n]]
  <2>2. ASSUME NEW n \in 0..(k + 1)
        PROVE  g[n] = IF n = 0 THEN ReaderStart(kind) ELSE ReaderStep(kind, arg, g[n - 1], n)
    <3>1. CASE n = 0
      <4>1. n # k + 1 /\ n \in 0..k
        BY <3>1
      <4>. QED BY <2>1, <3>1, <4>1 DEF Unfolds
    <3>2. CASE n = k + 1
      <4>1. n # 0 /\ n - 1 = k /\ k \in 0..(k + 1) /\ k # k + 1
        BY <3>2
      <4>2. g[n - 1] = f[k] /\ g[n] = next
        BY <3>2, <4>1
      <4>. QED BY <3>2, <4>1, <4>2
    <3>3. CASE n # 0 /\ n # k + 1
      <4>1. n \in 0..k /\ n - 1 \in 0..(k + 1) /\ n - 1 # k + 1
        BY <3>3
      <4>2. g[n] = f[n] /\ g[n - 1] = f[n - 1]
        BY <3>3, <4>1
      <4>3. f[n] = ReaderStep(kind, arg, f[n - 1], n)
        BY <2>1, <3>3, <4>1 DEF Unfolds
      <4>. QED BY <3>3, <4>2, <4>3
    <3>. QED BY <3>1, <3>2, <3>3
  <2>3. g = [n \in 0..(k + 1) |-> g[n]]
    OBVIOUS
  <2>. HIDE DEF g
  <2>4. Unfolds(g, kind, arg, k + 1)
    BY <2>2, <2>3 DEF Unfolds
  <2>. QED BY <2>4
<1>3. G = Nat
  <2>. HIDE DEF G
  <2>1. G \in SUBSET Nat
    BY DEF G
  <2>. QED BY <1>1, <1>2, <2>1, InductionOverNat
<1>. QED BY <1>3

LEMMA UnfoldsGo ==
  ASSUME NEW kind, NEW arg, NEW l \in Nat, NEW f, Unfolds(f, kind, arg, l)
  PROVE  /\ f[0] = ReaderStart(kind)
         /\ \A n \in 0..(l - 1) : f[n + 1] = ReaderStep(kind, arg, f[n], n + 1)
<1>1. f[0] = ReaderStart(kind)
  BY DEF Unfolds
<1>2. ASSUME NEW n \in 0..(l - 1) PROVE f[n + 1] = ReaderStep(kind, arg, f[n], n + 1)
  <2>1. n + 1 \in 0..l /\ n + 1 # 0 /\ (n + 1) - 1 = n
    OBVIOUS
  <2>. QED BY <2>1 DEF Unfolds
<1>. QED BY <1>1, <1>2

\* The five readers, each as a function f of how much it has read.
LEMMA FramesUnfold ==
  ASSUME NEW replay, Len(replay) \in Nat
  PROVE  \E f : /\ BuildFrames(replay) = f[Len(replay)]
                /\ f[0] = <<FirstFrame>>
                /\ \A n \in 0..(Len(replay) - 1) : f[n + 1] = AddFrame(f[n], replay[n + 1])
<1>. DEFINE arg == replay
            l   == Len(replay)
<1>1. PICK g : Unfolds(g, "frames", arg, l)
  BY UnfoldsExist
<1>2. \E f : Unfolds(f, "frames", arg, l) /\ BuildFrames(replay) = f[l]
  BY <1>1 DEF Unfolds, ReaderStart, ReaderStep, BuildFrames
<1>3. PICK f : Unfolds(f, "frames", arg, l) /\ BuildFrames(replay) = f[l]
  BY <1>2
<1>4. ReaderStart("frames") = <<FirstFrame>>
  BY DEF ReaderStart
<1>5. \A n, v : ReaderStep("frames", arg, v, n) = AddFrame(v, replay[n])
  BY DEF ReaderStep
<1>. HIDE DEF arg
<1>6. /\ f[0] = ReaderStart("frames")
      /\ \A n \in 0..(l - 1) : f[n + 1] = ReaderStep("frames", arg, f[n], n + 1)
  BY <1>3, UnfoldsGo
<1>. QED BY <1>3, <1>4, <1>5, <1>6

LEMMA WalkUnfolds ==
  ASSUME NEW events, Len(events) \in Nat, NEW seat
  PROVE  \E f : /\ AnalyzedDeals(events, seat) = f[Len(events)].deals
                /\ f[0] = BeforeWalk
                /\ \A n \in 0..(Len(events) - 1) : f[n + 1] = WalkStep(events, seat, f[n], events[n + 1])
<1>. DEFINE arg == [events |-> events, seat |-> seat]
            l   == Len(events)
<1>1. PICK g : Unfolds(g, "walk", arg, l)
  BY UnfoldsExist
<1>2. \E f : Unfolds(f, "walk", arg, l) /\ AnalyzedDeals(events, seat) = f[l].deals
  BY <1>1 DEF Unfolds, ReaderStart, ReaderStep, AnalyzedDeals
<1>3. PICK f : Unfolds(f, "walk", arg, l) /\ AnalyzedDeals(events, seat) = f[l].deals
  BY <1>2
<1>4. ReaderStart("walk") = BeforeWalk
  BY DEF ReaderStart
<1>5. \A n, v : ReaderStep("walk", arg, v, n) = WalkStep(events, seat, v, events[n])
  BY DEF ReaderStep
<1>. HIDE DEF arg
<1>6. /\ f[0] = ReaderStart("walk")
      /\ \A n \in 0..(l - 1) : f[n + 1] = ReaderStep("walk", arg, f[n], n + 1)
  BY <1>3, UnfoldsGo
<1>. QED BY <1>3, <1>4, <1>5, <1>6

LEMMA DiscardsUnfold ==
  ASSUME NEW events, Len(events) \in Nat, NEW seat
  PROVE  \E f : /\ AnalyzeDiscards(events, seat) = f[Len(events)].discards
                /\ f[0] = BeforeDiscards
                /\ \A n \in 0..(Len(events) - 1) : f[n + 1] = DiscardStep(seat, f[n], events[n + 1])
<1>. DEFINE arg == [events |-> events, seat |-> seat]
            l   == Len(events)
<1>1. PICK g : Unfolds(g, "discards", arg, l)
  BY UnfoldsExist
<1>2. \E f : Unfolds(f, "discards", arg, l) /\ AnalyzeDiscards(events, seat) = f[l].discards
  BY <1>1 DEF Unfolds, ReaderStart, ReaderStep, AnalyzeDiscards
<1>3. PICK f : Unfolds(f, "discards", arg, l) /\ AnalyzeDiscards(events, seat) = f[l].discards
  BY <1>2
<1>4. ReaderStart("discards") = BeforeDiscards
  BY DEF ReaderStart
<1>5. \A n, v : ReaderStep("discards", arg, v, n) = DiscardStep(seat, v, events[n])
  BY DEF ReaderStep
<1>. HIDE DEF arg
<1>6. /\ f[0] = ReaderStart("discards")
      /\ \A n \in 0..(l - 1) : f[n + 1] = ReaderStep("discards", arg, f[n], n + 1)
  BY <1>3, UnfoldsGo
<1>. QED BY <1>3, <1>4, <1>5, <1>6

LEMMA PlaysUnfold ==
  ASSUME NEW events, Len(events) \in Nat, NEW seat, NEW deal
  PROVE  \E f : /\ PlaysOf(events, seat, deal) = f[Len(events)]
                /\ f[0] = <<>>
                /\ \A n \in 0..(Len(events) - 1) : f[n + 1] = AddPlay(events, seat, deal, f[n], n + 1)
<1>. DEFINE arg == [events |-> events, seat |-> seat, deal |-> deal]
            l   == Len(events)
<1>1. PICK g : Unfolds(g, "plays", arg, l)
  BY UnfoldsExist
<1>2. \E f : Unfolds(f, "plays", arg, l) /\ PlaysOf(events, seat, deal) = f[l]
  BY <1>1 DEF Unfolds, ReaderStart, ReaderStep, PlaysOf
<1>3. PICK f : Unfolds(f, "plays", arg, l) /\ PlaysOf(events, seat, deal) = f[l]
  BY <1>2
<1>4. ReaderStart("plays") = <<>>
  BY DEF ReaderStart
<1>5. \A n, v : ReaderStep("plays", arg, v, n) = AddPlay(events, seat, deal, v, n)
  BY DEF ReaderStep
<1>. HIDE DEF arg
<1>6. /\ f[0] = ReaderStart("plays")
      /\ \A n \in 0..(l - 1) : f[n + 1] = ReaderStep("plays", arg, f[n], n + 1)
  BY <1>3, UnfoldsGo
<1>. QED BY <1>3, <1>4, <1>5, <1>6

LEMMA SummaryUnfolds ==
  ASSUME NEW deals, Len(deals) \in Nat, NEW e
  PROVE  \E f : /\ Summary(deals, e) = f[Len(deals)]
                /\ f[0] = NoVerdicts
                /\ \A n \in 0..(Len(deals) - 1) : f[n + 1] = AddVerdicts(f[n], deals[n + 1], e)
<1>. DEFINE arg == [deals |-> deals, engine |-> e]
            l   == Len(deals)
<1>1. PICK g : Unfolds(g, "verdicts", arg, l)
  BY UnfoldsExist
<1>2. \E f : Unfolds(f, "verdicts", arg, l) /\ Summary(deals, e) = f[l]
  BY <1>1 DEF Unfolds, ReaderStart, ReaderStep, Summary
<1>3. PICK f : Unfolds(f, "verdicts", arg, l) /\ Summary(deals, e) = f[l]
  BY <1>2
<1>4. ReaderStart("verdicts") = NoVerdicts
  BY DEF ReaderStart
<1>5. \A n, v : ReaderStep("verdicts", arg, v, n) = AddVerdicts(v, deals[n], e)
  BY DEF ReaderStep
<1>. HIDE DEF arg
<1>6. /\ f[0] = ReaderStart("verdicts")
      /\ \A n \in 0..(l - 1) : f[n + 1] = ReaderStep("verdicts", arg, f[n], n + 1)
  BY <1>3, UnfoldsGo
<1>. QED BY <1>3, <1>4, <1>5, <1>6

-----------------------------------------------------------------------------
(***************************************************************************)
(* The two analyses of the discards walk the log in step.                  *)
(***************************************************************************)
IsWalk(w) ==
  /\ DOMAIN w = {"scores", "deal", "dealer", "hand", "start", "haveHand", "deals"}
  /\ IsLog(w.deals) /\ w.haveHand \in BOOLEAN

\* One step of the walk over the whole game, as far as the cards go.
LEMMA WalkDeals ==
  ASSUME NEW events, NEW seat, NEW w, IsWalk(w), NEW e, e.type = "hand_dealt",
         NEW v, v = WalkStep(events, seat, w, e)
  PROVE  /\ IsWalk(v) /\ v.deals = w.deals
         /\ v.deal = w.deal + 1 /\ v.dealer = e.dealer /\ v.hand = e.hands[seat]
         /\ v.haveHand /\ v.start = w.scores /\ v.scores = w.scores
<1>1. v = NewDeal(w, seat, e)
  BY DEF WalkStep
<1>. QED BY <1>1 DEF NewDeal, IsWalk

LEMMA WalkThrows ==
  ASSUME NEW events, NEW seat, NEW w, IsWalk(w),
         NEW e, e.type = "discarded", e.seat = seat, w.haveHand,
         NEW v, v = WalkStep(events, seat, w, e)
  PROVE  /\ IsWalk(v)
         /\ v.deals = Append(w.deals, AnalyzeDeal(w, seat, e.cards, PlaysOf(events, seat, w.deal)))
         /\ v.deal = w.deal /\ v.dealer = w.dealer /\ v.hand = w.hand
         /\ ~v.haveHand /\ v.start = w.start /\ v.scores = w.scores
<1>. DEFINE d == AnalyzeDeal(w, seat, e.cards, PlaysOf(events, seat, w.deal))
<1>1. v = [w EXCEPT !.haveHand = FALSE, !.deals = Append(@, d)]
  BY DEF WalkStep
<1>. HIDE DEF d
<1>2. IsLog(Append(w.deals, d))
  BY LogGoesOn DEF IsWalk
<1>3. /\ DOMAIN v = DOMAIN w /\ v.deals = Append(w.deals, d)
      /\ v.deal = w.deal /\ v.dealer = w.dealer /\ v.hand = w.hand
      /\ v.haveHand \in BOOLEAN /\ ~v.haveHand /\ v.start = w.start /\ v.scores = w.scores
  BY <1>1 DEF IsWalk
<1>. QED BY <1>2, <1>3 DEF IsWalk, d

LEMMA WalkPasses ==
  ASSUME NEW events, NEW seat, NEW w, IsWalk(w),
         NEW e, e.type # "hand_dealt", ~(e.type = "discarded" /\ e.seat = seat /\ w.haveHand),
         NEW v, v = WalkStep(events, seat, w, e)
  PROVE  /\ IsWalk(v) /\ v.deals = w.deals
         /\ v.deal = w.deal /\ v.dealer = w.dealer /\ v.hand = w.hand
         /\ v.haveHand = w.haveHand /\ v.start = w.start
<1>1. v = w \/ \E x : v = [w EXCEPT !.scores = x]
  <2>1. CASE e.type = "handicap"
    BY <2>1 DEF WalkStep
  <2>2. CASE e.type \in {"starter_cut", "crib_shown"}
    BY <2>2 DEF WalkStep, Credit
  <2>3. CASE e.type \in {"card_played", "go_awarded", "hand_shown"}
    BY <2>3 DEF WalkStep, Credit
  <2>4. CASE e.type \notin {"handicap", "starter_cut", "crib_shown", "card_played",
                            "go_awarded", "hand_shown"}
    BY <2>4 DEF WalkStep
  <2>. QED BY <2>1, <2>2, <2>3, <2>4
<1>. QED BY <1>1 DEF IsWalk

LEMMA WalksAreWalks ==
  /\ IsWalk(BeforeWalk)
  /\ \A events, seat, w, e : IsWalk(w) => IsWalk(WalkStep(events, seat, w, e))
<1>1. IsWalk(BeforeWalk)
  BY LogOfOne DEF IsWalk, BeforeWalk
<1>2. ASSUME NEW events, NEW seat, NEW w, IsWalk(w), NEW e
      PROVE  IsWalk(WalkStep(events, seat, w, e))
  BY <1>2, WalkDeals, WalkThrows, WalkPasses
<1>. QED BY <1>1, <1>2

\* The discard-only analysis's line on a deal of the other.
Line(d, seat) ==
  [hand |-> d.hand, dealer |-> d.dealer = seat, throw |-> d.throw, keep |-> d.keep,
   optimal |-> ExactEV \in d.discardOptimal]

InStep(w, v, seat) ==
  /\ IsWalk(w)
  /\ DOMAIN v = {"dealer", "hand", "haveHand", "discards"} /\ IsLog(v.discards)
  /\ v.dealer = w.dealer /\ v.hand = w.hand /\ v.haveHand \in BOOLEAN
  /\ v.haveHand <=> w.haveHand
  /\ Len(v.discards) = Len(w.deals)
  /\ \A i \in 1..Len(w.deals) : v.discards[i] = Line(w.deals[i], seat)

LEMMA RatedAlike ==
  ASSUME NEW w, NEW seat, NEW throw, NEW plays
  PROVE  RateDiscard(w.hand, w.dealer = seat, throw) = Line(AnalyzeDeal(w, seat, throw, plays), seat)
<1>. DEFINE d == AnalyzeDeal(w, seat, throw, plays)
<1>1. d.hand = w.hand /\ d.dealer = w.dealer /\ d.throw = throw /\ d.keep = w.hand \ throw
  BY DEF AnalyzeDeal
<1>. DEFINE Liked(e) == OptimalDiscard(e, w.hand, w.dealer = seat, w.start[seat],
                                       w.start[Other(seat)], throw)
<1>2. d.discardOptimal = {e \in Engines : Liked(e)}
  BY DEF AnalyzeDeal
<1>3. ExactEV \in d.discardOptimal <=> Liked(ExactEV)
  <2>. HIDE DEF d, Liked
  <2>. QED BY <1>2, ExactEVAssumption
<1>4. Liked(ExactEV) <=> OptimalExact(w.hand, w.dealer = seat, throw)
  BY DEF OptimalDiscard
<1>. DEFINE p == OptimalExact(w.hand, w.dealer = seat, throw)
            q == ExactEV \in d.discardOptimal
<1>5. p \in BOOLEAN /\ q \in BOOLEAN
  BY DEF OptimalExact
<1>6. p = q
  <2>. HIDE DEF d, Liked
  <2>1. p <=> q
    BY <1>3, <1>4
  <2>. HIDE DEF p, q
  <2>. QED BY <1>5, <2>1
<1>. HIDE DEF p, q
<1>7. RateDiscard(w.hand, w.dealer = seat, throw)
        = [hand |-> w.hand, dealer |-> w.dealer = seat, throw |-> throw, keep |-> w.hand \ throw,
           optimal |-> p]
  BY DEF RateDiscard, p
<1>8. Line(d, seat)
        = [hand |-> d.hand, dealer |-> d.dealer = seat, throw |-> d.throw, keep |-> d.keep,
           optimal |-> q]
  BY DEF Line, q
<1>. HIDE DEF d
<1>. QED BY <1>1, <1>6, <1>7, <1>8 DEF d

LEMMA StaysInStep ==
  ASSUME NEW events, NEW seat, NEW w, NEW v, InStep(w, v, seat), NEW e
  PROVE  InStep(WalkStep(events, seat, w, e), DiscardStep(seat, v, e), seat)
<1>. DEFINE w1 == WalkStep(events, seat, w, e)
            v1 == DiscardStep(seat, v, e)
            d  == AnalyzeDeal(w, seat, e.cards, PlaysOf(events, seat, w.deal))
            x  == RateDiscard(v.hand, v.dealer = seat, e.cards)
<1>0. IsWalk(w) /\ IsWalk(w1)
  BY WalksAreWalks DEF InStep
<1>1. CASE e.type = "hand_dealt"
  <2>1. w1.dealer = e.dealer /\ w1.hand = e.hands[seat] /\ w1.haveHand /\ w1.deals = w.deals
    BY <1>0, <1>1, WalkDeals
  <2>2. v1 = [v EXCEPT !.dealer = e.dealer, !.hand = e.hands[seat], !.haveHand = TRUE]
    BY <1>1 DEF DiscardStep
  <2>. HIDE DEF w1, v1
  <2>3. InStep(w1, v1, seat)
    BY <1>0, <2>1, <2>2 DEF InStep
  <2>. QED BY <2>3 DEF w1, v1
<1>2. CASE e.type = "discarded" /\ e.seat = seat /\ w.haveHand
  <2>1. /\ w1.dealer = w.dealer /\ w1.hand = w.hand /\ ~w1.haveHand
        /\ w1.deals = Append(w.deals, d)
    BY <1>0, <1>2, WalkThrows
  <2>2. v1 = [v EXCEPT !.haveHand = FALSE, !.discards = Append(@, x)]
    BY <1>2 DEF DiscardStep, InStep
  <2>3. x = Line(d, seat)
    BY RatedAlike DEF InStep
  <2>. HIDE DEF w1, v1, d, x
  <2>4. /\ IsLog(v1.discards) /\ v1.discards = Append(v.discards, x)
        /\ DOMAIN v1 = DOMAIN v /\ v1.dealer = v.dealer /\ v1.hand = v.hand
        /\ v1.haveHand \in BOOLEAN /\ ~v1.haveHand
    BY <2>2, LogGoesOn DEF InStep
  <2>. DEFINE l == Len(w.deals)
  <2>5. /\ l \in Nat /\ Len(w1.deals) = l + 1 /\ w1.deals[l + 1] = d
        /\ \A i \in 1..l : w1.deals[i] = w.deals[i]
    BY <1>0, <2>1, LogFacts, LogGoesOn DEF IsWalk
  <2>6. /\ Len(v1.discards) = l + 1 /\ v1.discards[l + 1] = x
        /\ \A i \in 1..l : v1.discards[i] = v.discards[i]
    BY <2>4, LogGoesOn DEF InStep
  <2>7. \A i \in 1..l : v.discards[i] = Line(w.deals[i], seat)
    BY DEF InStep
  <2>8. \A i \in 1..(l + 1) : v1.discards[i] = Line(w1.deals[i], seat)
    BY <2>3, <2>5, <2>6, <2>7
  <2>. HIDE DEF l
  <2>9. InStep(w1, v1, seat)
    BY <1>0, <2>1, <2>4, <2>5, <2>6, <2>8 DEF InStep
  <2>. QED BY <2>9 DEF w1, v1
<1>3. CASE e.type # "hand_dealt" /\ ~(e.type = "discarded" /\ e.seat = seat /\ w.haveHand)
  <2>1. /\ w1.dealer = w.dealer /\ w1.hand = w.hand /\ w1.haveHand = w.haveHand
        /\ w1.deals = w.deals
    BY <1>0, <1>3, WalkPasses
  <2>2. v1 = v
    BY <1>3 DEF DiscardStep, InStep
  <2>. HIDE DEF w1, v1
  <2>3. InStep(w1, v1, seat)
    BY <1>0, <2>1, <2>2 DEF InStep
  <2>. QED BY <2>3 DEF w1, v1
<1>. QED BY <1>1, <1>2, <1>3

\* A list of deals is as long as it is read.
LEMMA BothAnalyses ==
  ASSUME NEW events, IsLog(events), NEW seat
  PROVE  LET deals == AnalyzedDeals(events, seat)
         IN  /\ IsLog(deals)
             /\ AnalyzeDiscards(events, seat) = [i \in DOMAIN deals |-> Line(deals[i], seat)]
<1>0. Len(events) \in Nat
  BY LogFacts
<1>. DEFINE l == Len(events)
<1>1. PICK f : /\ AnalyzedDeals(events, seat) = f[l].deals /\ f[0] = BeforeWalk
               /\ \A n \in 0..(l - 1) : f[n + 1] = WalkStep(events, seat, f[n], events[n + 1])
  BY <1>0, WalkUnfolds
<1>2. PICK g : /\ AnalyzeDiscards(events, seat) = g[l].discards /\ g[0] = BeforeDiscards
               /\ \A n \in 0..(l - 1) : g[n + 1] = DiscardStep(seat, g[n], events[n + 1])
  BY <1>0, DiscardsUnfold
<1>. HIDE DEF l
<1>3. l \in Nat
  BY <1>0 DEF l
<1>. DEFINE G == {n \in Nat : n <= l => InStep(f[n], g[n], seat)}
<1>4. 0 \in G
  <2>1. InStep(BeforeWalk, BeforeDiscards, seat)
    <3>1. /\ BeforeWalk.deals = <<>> /\ BeforeWalk.dealer = 0 /\ BeforeWalk.hand = {}
          /\ ~BeforeWalk.haveHand
      BY DEF BeforeWalk
    <3>2. /\ BeforeDiscards.discards = <<>> /\ BeforeDiscards.dealer = 0
          /\ BeforeDiscards.hand = {} /\ BeforeDiscards.haveHand \in BOOLEAN /\ ~BeforeDiscards.haveHand
          /\ DOMAIN BeforeDiscards = {"dealer", "hand", "haveHand", "discards"}
      BY DEF BeforeDiscards
    <3>3. Len(<<>>) = 0
      OBVIOUS
    <3>4. IsWalk(BeforeWalk) /\ IsLog(BeforeDiscards.discards)
      BY <3>2, WalksAreWalks, LogOfOne
    <3>5. /\ Len(BeforeDiscards.discards) = Len(BeforeWalk.deals)
          /\ \A i \in 1..Len(BeforeWalk.deals) :
               BeforeDiscards.discards[i] = Line(BeforeWalk.deals[i], seat)
      BY <3>1, <3>2, <3>3
    <3>. QED BY <3>1, <3>2, <3>4, <3>5 DEF InStep
  <2>. QED BY <1>1, <1>2, <2>1
<1>5. ASSUME NEW n \in G PROVE n + 1 \in G
  <2>. SUFFICES ASSUME n + 1 <= l PROVE InStep(f[n + 1], g[n + 1], seat)
    OBVIOUS
  <2>1. n \in 0..(l - 1) /\ InStep(f[n], g[n], seat)
    BY <1>3
  <2>. QED BY <1>1, <1>2, <2>1, StaysInStep
<1>6. G = Nat
  <2>. HIDE DEF G
  <2>1. G \in SUBSET Nat
    BY DEF G
  <2>. QED BY <1>4, <1>5, <2>1, InductionOverNat
<1>7. InStep(f[l], g[l], seat)
  BY <1>3, <1>6
<1>. DEFINE deals    == f[l].deals
            discards == g[l].discards
<1>8. /\ IsLog(deals) /\ IsLog(discards) /\ Len(discards) = Len(deals)
      /\ \A i \in 1..Len(deals) : discards[i] = Line(deals[i], seat)
  BY <1>7 DEF InStep, IsWalk
<1>. HIDE DEF deals, discards
<1>9. discards = [i \in DOMAIN deals |-> Line(deals[i], seat)]
  <2>1. PICK S : discards \in Seq(S)
    BY <1>8 DEF IsLog
  <2>2. discards = [i \in 1..Len(discards) |-> discards[i]]
    BY <2>1
  <2>3. DOMAIN deals = 1..Len(deals)
    BY <1>8, LogFacts
  <2>. QED BY <1>8, <2>2, <2>3
<1>. QED BY <1>1, <1>2, <1>8, <1>9 DEF deals, discards

(***************************************************************************)
(* The discard-only analysis is the exact-ev column of the other one: the  *)
(* same discards of the same hands in the same order, with the same        *)
(* verdicts, in every game at every moment, whatever the engines are.      *)
(* analysis.go 64-97 against analysis2.go 486-559.                         *)
(***************************************************************************)
THEOREM AnalysesAreOne == HistorySpec => []AnalysisIsOfTheGame
<1>1. LogInv => AnalysesAgree
  <2>. SUFFICES ASSUME LogInv, NEW s \in Seat
                PROVE  LET deals == AnalyzeGame(log, s).deals
                       IN  AnalyzeDiscards(log, s) = [i \in DOMAIN deals |-> Line(deals[i], s)]
    BY DEF AnalysesAgree, Line
  <2>1. AnalyzeGame(log, s).deals = AnalyzedDeals(log, s)
    BY DEF AnalyzeGame
  <2>. QED BY <2>1, BothAnalyses DEF LogInv
<1>2. HistorySpec => []AnalysisSeesWhatThePlayerSaw
  BY AnalysisSeesTheGame
<1>. QED BY <1>1, <1>2, LogIsKept, PTL DEF AnalysisIsOfTheGame

-----------------------------------------------------------------------------
(***************************************************************************)
(* The frames of a replay.  What each event travels as, to one who sees    *)
(* everything; and a frame after an event pictures the game after it.      *)
(***************************************************************************)
Wired(e, n) ==
  LET d == [e EXCEPT !.type = WireType(@)]
  IN  IF e.type = "card_played" THEN WithCount(d, n) ELSE d

LEMMA WiredForms ==
  ASSUME NEW n
  PROVE  /\ \A t : Wired(CutForDeal(t), n) = CutForDeal(t)
         /\ \A t, hs : Wired(HandDealt(t, hs), n) = HandDealt(t, hs)
         /\ \A t, cs : Wired(DiscardedBy(t, cs), n) = DiscardedBy(t, cs)
         /\ \A c, p : Wired(StarterCut(c, p), n) = StarterCut(c, p)
         /\ \A t, c, p : Wired(CardPlayed(t, c, p), n) = WithCount(CardPlayed(t, c, p), n)
         /\ \A t : Wired(Pass(t), n) = Pass(t)
         /\ \A t : Wired(GoAwarded(t), n) = [type |-> "go", seat |-> t, points |-> 1]
         /\ \A t : Wired(SeriesReset(t), n) = SeriesReset(t)
         /\ \A t, cs, p : Wired(HandShown(t, cs, p), n) = HandShown(t, cs, p)
         /\ \A cs, p : Wired(CribShown(cs, p), n) = CribShown(cs, p)
         /\ \A t : Wired(GameWon(t), n) = GameWon(t)
         /\ \A t, cs, x : Wired(ShowNotCounted(t, cs, x), n).type = "show_uncounted"
<1>1. \A t : Wired(CutForDeal(t), n) = CutForDeal(t)
  BY DEF Wired, WireType, CutForDeal
<1>2. \A t, hs : Wired(HandDealt(t, hs), n) = HandDealt(t, hs)
  BY DEF Wired, WireType, HandDealt
<1>3. \A t, cs : Wired(DiscardedBy(t, cs), n) = DiscardedBy(t, cs)
  BY DEF Wired, WireType, DiscardedBy
<1>4. \A c, p : Wired(StarterCut(c, p), n) = StarterCut(c, p)
  BY DEF Wired, WireType, StarterCut
<1>5. \A t, c, p : Wired(CardPlayed(t, c, p), n) = WithCount(CardPlayed(t, c, p), n)
  BY DEF Wired, WireType, CardPlayed
<1>6. \A t : Wired(Pass(t), n) = Pass(t)
  BY DEF Wired, WireType, Pass
<1>7. \A t : Wired(GoAwarded(t), n) = [type |-> "go", seat |-> t, points |-> 1]
  BY DEF Wired, WireType, GoAwarded
<1>8. \A t : Wired(SeriesReset(t), n) = SeriesReset(t)
  BY DEF Wired, WireType, SeriesReset
<1>9. \A t, cs, p : Wired(HandShown(t, cs, p), n) = HandShown(t, cs, p)
  BY DEF Wired, WireType, HandShown
<1>10. \A cs, p : Wired(CribShown(cs, p), n) = CribShown(cs, p)
  BY DEF Wired, WireType, CribShown
<1>11. \A t : Wired(GameWon(t), n) = GameWon(t)
  BY DEF Wired, WireType, GameWon
<1>12. \A t, cs, x : Wired(ShowNotCounted(t, cs, x), n).type = "show_uncounted"
  BY DEF Wired, WireType, ShowNotCounted
<1>. QED BY <1>1, <1>2, <1>3, <1>4, <1>5, <1>6, <1>7, <1>8, <1>9, <1>10, <1>11, <1>12

IsFrame(f) ==
  {"dealer", "hand", "scores", "hands", "crib", "starter", "played", "pile", "count", "phase",
   "show"} \subseteq DOMAIN f

\* v and f differ in the fields named at most.
FrameBut(fields, v, f) ==
  /\ IsFrame(v)
  /\ "dealer" \in fields \/ v.dealer = f.dealer
  /\ "hand" \in fields \/ v.hand = f.hand
  /\ "scores" \in fields \/ v.scores = f.scores
  /\ "hands" \in fields \/ v.hands = f.hands
  /\ "crib" \in fields \/ v.crib = f.crib
  /\ "starter" \in fields \/ v.starter = f.starter
  /\ "played" \in fields \/ v.played = f.played
  /\ "pile" \in fields \/ v.pile = f.pile
  /\ "count" \in fields \/ v.count = f.count
  /\ "phase" \in fields \/ v.phase = f.phase

\* The replay stops at the hole the engine stops at.
LEMMA AwardedFrame ==
  ASSUME NEW f, IsFrame(f), NEW s, NEW p, NEW v, v = Award(f, s, p)
  PROVE  FrameBut({"scores"}, v, f) /\ v.scores = AddPoints(Target, f.scores, s, p)
<1>1. \A x : (IF x > ReplayTarget THEN ReplayTarget ELSE x)
               = IF Target > 0 /\ x > Target THEN Target ELSE x
  BY BotGameAssumption, TargetAssumption
<1>2. PICK y : y = f.scores[s] + p
  OBVIOUS
<1>3. PICK z : z = IF y > ReplayTarget THEN ReplayTarget ELSE y
  OBVIOUS
<1>4. v = [f EXCEPT !.scores = [f.scores EXCEPT ![s] = z]]
  BY <1>2, <1>3 DEF Award
<1>5. AddPoints(Target, f.scores, s, p) = [f.scores EXCEPT ![s] = z]
  BY <1>1, <1>2, <1>3 DEF AddPoints
<1>. QED BY <1>4, <1>5 DEF IsFrame, FrameBut

\* The frame f pictures the game g in its deal n, at this stage of it.
Follow(f, g, n, stage) ==
  /\ IsFrame(f) /\ HasFields(g)
  /\ Pictures(f, g, n)
  /\ f.played \in [Seat -> Seq(Card)]
  /\ g.played \in [Seat -> SUBSET Card]
  /\ stage \in {"play", "show"} => g.phase = "play"

\* What the event e makes of it.
Goes(f, g, n, stage, e, k) ==
  Follow(f, g, n, stage) /\ May(stage, e) /\ ComesNext(g, e, k)
    => LET d == Wired(e, k)
       IN  Framed(d.type) /\ Follow(FrameAfter(f, d), Reduce(Target, g, e), n, Stage(e))

LEMMA DealtFrame ==
  ASSUME NEW f, NEW g, IsFrame(f), HasFields(g), NEW n \in Nat, Pictures(f, g, n),
         NEW dl, NEW hs, NEW k
  PROVE  LET d == Wired(HandDealt(dl, hs), k)
         IN  /\ Framed(d.type)
             /\ Follow(FrameAfter(f, d), Reduce(Target, g, HandDealt(dl, hs)), n + 1, "deal")
<1>. DEFINE d == Wired(HandDealt(dl, hs), k)
            h == Reduce(Target, g, HandDealt(dl, hs))
            v == FrameAfter(f, d)
<1>1. d.type = "hand_dealt" /\ d.dealer = dl /\ d.hands = hs
  BY WiredForms DEF HandDealt
<1>2. v = DealFrame(f, d)
  <2>. HIDE DEF d
  <2>. QED BY <1>1 DEF FrameAfter
<1>3. /\ IsFrame(v) /\ v.dealer = dl /\ v.hand = n + 1 /\ v.scores = g.scores /\ v.hands = hs
      /\ v.crib = {} /\ v.starter = NoCard /\ v.played = [s \in Seat |-> <<>>]
      /\ v.pile = <<>> /\ v.count = 0 /\ v.phase = "discard"
  <2>. HIDE DEF d, v
  <2>1. f.hand = n /\ f.scores = g.scores
    BY DEF Pictures
  <2>. QED BY <1>1, <1>2, <2>1 DEF DealFrame, FirstFrame, IsFrame
<1>4. /\ GameBut({"dealer", "phase", "hands", "played", "thrown", "pile", "starter", "count"}, h, g)
      /\ h.dealer = dl /\ h.phase = "discard" /\ h.hands = hs /\ h.played = Empty
      /\ h.thrown = Empty /\ h.pile = <<>> /\ h.starter = NoCard /\ h.count = 0
  BY DealtGame
<1>5. Framed(d.type)
  BY <1>1 DEF Framed
<1>. HIDE DEF d, h, v
<1>6. /\ v.played \in [Seat -> Seq(Card)] /\ h.played \in [Seat -> SUBSET Card]
      /\ \A s \in Seat : {v.played[s][i] : i \in DOMAIN v.played[s]} = h.played[s]
  BY <1>3, <1>4, EmptyFacts
<1>7. h.thrown[0] \cup h.thrown[1] = {}
  BY <1>4, EmptyFacts DEF Seat
<1>8. Follow(v, h, n + 1, "deal")
  BY <1>3, <1>4, <1>6, <1>7 DEF Follow, Pictures, GameBut
<1>. QED BY <1>5, <1>8 DEF d, h, v

LEMMA ThrowFrame ==
  ASSUME NEW f, NEW g, NEW n, NEW stage, NEW s, NEW two, NEW k
  PROVE  Goes(f, g, n, stage, DiscardedBy(s, two), k)
<1>. DEFINE e == DiscardedBy(s, two)
            d == Wired(e, k)
            h == Reduce(Target, g, e)
            v == FrameAfter(f, d)
<1>. SUFFICES ASSUME Follow(f, g, n, stage), ComesNext(g, e, k)
              PROVE  Framed(d.type) /\ Follow(v, h, n, Stage(e))
  BY DEF Goes
<1>1. d.type = "discarded" /\ d.seat = s /\ d.cards = two
  BY WiredForms DEF DiscardedBy
<1>2. v = DiscardFrame(f, d)
  <2>. HIDE DEF d
  <2>. QED BY <1>1 DEF FrameAfter
<1>3. /\ FrameBut({"hands", "crib", "phase"}, v, f)
      /\ v.hands = [f.hands EXCEPT ![s] = @ \ two] /\ v.crib = f.crib \cup two
      /\ v.phase = "discard"
  <2>1. IsFrame(f)
    BY DEF Follow
  <2>. HIDE DEF d, v
  <2>. QED BY <1>1, <1>2, <2>1 DEF DiscardFrame, IsFrame, FrameBut
<1>4. /\ GameBut({"hands", "thrown"}, h, g) /\ h.hands = [g.hands EXCEPT ![s] = @ \ two]
      /\ h.thrown = [g.thrown EXCEPT ![s] = two]
  <2>1. ThrowsOut(h, g, s, two)
    BY ThrownGame DEF Follow
  <2>. HIDE DEF h
  <2>. QED BY <2>1 DEF ThrowsOut
<1>5. /\ Framed(d.type) /\ Stage(e) = "throw" /\ g.phase = "discard" /\ s \in Seat
      /\ g.thrown \in [Seat -> SUBSET Card] /\ g.thrown[s] = {}
  BY <1>1 DEF Framed, Stage, DiscardedBy, ComesNext
<1>. HIDE DEF e, d, h, v
<1>6. v.crib = h.thrown[0] \cup h.thrown[1]
  BY <1>3, <1>4, <1>5 DEF Follow, Pictures, Seat
<1>7. \A t \in Seat : {v.played[t][i] : i \in DOMAIN v.played[t]} = h.played[t]
  BY <1>3, <1>4 DEF Follow, Pictures, FrameBut, GameBut
<1>. QED BY <1>3, <1>4, <1>5, <1>6, <1>7 DEF Follow, Pictures, FrameBut, GameBut

LEMMA CutFrame ==
  ASSUME NEW f, NEW g, NEW n, NEW stage, NEW c, NEW p, NEW k
  PROVE  Goes(f, g, n, stage, StarterCut(c, p), k)
<1>. DEFINE e == StarterCut(c, p)
            d == Wired(e, k)
            h == Reduce(Target, g, e)
            v == FrameAfter(f, d)
<1>. SUFFICES ASSUME Follow(f, g, n, stage)
              PROVE  Framed(d.type) /\ Follow(v, h, n, Stage(e))
  BY DEF Goes
<1>1. d.type = "starter_cut" /\ d.card = c /\ d.points = p
  BY WiredForms DEF StarterCut
<1>. DEFINE w == Award(f, f.dealer, p)
<1>2. v = [w EXCEPT !.starter = c, !.phase = "play"]
  <2>. HIDE DEF d
  <2>. QED BY <1>1 DEF FrameAfter
<1>3. FrameBut({"scores"}, w, f) /\ w.scores = AddPoints(Target, f.scores, f.dealer, p)
  BY AwardedFrame DEF Follow
<1>4. /\ FrameBut({"scores", "starter", "phase"}, v, f)
      /\ v.scores = AddPoints(Target, f.scores, f.dealer, p)
      /\ v.starter = c /\ v.phase = "play"
  <2>. HIDE DEF v, w
  <2>. QED BY <1>2, <1>3 DEF IsFrame, FrameBut
<1>5. /\ GameBut({"phase", "scores", "starter"}, h, g) /\ h.phase = "play" /\ h.starter = c
      /\ h.scores = AddPoints(Target, g.scores, g.dealer, p)
  BY CutGame DEF Follow
<1>6. Framed(d.type) /\ Stage(e) = "play"
  BY <1>1 DEF Framed, Stage, StarterCut
<1>. HIDE DEF e, d, h, v, w
<1>7. \A t \in Seat : {v.played[t][i] : i \in DOMAIN v.played[t]} = h.played[t]
  BY <1>4, <1>5 DEF Follow, Pictures, FrameBut, GameBut
<1>. QED BY <1>4, <1>5, <1>6, <1>7 DEF Follow, Pictures, FrameBut, GameBut

LEMMA PlayedFrame ==
  ASSUME NEW f, NEW g, NEW n, NEW stage, NEW s, NEW c, NEW p, NEW k
  PROVE  Goes(f, g, n, stage, CardPlayed(s, c, p), k)
<1>. DEFINE e == CardPlayed(s, c, p)
            d == Wired(e, k)
            h == Reduce(Target, g, e)
            v == FrameAfter(f, d)
<1>. SUFFICES ASSUME Follow(f, g, n, stage), ComesNext(g, e, k)
              PROVE  Framed(d.type) /\ Follow(v, h, n, Stage(e))
  BY DEF Goes
<1>1. d.type = "card_played" /\ d.seat = s /\ d.card = c /\ d.points = p /\ d.count = k
  <2>1. d = WithCount(CardPlayed(s, c, p), k)
    BY WiredForms
  <2>. QED BY <2>1 DEF WithCount, CardPlayed
<1>. DEFINE w == Award(f, s, p)
<1>2. v = [w EXCEPT !.hands[s] = @ \ {c}, !.played[s] = Append(@, c), !.pile = Append(@, c),
                    !.count = k, !.phase = "play"]
  <2>1. v = PlayFrame(f, d)
    <3>. HIDE DEF d
    <3>. QED BY <1>1 DEF FrameAfter
  <2>. HIDE DEF d
  <2>. QED BY <1>1, <2>1 DEF PlayFrame
<1>3. FrameBut({"scores"}, w, f) /\ w.scores = AddPoints(Target, f.scores, s, p)
  BY AwardedFrame DEF Follow
<1>4. /\ FrameBut({"scores", "hands", "played", "pile", "count", "phase"}, v, f)
      /\ v.scores = AddPoints(Target, f.scores, s, p)
      /\ v.hands = [f.hands EXCEPT ![s] = @ \ {c}]
      /\ v.played = [f.played EXCEPT ![s] = Append(@, c)]
      /\ v.pile = Append(f.pile, c) /\ v.count = k /\ v.phase = "play"
  <2>. HIDE DEF v, w
  <2>. QED BY <1>2, <1>3 DEF IsFrame, FrameBut
<1>5. LaysOut(h, g, s, c, p)
  BY LaidOut DEF Follow
<1>6. /\ Framed(d.type) /\ Stage(e) = "play" /\ g.phase = "play" /\ s \in Seat
      /\ g.hands \in [Seat -> SUBSET Card] /\ c \in g.hands[s] /\ k = g.count + Pip(c)
  BY <1>1 DEF Framed, Stage, CardPlayed, ComesNext
<1>. HIDE DEF e, d, h, v, w
<1>7. /\ GameBut({"scores", "hands", "played", "pile", "count"}, h, g)
      /\ h.scores = AddPoints(Target, g.scores, s, p)
      /\ h.hands = [g.hands EXCEPT ![s] = @ \ {c}]
      /\ h.played = [g.played EXCEPT ![s] = @ \cup {c}]
      /\ h.pile = Append(g.pile, c) /\ h.count = g.count + Pip(c)
  BY <1>5 DEF LaysOut
<1>8. /\ f.played \in [Seat -> Seq(Card)] /\ c \in Card
      /\ g.played \in [Seat -> SUBSET Card]
      /\ \A t \in Seat : {f.played[t][i] : i \in DOMAIN f.played[t]} = g.played[t]
  BY <1>6 DEF Follow, Pictures
<1>9. v.played \in [Seat -> Seq(Card)] /\ h.played \in [Seat -> SUBSET Card]
  <2>1. \A q \in Seq(Card) : Append(q, c) \in Seq(Card)
    BY <1>8
  <2>2. v.played \in [Seat -> Seq(Card)]
    <3>1. PICK pd \in [Seat -> Seq(Card)] : pd = f.played
      BY <1>8
    <3>2. v.played = [pd EXCEPT ![s] = Append(pd[s], c)] /\ Append(pd[s], c) \in Seq(Card)
      BY <1>4, <1>6, <2>1, <3>1
    <3>. QED BY <3>2
  <2>3. h.played \in [Seat -> SUBSET Card]
    BY <1>7, <1>8
  <2>. QED BY <2>2, <2>3
<1>10. ASSUME NEW t \in Seat
       PROVE  {v.played[t][i] : i \in DOMAIN v.played[t]} = h.played[t]
  <2>1. CASE t = s
    <3>. DEFINE q == f.played[t]
    <3>1. q \in Seq(Card) /\ v.played[t] = Append(q, c) /\ h.played[t] = g.played[t] \cup {c}
      BY <1>4, <1>7, <1>8, <2>1
    <3>2. {q[i] : i \in DOMAIN q} = g.played[t]
      BY <1>8
    <3>. HIDE DEF q
    <3>3. /\ DOMAIN Append(q, c) = 1..(Len(q) + 1) /\ DOMAIN q = 1..Len(q) /\ Len(q) \in Nat
          /\ \A i \in 1..Len(q) : Append(q, c)[i] = q[i]
          /\ Append(q, c)[Len(q) + 1] = c
      BY <1>8, <3>1
    <3>4. {Append(q, c)[i] : i \in DOMAIN Append(q, c)} = {q[i] : i \in DOMAIN q} \cup {c}
      BY <3>3
    <3>. QED BY <3>1, <3>2, <3>4
  <2>2. CASE t # s
    <3>1. v.played[t] = f.played[t] /\ h.played[t] = g.played[t]
      BY <1>4, <1>7, <1>8, <2>2
    <3>. QED BY <1>8, <3>1
  <2>. QED BY <2>1, <2>2
<1>11. /\ v.scores = h.scores /\ v.hands = h.hands /\ v.pile = h.pile /\ v.count = h.count
  BY <1>4, <1>6, <1>7 DEF Follow, Pictures
<1>. QED BY <1>4, <1>6, <1>7, <1>9, <1>10, <1>11 DEF Follow, Pictures, FrameBut, GameBut

\* The events that change little.
LEMMA QuietFrame ==
  ASSUME NEW f, NEW g, NEW n, NEW stage, NEW s, NEW k
  PROVE  /\ Goes(f, g, n, stage, Pass(s), k)
         /\ Goes(f, g, n, stage, GoAwarded(s), k)
         /\ Goes(f, g, n, stage, SeriesReset(s), k)
<1>1. Goes(f, g, n, stage, Pass(s), k)
  <2>. DEFINE e == Pass(s)
              d == Wired(e, k)
              h == Reduce(Target, g, e)
              v == FrameAfter(f, d)
  <2>. SUFFICES ASSUME Follow(f, g, n, stage), May(stage, e)
                PROVE  Framed(d.type) /\ Follow(v, h, n, Stage(e))
    BY DEF Goes
  <2>1. d.type = "pass" /\ stage = "play" /\ Stage(e) = "play"
    BY WiredForms DEF Pass, May, Stage
  <2>2. v = [f EXCEPT !.phase = "play"] /\ Framed(d.type)
    <3>. HIDE DEF d
    <3>. QED BY <2>1 DEF FrameAfter, Framed
  <2>3. FrameBut({"phase"}, v, f) /\ v.phase = "play"
    <3>. HIDE DEF v
    <3>. QED BY <2>2 DEF Follow, IsFrame, FrameBut
  <2>4. GameBut({}, h, g)
    BY PassedGame DEF Follow
  <2>. HIDE DEF e, d, h, v
  <2>5. \A t \in Seat : {v.played[t][i] : i \in DOMAIN v.played[t]} = h.played[t]
    BY <2>3, <2>4 DEF Follow, Pictures, FrameBut, GameBut
  <2>. QED BY <2>1, <2>2, <2>3, <2>4, <2>5 DEF Follow, Pictures, FrameBut, GameBut
<1>2. Goes(f, g, n, stage, GoAwarded(s), k)
  <2>. DEFINE e == GoAwarded(s)
              d == Wired(e, k)
              h == Reduce(Target, g, e)
              v == FrameAfter(f, d)
  <2>. SUFFICES ASSUME Follow(f, g, n, stage), May(stage, e)
                PROVE  Framed(d.type) /\ Follow(v, h, n, Stage(e))
    BY DEF Goes
  <2>0. e.type = "go_awarded" /\ stage = "play" /\ Stage(e) = "play"
    BY DEF GoAwarded, May, Stage
  <2>1. d.type = "go" /\ d.seat = s /\ d.points = 1
    <3>1. d = [type |-> "go", seat |-> s, points |-> 1]
      BY WiredForms
    <3>. QED BY <3>1
  <2>. DEFINE w == Award(f, s, 1)
  <2>2. v = [w EXCEPT !.phase = "play"] /\ Framed(d.type)
    <3>. HIDE DEF d
    <3>. QED BY <2>1 DEF FrameAfter, Framed
  <2>3. FrameBut({"scores"}, w, f) /\ w.scores = AddPoints(Target, f.scores, s, 1)
    BY AwardedFrame DEF Follow
  <2>4. /\ FrameBut({"scores", "phase"}, v, f) /\ v.phase = "play"
        /\ v.scores = AddPoints(Target, f.scores, s, 1)
    <3>. HIDE DEF v, w
    <3>. QED BY <2>2, <2>3 DEF IsFrame, FrameBut
  <2>5. GameBut({"scores"}, h, g) /\ h.scores = AddPoints(Target, g.scores, s, 1)
    BY GoneGame DEF Follow
  <2>. HIDE DEF e, d, h, v, w
  <2>6. \A t \in Seat : {v.played[t][i] : i \in DOMAIN v.played[t]} = h.played[t]
    BY <2>4, <2>5 DEF Follow, Pictures, FrameBut, GameBut
  <2>. QED BY <2>0, <2>2, <2>4, <2>5, <2>6 DEF Follow, Pictures, FrameBut, GameBut
<1>3. Goes(f, g, n, stage, SeriesReset(s), k)
  <2>. DEFINE e == SeriesReset(s)
              d == Wired(e, k)
              h == Reduce(Target, g, e)
              v == FrameAfter(f, d)
  <2>. SUFFICES ASSUME Follow(f, g, n, stage), May(stage, e)
                PROVE  Framed(d.type) /\ Follow(v, h, n, Stage(e))
    BY DEF Goes
  <2>1. d.type = "series_reset" /\ stage = "play" /\ Stage(e) = "play"
    BY WiredForms DEF SeriesReset, May, Stage
  <2>2. v = [f EXCEPT !.count = 0, !.pile = <<>>, !.phase = "play"] /\ Framed(d.type)
    <3>. HIDE DEF d
    <3>. QED BY <2>1 DEF FrameAfter, Framed
  <2>3. FrameBut({"count", "pile", "phase"}, v, f) /\ v.count = 0 /\ v.pile = <<>> /\ v.phase = "play"
    <3>. HIDE DEF v
    <3>. QED BY <2>2 DEF Follow, IsFrame, FrameBut
  <2>4. GameBut({"pile", "count"}, h, g) /\ h.pile = <<>> /\ h.count = 0
    BY ResetGame DEF Follow
  <2>. HIDE DEF e, d, h, v
  <2>5. \A t \in Seat : {v.played[t][i] : i \in DOMAIN v.played[t]} = h.played[t]
    BY <2>3, <2>4 DEF Follow, Pictures, FrameBut, GameBut
  <2>. QED BY <2>1, <2>2, <2>3, <2>4, <2>5 DEF Follow, Pictures, FrameBut, GameBut
<1>. QED BY <1>1, <1>2, <1>3

LEMMA ShownFrame ==
  ASSUME NEW f, NEW g, NEW n, NEW stage, Follow(f, g, n, stage), stage \in {"play", "show"},
         NEW h, NEW s, NEW p, GameBut({"scores"}, h, g), h.scores = AddPoints(Target, g.scores, s, p),
         NEW b, NEW d, d.points = p
  PROVE  Follow(ShowFrame(f, s, b, d), h, n, "show")
<1>. DEFINE v == ShowFrame(f, s, b, d)
            w == Award(f, s, p)
            x == [seat |-> s, isCrib |-> b, total |-> p]
<1>1. v = [w EXCEPT !.show = x, !.phase = "show"]
  BY DEF ShowFrame
<1>2. FrameBut({"scores"}, w, f) /\ w.scores = AddPoints(Target, f.scores, s, p)
  BY AwardedFrame DEF Follow
<1>3. /\ FrameBut({"scores", "show", "phase"}, v, f) /\ v.phase = "show"
      /\ v.scores = AddPoints(Target, f.scores, s, p)
  <2>. HIDE DEF v, w, x
  <2>. QED BY <1>1, <1>2 DEF IsFrame, FrameBut
<1>. HIDE DEF v, w, x
<1>4. \A t \in Seat : {v.played[t][i] : i \in DOMAIN v.played[t]} = h.played[t]
  BY <1>3 DEF Follow, Pictures, FrameBut, GameBut
<1>5. Follow(v, h, n, "show")
  BY <1>3, <1>4 DEF Follow, Pictures, FrameBut, GameBut
<1>. QED BY <1>5 DEF v

LEMMA CountedFrame ==
  ASSUME NEW f, NEW g, NEW n, NEW stage, NEW s, NEW cs, NEW p, NEW k
  PROVE  /\ Goes(f, g, n, stage, HandShown(s, cs, p), k)
         /\ Goes(f, g, n, stage, CribShown(cs, p), k)
<1>1. Goes(f, g, n, stage, HandShown(s, cs, p), k)
  <2>. DEFINE e == HandShown(s, cs, p)
              d == Wired(e, k)
              h == Reduce(Target, g, e)
  <2>. SUFFICES ASSUME Follow(f, g, n, stage), May(stage, e)
                PROVE  Framed(d.type) /\ Follow(FrameAfter(f, d), h, n, Stage(e))
    BY DEF Goes
  <2>1. d.type = "hand_shown" /\ d.seat = s /\ d.points = p /\ e.type = "hand_shown"
    BY WiredForms DEF HandShown
  <2>2. GameBut({"scores"}, h, g) /\ h.scores = AddPoints(Target, g.scores, s, p)
    BY ShownGame DEF Follow
  <2>. HIDE DEF e, d, h
  <2>3. FrameAfter(f, d) = ShowFrame(f, s, FALSE, d) /\ Framed(d.type)
    BY <2>1 DEF FrameAfter, Framed
  <2>4. stage \in {"play", "show"} /\ Stage(e) = "show"
    BY <2>1 DEF May, Stage
  <2>. QED BY <2>1, <2>2, <2>3, <2>4, ShownFrame
<1>2. Goes(f, g, n, stage, CribShown(cs, p), k)
  <2>. DEFINE e == CribShown(cs, p)
              d == Wired(e, k)
              h == Reduce(Target, g, e)
              dl == g.dealer
  <2>. SUFFICES ASSUME Follow(f, g, n, stage), May(stage, e)
                PROVE  Framed(d.type) /\ Follow(FrameAfter(f, d), h, n, Stage(e))
    BY DEF Goes
  <2>0. f.dealer = dl
    BY DEF Follow, Pictures
  <2>1. d.type = "crib_shown" /\ d.points = p /\ e.type = "crib_shown"
    <3>1. d = CribShown(cs, p)
      BY WiredForms
    <3>. QED BY <3>1 DEF CribShown
  <2>2. GameBut({"scores"}, h, g) /\ h.scores = AddPoints(Target, g.scores, dl, p)
    BY CribGame DEF Follow
  <2>. HIDE DEF e, d, h, dl
  <2>3. FrameAfter(f, d) = ShowFrame(f, dl, TRUE, d) /\ Framed(d.type)
    BY <2>0, <2>1 DEF FrameAfter, Framed
  <2>4. stage \in {"play", "show"} /\ Stage(e) = "show"
    BY <2>1 DEF May, Stage
  <2>. QED BY <2>1, <2>2, <2>3, <2>4, ShownFrame
<1>. QED BY <1>1, <1>2

LEMMA WonFrame ==
  ASSUME NEW f, NEW g, NEW n, NEW stage, NEW s, NEW k
  PROVE  Goes(f, g, n, stage, GameWon(s), k)
<1>. DEFINE e == GameWon(s)
            d == Wired(e, k)
            h == Reduce(Target, g, e)
            v == FrameAfter(f, d)
<1>. SUFFICES ASSUME Follow(f, g, n, stage)
              PROVE  Framed(d.type) /\ Follow(v, h, n, Stage(e))
  BY DEF Goes
<1>1. d.type = "game_won" /\ Stage(e) = "end"
  BY WiredForms DEF GameWon, Stage
<1>2. v = [f EXCEPT !.phase = "done"] /\ Framed(d.type)
  <2>. HIDE DEF d
  <2>. QED BY <1>1 DEF FrameAfter, Framed
<1>3. FrameBut({"phase"}, v, f) /\ v.phase = "done"
  <2>. HIDE DEF v
  <2>. QED BY <1>2 DEF Follow, IsFrame, FrameBut
<1>4. GameBut({"phase", "winner"}, h, g) /\ h.phase = "complete"
  BY WonGame DEF Follow
<1>. HIDE DEF e, d, h, v
<1>5. \A t \in Seat : {v.played[t][i] : i \in DOMAIN v.played[t]} = h.played[t]
  BY <1>3, <1>4 DEF Follow, Pictures, FrameBut, GameBut
<1>. QED BY <1>1, <1>2, <1>3, <1>4, <1>5 DEF Follow, Pictures, FrameBut, GameBut

\* The frame after the event e, which may make none, and the deal it is of.
After(f, e, k) == IF Framed(WireType(e.type)) THEN FrameAfter(f, Wired(e, k)) ELSE f

DealWith(n, e) == IF e.type = "hand_dealt" THEN n + 1 ELSE n

LEMMA WiredType ==
  ASSUME NEW e, "type" \in DOMAIN e, NEW k
  PROVE  Wired(e, k).type = WireType(e.type)
<1>. DEFINE t == WireType(e.type)
            d == [e EXCEPT !.type = t]
<1>1. d.type = t
  OBVIOUS
<1>. HIDE DEF d, t
<1>2. WithCount(d, k).type = d.type
  BY DEF WithCount
<1>3. Wired(e, k) = IF e.type = "card_played" THEN WithCount(d, k) ELSE d
  BY DEF Wired, d, t
<1>. QED BY <1>1, <1>2, <1>3 DEF t

LEMMA MadeOfType ==
  ASSUME NEW e, Made(e)
  PROVE  "type" \in DOMAIN e
BY DEF Made, HandDealt, DiscardedBy, StarterCut, CardPlayed, Pass, GoAwarded, SeriesReset,
       GameWon, HandShown, CribShown, ShowNotCounted

LEMMA FollowStep ==
  ASSUME NEW f, NEW g, NEW n \in Nat, NEW stage, Follow(f, g, n, stage),
         NEW e, Made(e), NEW k, May(stage, e), ComesNext(g, e, k)
  PROVE  Follow(After(f, e, k), Reduce(Target, g, e), DealWith(n, e), Stage(e))
<1>0. Wired(e, k).type = WireType(e.type)
  BY WiredType, MadeOfType
<1>1. ASSUME NEW dl, NEW hs, e = HandDealt(dl, hs)
      PROVE  Follow(After(f, e, k), Reduce(Target, g, e), DealWith(n, e), Stage(e))
  <2>1. Stage(e) = "deal" /\ DealWith(n, e) = n + 1
    BY <1>1 DEF HandDealt, Stage, DealWith
  <2>2. /\ Framed(Wired(e, k).type)
        /\ Follow(FrameAfter(f, Wired(e, k)), Reduce(Target, g, e), n + 1, "deal")
    BY <1>1, DealtFrame DEF Follow
  <2>. QED BY <1>0, <2>1, <2>2 DEF After
<1>2. ASSUME NEW s, NEW cs, NEW b, e = ShowNotCounted(s, cs, b)
      PROVE  Follow(After(f, e, k), Reduce(Target, g, e), DealWith(n, e), Stage(e))
  <2>1. e.type = "show_not_counted"
    BY <1>2 DEF ShowNotCounted
  <2>2. Stage(e) = "end" /\ DealWith(n, e) = n /\ ~Framed(WireType(e.type))
    BY <2>1 DEF Stage, DealWith, WireType, Framed
  <2>3. Reduce(Target, g, e) = g
    BY <1>2, UncountedGame
  <2>. QED BY <2>2, <2>3 DEF After, Follow
<1>3. ASSUME Goes(f, g, n, stage, e, k), e.type # "hand_dealt"
      PROVE  Follow(After(f, e, k), Reduce(Target, g, e), DealWith(n, e), Stage(e))
  BY <1>0, <1>3 DEF Goes, After, DealWith
<1>4. CASE \E s, two : e = DiscardedBy(s, two)
  BY <1>3, <1>4, ThrowFrame DEF DiscardedBy
<1>5. CASE \E c, p : e = StarterCut(c, p)
  BY <1>3, <1>5, CutFrame DEF StarterCut
<1>6. CASE \E s, c, p : e = CardPlayed(s, c, p)
  BY <1>3, <1>6, PlayedFrame DEF CardPlayed
<1>7. CASE \E s : e = Pass(s) \/ e = GoAwarded(s) \/ e = SeriesReset(s) \/ e = GameWon(s)
  <2>1. e.type # "hand_dealt"
    BY <1>7 DEF Pass, GoAwarded, SeriesReset, GameWon
  <2>. QED BY <1>3, <1>7, <2>1, QuietFrame, WonFrame
<1>8. CASE \E s, cs, p : e = HandShown(s, cs, p)
  BY <1>3, <1>8, CountedFrame DEF HandShown
<1>9. CASE \E cs, p : e = CribShown(cs, p)
  BY <1>3, <1>9, CountedFrame DEF CribShown
<1>. QED BY <1>1, <1>2, <1>4, <1>5, <1>6, <1>7, <1>8, <1>9 DEF Made

\* The first event of a game without a head start.
LEMMA FirstFollows ==
  ASSUME NEW dl, NEW k
  PROVE  LET e == CutForDeal(dl)
             f == After(FirstFrame, e, k)
             g == Reduce(Target, Blank, e)
         IN  Framed(WireType(e.type)) /\ IsFrame(f) /\ HasFields(g) /\ Pictures(f, g, 0)
<1>. DEFINE e == CutForDeal(dl)
            d == Wired(e, k)
            f == After(FirstFrame, e, k)
            g == Reduce(Target, Blank, e)
<1>1. e.type = "cut_for_deal" /\ e.dealer = dl
  BY DEF CutForDeal
<1>2. d = e
  BY WiredForms
<1>. HIDE DEF e, d
<1>3. Framed(WireType(e.type)) /\ f = [FirstFrame EXCEPT !.dealer = dl, !.phase = "cut"]
  BY <1>1, <1>2 DEF WireType, Framed, After, FrameAfter, d
<1>4. g = [Blank EXCEPT !.dealer = dl]
  BY <1>1 DEF Reduce
<1>. HIDE DEF f, g
<1>5. /\ IsFrame(f) /\ f.dealer = dl /\ f.hand = 0 /\ f.scores = [s \in Seat |-> 0] /\ f.hands = Empty
      /\ f.crib = {} /\ f.starter = NoCard /\ f.played = [s \in Seat |-> <<>>]
      /\ f.pile = <<>> /\ f.count = 0 /\ f.phase = "cut"
  BY <1>3 DEF FirstFrame, IsFrame
<1>6. /\ HasFields(g) /\ g.dealer = dl /\ g.scores = [s \in Seat |-> 0] /\ g.hands = Empty
      /\ g.thrown = Empty /\ g.starter = NoCard /\ g.played = Empty
      /\ g.pile = <<>> /\ g.count = 0 /\ g.phase = "discard"
  BY <1>4 DEF Blank, HasFields
<1>7. \A s \in Seat : {f.played[s][i] : i \in DOMAIN f.played[s]} = g.played[s]
  BY <1>5, <1>6, EmptyFacts
<1>8. g.thrown[0] \cup g.thrown[1] = {}
  BY <1>6, EmptyFacts DEF Seat
<1>9. Pictures(f, g, 0)
  BY <1>5, <1>6, <1>7, <1>8 DEF Pictures
<1>. QED BY <1>3, <1>5, <1>6, <1>9 DEF e, f, g

-----------------------------------------------------------------------------
(***************************************************************************)
(* The frames of the whole log.  A game of the page begins with the cut,   *)
(* since it gives no head start.                                           *)
(***************************************************************************)
OpenInv == \E dl, hs : log[1] = CutForDeal(dl) /\ log[2] = HandDealt(dl, hs)

LEMMA InitOpen == HistoryInit => OpenInv
<1>. SUFFICES ASSUME HistoryInit PROVE OpenInv
  OBVIOUS
<1>1. PICK open \in Openings, deck \in Decks :
        log = <<open.event, HandDealt(open.dealer, DealtHands(deck, open.dealer))>>
  BY DEF HistoryInit, Init
<1>2. open.event = CutForDeal(open.dealer)
  BY BotGameAssumption DEF Openings
<1>3. \A x, y : <<x, y>>[1] = x /\ <<x, y>>[2] = y
  OBVIOUS
<1>. QED BY <1>1, <1>2, <1>3 DEF OpenInv

LEMMA OpenInvNext == GameInv /\ LogInv /\ OpenInv /\ Logged => OpenInv'
<1>. SUFFICES ASSUME GameInv, LogInv, OpenInv, Logged PROVE OpenInv'
  OBVIOUS
<1>0. IsLog(log) /\ Len(log) \in Nat /\ 1 \in 1..Len(log) /\ 2 \in 1..Len(log)
  BY LogFacts DEF LogInv
<1>1. log'[1] = log[1] /\ log'[2] = log[2]
  <2>1. ASSUME log' = log \o out', IsLog(out') PROVE log'[1] = log[1] /\ log'[2] = log[2]
    BY <1>0, <2>1, JoinedLog
  <2>2. ASSUME NEW s \in Seat, NEW two \in Throws, Discard(s, two) PROVE IsLog(out')
    BY <2>2, LedDiscard DEF Led, IsLog
  <2>3. ASSUME NEW s \in Seat, NEW c \in hands[s], Play(s, c) PROVE IsLog(out')
    BY <2>3, LedPlay DEF Led, IsLog
  <2>. QED BY <2>1, <2>2, <2>3 DEF Logged
<1>. QED BY <1>1 DEF OpenInv

\* Counting as one more is looked at.
LEMMA CountsOn ==
  ASSUME NEW P, NEW n \in Nat,
         NEW a, a = {i \in 1..n : i \in P}, NEW b, b = {i \in 1..(n + 1) : i \in P}
  PROVE  /\ Cardinality(a) \in Nat
         /\ Cardinality(b) = IF n + 1 \in P THEN Cardinality(a) + 1 ELSE Cardinality(a)
<1>1. IsFiniteSet(1..n)
  BY FS_Interval
<1>2. IsFiniteSet(a) /\ Cardinality(a) \in Nat
  BY <1>1, FS_Subset, FS_CardinalityType
<1>3. CASE n + 1 \in P
  <2>1. b = a \cup {n + 1} /\ n + 1 \notin a
    BY <1>3
  <2>2. Cardinality(a \cup {n + 1}) = Cardinality(a) + 1
    BY <1>2, <2>1, FS_AddElement
  <2>. QED BY <1>2, <1>3, <2>1, <2>2
<1>4. CASE n + 1 \notin P
  <2>1. b = a
    BY <1>4
  <2>. QED BY <1>2, <1>4, <2>1
<1>. QED BY <1>3, <1>4

\* One more event, and the frames and the deals of the log up to it.
MakesFrame(e) == Framed(WireType(e.type))

LEMMA FramedGoes ==
  /\ FramedUpTo(0) = 0
  /\ \A n \in Nat :
       /\ FramedUpTo(n) \in Nat
       /\ FramedUpTo(n + 1) = IF MakesFrame(log[n + 1]) THEN FramedUpTo(n) + 1 ELSE FramedUpTo(n)
<1>1. FramedUpTo(0) = 0
  <2>1. {i \in 1..0 : Framed(WireType(log[i].type))} = {}
    OBVIOUS
  <2>. QED BY <2>1, FS_EmptySet DEF FramedUpTo
<1>2. ASSUME NEW n \in Nat
      PROVE  /\ FramedUpTo(n) \in Nat
             /\ FramedUpTo(n + 1)
                  = IF MakesFrame(log[n + 1]) THEN FramedUpTo(n) + 1 ELSE FramedUpTo(n)
  <2>. DEFINE P == {i \in Nat : MakesFrame(log[i])}
              a == {i \in 1..n : Framed(WireType(log[i].type))}
              b == {i \in 1..(n + 1) : Framed(WireType(log[i].type))}
  <2>1. a = {i \in 1..n : i \in P} /\ b = {i \in 1..(n + 1) : i \in P}
    BY DEF MakesFrame
  <2>2. n + 1 \in P <=> MakesFrame(log[n + 1])
    OBVIOUS
  <2>3. FramedUpTo(n) = Cardinality(a) /\ FramedUpTo(n + 1) = Cardinality(b)
    BY DEF FramedUpTo
  <2>. HIDE DEF P, a, b
  <2>4. /\ Cardinality(a) \in Nat
        /\ Cardinality(b) = IF n + 1 \in P THEN Cardinality(a) + 1 ELSE Cardinality(a)
    BY <2>1, CountsOn
  <2>. QED BY <2>2, <2>3, <2>4
<1>. QED BY <1>1, <1>2

LEMMA DealsGo ==
  ASSUME NEW events
  PROVE  /\ DealsBefore(events, 1) = 0
         /\ \A n \in Nat :
              /\ DealsBefore(events, n + 1) \in Nat
              /\ DealsBefore(events, n + 2) = DealWith(DealsBefore(events, n + 1), events[n + 1])
<1>1. DealsBefore(events, 1) = 0
  <2>1. {j \in 1..(1 - 1) : events[j].type = "hand_dealt"} = {}
    OBVIOUS
  <2>. QED BY <2>1, FS_EmptySet DEF DealsBefore
<1>2. ASSUME NEW n \in Nat
      PROVE  /\ DealsBefore(events, n + 1) \in Nat
             /\ DealsBefore(events, n + 2)
                  = DealWith(DealsBefore(events, n + 1), events[n + 1])
  <2>. DEFINE P == {j \in Nat : events[j].type = "hand_dealt"}
              a == {j \in 1..((n + 1) - 1) : events[j].type = "hand_dealt"}
              b == {j \in 1..((n + 2) - 1) : events[j].type = "hand_dealt"}
  <2>1. a = {j \in 1..n : j \in P} /\ b = {j \in 1..(n + 1) : j \in P}
    OBVIOUS
  <2>2. n + 1 \in P <=> events[n + 1].type = "hand_dealt"
    OBVIOUS
  <2>3. DealsBefore(events, n + 1) = Cardinality(a) /\ DealsBefore(events, n + 2) = Cardinality(b)
    BY DEF DealsBefore
  <2>. HIDE DEF P, a, b
  <2>4. /\ Cardinality(a) \in Nat
        /\ Cardinality(b) = IF n + 1 \in P THEN Cardinality(a) + 1 ELSE Cardinality(a)
    BY <2>1, CountsOn
  <2>. QED BY <2>2, <2>3, <2>4 DEF DealWith
<1>. QED BY <1>1, <1>2

\* fr are the frames of the first n events, each with the game it pictures.
Film(fr, n) ==
  /\ IsLog(fr) /\ Len(fr) = FramedUpTo(n) + 1 /\ fr[1] = FirstFrame
  /\ \A i \in 1..n :
       /\ FramedUpTo(i) + 1 \in 1..Len(fr)
       /\ Pictures(fr[FramedUpTo(i) + 1], AfterOf(log, i), DealsBefore(log, i + 1))

\* next has one event more, the frame after which is w.
FilmGoes(fr, n, e, k, w, next) ==
  /\ e = log[n + 1] /\ "type" \in DOMAIN e
  /\ Film(fr, n) /\ w = After(fr[Len(fr)], e, k)
  /\ Pictures(w, AfterOf(log, n + 1), DealsBefore(log, n + 2))
  /\ next = AddFrame(fr, Wired(e, k))

LEMMA FilmStep ==
  ASSUME NEW n \in Nat, NEW e, NEW fr, NEW k, NEW w, NEW next, FilmGoes(fr, n, e, k, w, next)
  PROVE  Film(next, n + 1) /\ next[Len(next)] = w
<1>. /\ e = log[n + 1] /\ "type" \in DOMAIN e
     /\ Film(fr, n) /\ w = After(fr[Len(fr)], e, k)
     /\ Pictures(w, AfterOf(log, n + 1), DealsBefore(log, n + 2))
     /\ next = AddFrame(fr, Wired(e, k))
  BY DEF FilmGoes
<1>0. FramedUpTo(n) \in Nat /\ IsLog(fr) /\ Len(fr) = FramedUpTo(n) + 1 /\ 1 \in 1..Len(fr)
  BY FramedGoes DEF Film
<1>1. Wired(e, k).type = WireType(e.type)
  BY WiredType
<1>2. ASSUME IsLog(next), Len(next) = FramedUpTo(n + 1) + 1, next[Len(next)] = w,
             FramedUpTo(n + 1) \in Nat, \A i \in 1..Len(fr) : next[i] = fr[i], Len(fr) <= Len(next)
      PROVE  Film(next, n + 1)
  <2>1. ASSUME NEW i \in 1..(n + 1)
        PROVE  /\ FramedUpTo(i) + 1 \in 1..Len(next)
               /\ Pictures(next[FramedUpTo(i) + 1], AfterOf(log, i), DealsBefore(log, i + 1))
    <3>1. CASE i \in 1..n
      <4>1. /\ FramedUpTo(i) + 1 \in 1..Len(fr)
            /\ Pictures(fr[FramedUpTo(i) + 1], AfterOf(log, i), DealsBefore(log, i + 1))
        BY <3>1 DEF Film
      <4>. QED BY <1>0, <1>2, <4>1
    <3>2. CASE i = n + 1
      <4>1. i + 1 = n + 2 /\ FramedUpTo(i) + 1 = Len(next)
        BY <1>2, <3>2
      <4>. QED BY <1>2, <3>2, <4>1
    <3>. QED BY <3>1, <3>2
  <2>2. next[1] = FirstFrame
    BY <1>0, <1>2 DEF Film
  <2>. QED BY <1>2, <2>1, <2>2 DEF Film
<1>3. CASE MakesFrame(e)
  <2>1. w = FrameAfter(fr[Len(fr)], Wired(e, k)) /\ next = Append(fr, w)
    BY <1>1, <1>3 DEF MakesFrame, After, AddFrame
  <2>2. /\ IsLog(next) /\ Len(next) = Len(fr) + 1 /\ next[Len(fr) + 1] = w
        /\ \A i \in 1..Len(fr) : next[i] = fr[i]
    BY <1>0, <2>1, LogGoesOn
  <2>3. FramedUpTo(n + 1) = FramedUpTo(n) + 1
    BY <1>3, FramedGoes
  <2>. QED BY <1>0, <1>2, <2>2, <2>3
<1>4. CASE ~MakesFrame(e)
  <2>1. w = fr[Len(fr)] /\ next = fr
    BY <1>1, <1>4 DEF MakesFrame, After, AddFrame
  <2>2. FramedUpTo(n + 1) = FramedUpTo(n)
    BY <1>4, FramedGoes
  <2>. QED BY <1>0, <1>2, <2>1, <2>2
<1>. QED BY <1>3, <1>4

LEMMA ReplayIs ==
  ASSUME IsLog(log)
  PROVE  /\ Len(ReplayResponse(log)) = Len(log)
         /\ \A i \in 1..Len(log) : ReplayResponse(log)[i] = Wired(log[i], ScoredCount(log, i))
<1>0. Len(log) \in Nat /\ DOMAIN log = 1..Len(log)
  BY LogFacts
<1>. DEFINE S == {ReplayEvent(log, i) : i \in 1..Len(log)}
            l == Len(log)
            r == ReplayResponse(log)
<1>1. r = [i \in 1..l |-> ReplayEvent(log, i)]
  BY <1>0 DEF ReplayResponse
<1>2. r \in [1..l -> S] /\ l \in Nat
  BY <1>0, <1>1
<1>. HIDE DEF r, l, S
<1>3. r \in Seq(S) /\ Len(r) = l
  BY <1>2
<1>4. \A i \in 1..l : r[i] = Wired(log[i], ScoredCount(log, i))
  BY <1>1 DEF ReplayEvent, Wired
<1>. QED BY <1>3, <1>4 DEF r, l

\* Every frame is the game after its event, and so is the one before it.
LEMMA FramesFilm ==
  ASSUME LogInv, OpenInv, ShapeInv, FitInv
  PROVE  Film(Frames, Len(log))
<1>0. IsLog(log) /\ Len(log) \in Nat /\ Len(log) >= 2
  BY LogFacts DEF LogInv
<1>1. PICK dl, hs : log[1] = CutForDeal(dl) /\ log[2] = HandDealt(dl, hs)
  BY DEF OpenInv
<1>2. PICK r : r = ReplayResponse(log)
  OBVIOUS
<1>3. PICK fs : /\ BuildFrames(r) = fs[Len(r)] /\ fs[0] = <<FirstFrame>>
                /\ \A n \in 0..(Len(r) - 1) : fs[n + 1] = AddFrame(fs[n], r[n + 1])
  <2>1. Len(r) \in Nat
    BY <1>0, <1>2, ReplayIs
  <2>. QED BY <2>1, FramesUnfold
<1>4. /\ Frames = fs[Len(log)]
      /\ \A n \in 0..(Len(log) - 1) :
           fs[n + 1] = AddFrame(fs[n], Wired(log[n + 1], ScoredCount(log, n + 1)))
  <2>1. Len(r) = Len(log) /\ \A i \in 1..Len(log) : r[i] = Wired(log[i], ScoredCount(log, i))
    BY <1>0, <1>2, ReplayIs
  <2>2. \A n \in 0..(Len(log) - 1) : n + 1 \in 1..Len(log)
    BY <1>0
  <2>. QED BY <1>2, <1>3, <2>1, <2>2 DEF Frames
<1>5. Film(fs[0], 0)
  <2>1. IsLog(<<FirstFrame>>) /\ <<FirstFrame>>[1] = FirstFrame /\ Len(<<FirstFrame>>) = 1
    BY LogOfOne
  <2>2. 1..0 = {}
    OBVIOUS
  <2>. QED BY <1>3, <2>1, <2>2, FramedGoes DEF Film
<1>. DEFINE Last(n) == fs[n][Len(fs[n])]
            D(n) == DealsBefore(log, n + 1)
<1>6. AfterOf(log, 0) = Blank
  <2>1. SubSeq(log, 1, 0) = <<>>
    BY <1>0
  <2>. QED BY <2>1, FoldedOfNothing DEF AfterOf
<1>7. /\ Film(fs[1], 1) /\ IsFrame(Last(1)) /\ HasFields(AfterOf(log, 1))
      /\ Pictures(Last(1), AfterOf(log, 1), D(1)) /\ D(1) = 0
  <2>. DEFINE e == log[1]
              k == ScoredCount(log, 1)
              w == After(FirstFrame, e, k)
              g == AfterOf(log, 1)
  <2>1. g = Reduce(Target, Blank, CutForDeal(dl))
    <3>1. 0 \in Nat /\ 0 + 1 = 1 /\ 1 \in 1..Len(log)
      BY <1>0
    <3>. QED BY <1>0, <1>1, <1>6, <3>1, PrefixGoesOn
  <2>2. MakesFrame(e) /\ IsFrame(w) /\ HasFields(g) /\ Pictures(w, g, 0)
    BY <1>1, <2>1, FirstFollows DEF MakesFrame
  <2>3. D(1) = 0
    <3>1. DealsBefore(log, 0 + 2) = DealWith(DealsBefore(log, 0 + 1), log[0 + 1])
      BY DealsGo
    <3>2. DealsBefore(log, 1) = 0 /\ log[1].type # "hand_dealt"
      BY <1>1, DealsGo DEF CutForDeal
    <3>. QED BY <3>1, <3>2 DEF DealWith
  <2>4. "type" \in DOMAIN e
    BY <1>1 DEF CutForDeal
  <2>5. /\ fs[0] = <<FirstFrame>> /\ Len(fs[0]) = 1 /\ fs[0][Len(fs[0])] = FirstFrame
        /\ fs[1] = AddFrame(fs[0], Wired(e, k)) /\ 0 + 1 = 1 /\ 0 + 2 = 2 /\ 0 \in Nat
    <3>1. 0 \in 0..(Len(log) - 1) /\ 0 + 1 = 1
      BY <1>0
    <3>2. fs[0 + 1] = AddFrame(fs[0], Wired(log[0 + 1], ScoredCount(log, 0 + 1)))
      BY <1>4, <3>1
    <3>. QED BY <1>3, <3>2
  <2>6. DealsBefore(log, 2) = 0
    BY <2>3
  <2>. HIDE DEF e, k, g, D, Last
  <2>7. Film(fs[1], 1) /\ fs[1][Len(fs[1])] = w
    <3>1. /\ e = log[0 + 1] /\ w = After(fs[0][Len(fs[0])], e, k)
          /\ Pictures(w, AfterOf(log, 0 + 1), DealsBefore(log, 0 + 2))
      BY <2>2, <2>5, <2>6 DEF e, g
    <3>. HIDE DEF w
    <3>2. Film(fs[1], 0 + 1) /\ fs[1][Len(fs[1])] = w
      <4>1. FilmGoes(fs[0], 0, e, k, w, fs[1])
        BY <1>5, <2>4, <2>5, <3>1 DEF FilmGoes
      <4>. QED BY <4>1, FilmStep
    <3>. QED BY <2>5, <3>2
  <2>. QED BY <2>2, <2>3, <2>7 DEF Last, g
<1>. DEFINE Good(n) == /\ Film(fs[n], n)
                       /\ Follow(Last(n), AfterOf(log, n), D(n), Stage(log[n]))
<1>8. Good(2)
  <2>. DEFINE e == log[2]
              k == ScoredCount(log, 2)
              f == Last(1)
              w == After(f, e, k)
              g == AfterOf(log, 1)
              h == AfterOf(log, 2)
  <2>1. h = Reduce(Target, g, e) /\ e = HandDealt(dl, hs)
    <3>1. 1 \in Nat /\ 1 + 1 = 2 /\ 2 \in 1..Len(log)
      BY <1>0
    <3>. QED BY <1>0, <1>1, <3>1, PrefixGoesOn
  <2>2. e.type = "hand_dealt" /\ "type" \in DOMAIN e /\ Stage(e) = "deal"
    BY <1>1 DEF HandDealt, Stage
  <2>3. D(2) = 1 /\ D(1) = 0
    <3>1. DealsBefore(log, 1 + 2) = DealWith(DealsBefore(log, 1 + 1), log[1 + 1])
      BY DealsGo
    <3>. QED BY <1>7, <2>2, <3>1 DEF DealWith
  <2>4. /\ fs[2] = AddFrame(fs[1], Wired(e, k)) /\ 1 + 1 = 2 /\ 1 + 2 = 3 /\ 1 \in Nat
    <3>1. 1 \in 0..(Len(log) - 1) /\ 1 + 1 = 2
      BY <1>0
    <3>2. fs[1 + 1] = AddFrame(fs[1], Wired(log[1 + 1], ScoredCount(log, 1 + 1)))
      BY <1>4, <3>1
    <3>. QED BY <3>2
  <2>. HIDE DEF e, k, g, h, D, Last
  <2>5. Framed(Wired(e, k).type) /\ Follow(FrameAfter(f, Wired(e, k)), h, 0 + 1, "deal")
    <3>1. IsFrame(f) /\ HasFields(g) /\ Pictures(f, g, 0) /\ 0 \in Nat
      BY <1>7, <2>3 DEF g
    <3>. HIDE DEF f
    <3>. QED BY <2>1, <3>1, DealtFrame
  <2>6. Follow(w, h, D(2), Stage(e))
    BY <2>2, <2>3, <2>5, WiredType DEF After
  <2>7. Film(fs[2], 2) /\ fs[2][Len(fs[2])] = w
    <3>1. Pictures(w, h, D(2)) /\ w = After(fs[1][Len(fs[1])], e, k)
      BY <2>6 DEF Follow, Last
    <3>. HIDE DEF w
    <3>2. Pictures(w, AfterOf(log, 1 + 1), DealsBefore(log, 1 + 2)) /\ e = log[1 + 1]
      BY <3>1 DEF h, D, e
    <3>3. Film(fs[1], 1)
      BY <1>7
    <3>4. Film(fs[2], 1 + 1) /\ fs[2][Len(fs[2])] = w
      <4>1. FilmGoes(fs[1], 1, e, k, w, fs[2])
        BY <2>2, <2>4, <3>1, <3>2, <3>3 DEF FilmGoes
      <4>. QED BY <4>1, FilmStep
    <3>. QED BY <2>4, <3>4
  <2>. QED BY <2>6, <2>7 DEF Last, h, e
<1>9. ASSUME NEW n \in 2..(Len(log) - 1), Good(n) PROVE Good(n + 1)
  <2>. DEFINE e == log[n + 1]
              k == ScoredCount(log, n + 1)
              f == Last(n)
              w == After(f, e, k)
              g == AfterOf(log, n)
              h == AfterOf(log, n + 1)
  <2>0. n \in Nat /\ n + 1 \in 1..Len(log) /\ n + 1 \in 3..Len(log) /\ (n + 1) - 1 = n /\ n \in 0..(Len(log) - 1)
    BY <1>0
  <2>1. h = Reduce(Target, g, e)
    BY <1>0, <2>0, PrefixGoesOn
  <2>2. Made(e) /\ May(Stage(log[n]), e) /\ ComesNext(g, e, k)
    <3>1. Command(e) \/ FollowUp(e)
      BY <2>0 DEF LogInv
    <3>2. May(Stage(log[n]), e)
      BY <2>0 DEF ShapeInv
    <3>3. FitsAt(log, n)
      BY DEF FitInv
    <3>. QED BY <3>1, <3>2, <3>3 DEF FitsAt, Command, FollowUp
  <2>3. "type" \in DOMAIN e
    BY <2>2, MadeOfType
  <2>4. D(n) \in Nat /\ D(n + 1) = DealWith(D(n), e)
    <3>1. (n + 1) + 1 = n + 2
      BY <2>0
    <3>. QED BY <2>0, <3>1, DealsGo
  <2>5. fs[n + 1] = AddFrame(fs[n], Wired(e, k))
    BY <1>4, <2>0
  <2>. HIDE DEF e, k, g, h, D, Last
  <2>6. Follow(w, h, D(n + 1), Stage(e))
    <3>1. Follow(f, g, D(n), Stage(log[n]))
      BY <1>9 DEF g
    <3>. HIDE DEF f
    <3>. QED BY <2>1, <2>2, <2>4, <3>1, FollowStep
  <2>7. Film(fs[n + 1], n + 1) /\ fs[n + 1][Len(fs[n + 1])] = w
    <3>1. Pictures(w, h, D(n + 1)) /\ w = After(fs[n][Len(fs[n])], e, k)
      BY <2>6 DEF Follow, Last
    <3>2. D(n + 1) = DealsBefore(log, n + 2)
      <4>1. (n + 1) + 1 = n + 2
        BY <2>0
      <4>. QED BY <4>1 DEF D
    <3>3. Film(fs[n], n)
      BY <1>9
    <3>. HIDE DEF w
    <3>4. Pictures(w, AfterOf(log, n + 1), DealsBefore(log, n + 2)) /\ e = log[n + 1]
      BY <3>1, <3>2 DEF h, e
    <3>5. FilmGoes(fs[n], n, e, k, w, fs[n + 1])
      BY <2>3, <2>5, <3>1, <3>3, <3>4 DEF FilmGoes
    <3>. QED BY <2>0, <3>5, FilmStep
  <2>. QED BY <2>6, <2>7 DEF Last, h, e
<1>. HIDE DEF Good, Last, D
<1>. DEFINE G == {m \in Nat : m + 2 <= Len(log) => Good(m + 2)}
<1>10. 0 \in G
  BY <1>8
<1>11. ASSUME NEW m \in G PROVE m + 1 \in G
  <2>1. CASE (m + 1) + 2 <= Len(log)
    <3>1. PICK n : n = m + 2
      OBVIOUS
    <3>2. n \in 2..(Len(log) - 1) /\ n + 1 = (m + 1) + 2 /\ Good(n)
      BY <1>0, <2>1, <3>1
    <3>3. Good(n + 1)
      BY <1>9, <3>2
    <3>. QED BY <3>2, <3>3
  <2>2. CASE ~((m + 1) + 2 <= Len(log))
    BY <2>2
  <2>. QED BY <2>1, <2>2
<1>12. G = Nat
  <2>. HIDE DEF G
  <2>1. G \in SUBSET Nat
    BY DEF G
  <2>. QED BY <1>10, <1>11, <2>1, InductionOverNat
<1>13. Good(Len(log))
  <2>1. PICK m \in Nat : m + 2 = Len(log)
    <3>1. Len(log) - 2 \in Nat /\ (Len(log) - 2) + 2 = Len(log)
      BY <1>0
    <3>. QED BY <3>1
  <2>2. m \in G
    <3>. HIDE DEF G
    <3>. QED BY <1>12
  <2>. QED BY <2>1, <2>2
<1>. QED BY <1>4, <1>13 DEF Good

\* What is known of a log, of the page's games.
GameLogInv == GameInv /\ CountedInv /\ LogSide /\ SeenInv /\ OpenInv

LEMMA InitGameLog == HistoryInit => GameLogInv
<1>1. HistoryInit => Init
  BY DEF HistoryInit
<1>2. HistoryInit => TellInv /\ LogInv /\ SeenInv /\ DealInv /\ ShapeInv /\ FitInv /\ OpenInv
  BY HistoryInitInv, InitLogInv, InitSeen, InitDeal, InitShape, InitFit, InitOpen
<1>3. Init => GameInv /\ CountedInv
  BY InitInv, RunningCountOfNothing DEF Init, CountedInv
<1>. QED BY <1>1, <1>2, <1>3 DEF GameLogInv, LogSide

LEMMA GameLogNext == GameLogInv /\ [HistoryNext]_historyVars => GameLogInv'
<1>. SUFFICES ASSUME GameLogInv, [HistoryNext]_historyVars PROVE GameLogInv'
  OBVIOUS
<1>1. GameInv /\ TellInv /\ LogInv /\ SeenInv /\ CountedInv
  BY DEF GameLogInv, LogSide
<1>2. DealInv /\ ShapeInv /\ FitInv /\ OpenInv
  BY DEF GameLogInv, LogSide
<1>3. Logged /\ [Next]_vars
  BY HistoryIsLogged, LoggedIsNext
<1>4. GameInv' /\ TellInv'
  BY <1>1, <1>3, NextInv, HistoryInvNext
<1>5. LogInv' /\ SeenInv' /\ CountedInv'
  BY <1>1, <1>3, LogInvNext, SeenInvNext, NextCounted
<1>6. DealInv' /\ ShapeInv' /\ FitInv' /\ OpenInv'
  BY <1>1, <1>2, <1>3, DealInvNext, ShapeInvNext, FitInvNext, OpenInvNext
<1>. QED BY <1>4, <1>5, <1>6 DEF GameLogInv, LogSide

\* So every frame of a replay is the game after its event: the page's reducer,
\* which clears, clamps and counts by itself, tells the engine's game of every
\* log the engine can have made.
LEMMA FilmTells == GameLogInv => FramesTellTheGame
<1>. SUFFICES ASSUME GameLogInv PROVE FramesTellTheGame
  OBVIOUS
<1>1. Film(Frames, Len(log)) /\ DOMAIN log = 1..Len(log)
  BY FramesFilm, LogFacts DEF GameLogInv, LogSide, LogInv
<1>2. \A n \in DOMAIN log :
        Pictures(Frames[FramedUpTo(n) + 1], Folded(Target, SubSeq(log, 1, n)),
                 DealsBefore(log, n + 1))
  BY <1>1 DEF Film, AfterOf
<1>. QED BY <1>1, <1>2 DEF FramesTellTheGame, Film

-----------------------------------------------------------------------------
(***************************************************************************)
(* The rail.  The fold without a target tells the same game but for the    *)
(* scores, and the same scores whenever a hand is dealt: nobody has won    *)
(* then, and the deal is the last thing its command did.                   *)
(***************************************************************************)
RawAfter(events, n) == Folded(0, SubSeq(events, 1, n))

EvenInv ==
  \A p \in 2..Len(log) : log[p].type = "hand_dealt" => RawAfter(log, p) = AfterOf(log, p)

\* The log as a whole, of a game not won; and of a game that is won.
WholeTold ==
  /\ winner = NoSeat => RawAfter(log, Len(log)) = AfterOf(log, Len(log))
  /\ winner # NoSeat => AfterOf(log, Len(log)).phase = "complete"

LEMMA WholeLog == GameInv /\ TellInv => WholeTold
<1>. SUFFICES ASSUME GameInv, TellInv PROVE WholeTold
  OBVIOUS
<1>1. SubSeq(log, 1, Len(log)) = log
  BY DEF TellInv, IsLog
<1>2. winner = NoSeat => RawAfter(log, Len(log)) = AfterOf(log, Len(log))
  BY <1>1, NowAfterLog DEF RawAfter, AfterOf
<1>3. ASSUME winner # NoSeat PROVE AfterOf(log, Len(log)).phase = "complete"
  <2>1. AfterOf(log, Len(log)).phase = phase
    BY LiveIs, LiveFields
  <2>. QED BY <1>3, <2>1 DEF GameInv, ScoreInv, OnlyTheWinnerIsAtTarget
<1>. QED BY <1>2, <1>3 DEF WholeTold

\* Of the events a command leads to, only a deal deals.
LEMMA DealForm ==
  ASSUME NEW e, Made(e), e.type = "hand_dealt"
  PROVE  \E dl, hs : e = HandDealt(dl, hs)
<1>1. ASSUME NEW s, NEW two, e = DiscardedBy(s, two) PROVE FALSE
  BY <1>1 DEF DiscardedBy
<1>2. ASSUME NEW c, NEW h, e = StarterCut(c, h) PROVE FALSE
  BY <1>2 DEF StarterCut
<1>3. ASSUME NEW s, NEW c, NEW p, e = CardPlayed(s, c, p) PROVE FALSE
  BY <1>3 DEF CardPlayed
<1>4. ASSUME NEW s, e = Pass(s) \/ e = GoAwarded(s) \/ e = SeriesReset(s) \/ e = GameWon(s)
      PROVE  FALSE
  BY <1>4 DEF Pass, GoAwarded, SeriesReset, GameWon
<1>5. ASSUME NEW s, NEW cs, NEW p, e = HandShown(s, cs, p) PROVE FALSE
  BY <1>5 DEF HandShown
<1>6. ASSUME NEW cs, NEW p, e = CribShown(cs, p) PROVE FALSE
  BY <1>6 DEF CribShown
<1>7. ASSUME NEW s, NEW cs, NEW b, e = ShowNotCounted(s, cs, b) PROVE FALSE
  BY <1>7 DEF ShowNotCounted
<1>. QED BY <1>1, <1>2, <1>3, <1>4, <1>5, <1>6, <1>7, Zenon DEF Made

LEMMA EvenGoesOn ==
  ASSUME LogInv, EvenInv, NEW e, Command(e), Led(out', e), log' = log \o out',
         winner' = NoSeat => RawAfter(log', Len(log')) = AfterOf(log', Len(log')),
         winner' # NoSeat => AfterOf(log', Len(log')).phase = "complete"
  PROVE  EvenInv'
<1>. DEFINE l == Len(log)
            n == Len(out')
<1>1. IsLog(log) /\ IsLog(out') /\ l >= 2
  BY DEF LogInv, Led, IsLog
<1>2. /\ l \in Nat /\ n \in Nat /\ Len(log') = l + n /\ IsLog(log')
      /\ \A i \in 1..l : log'[i] = log[i]
      /\ \A i \in (l + 1)..(l + n) : log'[i] = out'[i - l]
      /\ \A i \in 0..l : SubSeq(log', 1, i) = SubSeq(log, 1, i)
  <2>1. PICK all : all = log'
    OBVIOUS
  <2>2. all = log \o out'
    BY <2>1
  <2>3. /\ IsLog(all) /\ l \in Nat /\ n \in Nat /\ Len(all) = l + n
        /\ \A i \in 1..l : all[i] = log[i]
        /\ \A i \in (l + 1)..(l + n) : all[i] = out'[i - l]
        /\ \A i \in 0..l : SubSeq(all, 1, i) = SubSeq(log, 1, i)
    <3>1. PICK more : more = out'
      OBVIOUS
    <3>2. /\ IsLog(all) /\ Len(log) \in Nat /\ Len(more) \in Nat /\ Len(all) = Len(log) + Len(more)
          /\ \A i \in 1..Len(log) : all[i] = log[i]
          /\ \A i \in (Len(log) + 1)..(Len(log) + Len(more)) : all[i] = more[i - Len(log)]
          /\ \A i \in 0..Len(log) : SubSeq(all, 1, i) = SubSeq(log, 1, i)
      <4>1. all = log \o more /\ IsLog(log) /\ IsLog(more)
        BY <1>1, <2>2, <3>1
      <4>2. \A i \in 0..Len(log) : SubSeq(log \o more, 1, i) = SubSeq(log, 1, i)
        BY <4>1, JoinedLog
      <4>3. /\ IsLog(all) /\ Len(log) \in Nat /\ Len(more) \in Nat /\ Len(all) = Len(log) + Len(more)
            /\ \A i \in 1..Len(log) : all[i] = log[i]
            /\ \A i \in (Len(log) + 1)..(Len(log) + Len(more)) : all[i] = more[i - Len(log)]
        BY ONLY <4>1, JoinedLog
      <4>. QED BY <4>1, <4>2, <4>3
    <3>. QED BY <3>1, <3>2
  <2>. QED BY <2>1, <2>3
<1>3. /\ out'[1] = e /\ n >= 1
      /\ \A i \in 2..n : FollowUp(out'[i]) /\ May(Stage(out'[i - 1]), out'[i])
  BY DEF Led
<1>. HIDE DEF l, n
<1>4. ASSUME NEW p \in 2..(l + n), log'[p].type = "hand_dealt"
      PROVE  RawAfter(log', p) = AfterOf(log', p)
  <2>1. CASE p \in 2..l
    <3>1. p \in 1..l /\ p \in 0..l
      BY <1>2, <2>1
    <3>. QED BY <1>2, <1>4, <2>1, <3>1 DEF EvenInv, l, RawAfter, AfterOf
  <2>2. CASE p \notin 2..l
    <3>1. p \in (l + 1)..(l + n) /\ p - l \in 1..n /\ log'[p] = out'[p - l]
      <4>1. p \in (l + 1)..(l + n) /\ p - l \in 1..n
        BY <1>1, <1>2, <2>2 DEF l
      <4>. QED BY <1>2, <4>1
    <3>2. p - l # 1
      BY <1>3, <1>4, <3>1 DEF Command
    <3>3. CASE p = l + n
      <4>1. AfterOf(log', p).phase # "complete"
        <5>1. \E dl, hs : log'[p] = HandDealt(dl, hs)
          <6>1. FollowUp(out'[p - l])
            BY <1>2, <1>3, <3>1, <3>2
          <6>. QED BY <1>4, <3>1, <6>1, DealForm DEF FollowUp
        <5>2. PICK dl, hs : log'[p] = HandDealt(dl, hs)
          BY <5>1
        <5>3. PICK m \in Nat : m + 1 = p
          <6>1. p - 1 \in Nat /\ (p - 1) + 1 = p
            BY <1>2
          <6>. QED BY <6>1
        <5>4. AfterOf(log', p) = Reduce(Target, AfterOf(log', m), HandDealt(dl, hs))
          <6>1. m + 1 \in 1..Len(log')
            BY <1>2, <5>3
          <6>2. AfterOf(log', m + 1) = Reduce(Target, AfterOf(log', m), log'[m + 1])
            BY <1>2, <6>1, PrefixGoesOn
          <6>. QED BY <5>2, <5>3, <6>2
        <5>5. \A g : Reduce(Target, g, HandDealt(dl, hs)).phase = "discard"
          BY DEF Reduce, HandDealt, Blank
        <5>. QED BY <5>4, <5>5
      <4>2. winner' = NoSeat
        BY <1>2, <3>3, <4>1
      <4>. QED BY <1>2, <3>3, <4>2
    <3>4. CASE p # l + n
      <4>1. (p - l) + 1 \in 2..n /\ ((p - l) + 1) - 1 = p - l
        BY <1>2, <3>1, <3>4
      <4>2. FollowUp(out'[(p - l) + 1]) /\ May(Stage(out'[p - l]), out'[(p - l) + 1])
        BY <1>3, <4>1
      <4>3. Stage(out'[p - l]) = "deal"
        BY <1>4, <3>1 DEF Stage
      <4>. QED BY <4>2, <4>3 DEF May, FollowUp
    <3>. QED BY <3>3, <3>4
  <2>. QED BY <2>1, <2>2
<1>. QED BY <1>2, <1>4 DEF EvenInv

LEMMA EvenInvNext == GameInv /\ TellInv /\ LogInv /\ EvenInv /\ Logged => EvenInv'
<1>0. GameInv' /\ TellInv' => WholeTold'
  BY WholeLog, PTL
<1>. SUFFICES ASSUME GameInv, TellInv, LogInv, EvenInv, Logged PROVE EvenInv'
  OBVIOUS
<1>1. /\ winner' = NoSeat => RawAfter(log', Len(log')) = AfterOf(log', Len(log'))
      /\ winner' # NoSeat => AfterOf(log', Len(log')).phase = "complete"
  <2>1. GameInv' /\ TellInv'
    BY LoggedIsNext, NextInv, HistoryInvNext
  <2>. QED BY <1>0, <2>1 DEF WholeTold
<1>2. ASSUME NEW s \in Seat, NEW c \in hands[s], Play(s, c), log' = log \o out'
      PROVE  EvenInv'
  <2>. DEFINE e == CardPlayed(s, c, Score(pile, c))
  <2>1. LegalPlay(s, c) /\ Score(pile, c) \in Nat
    BY <1>2, PlayMovesSeries, LayFacts
  <2>2. Command(e) /\ Led(out', e)
    BY <1>2, <2>1, Commands, LedPlay
  <2>. HIDE DEF e
  <2>. QED BY <1>1, <1>2, <2>2, EvenGoesOn
<1>3. ASSUME NEW s \in Seat, NEW two \in Throws, Discard(s, two), log' = log \o out'
      PROVE  EvenInv'
  <2>. DEFINE e == DiscardedBy(s, two)
  <2>2. Command(e) /\ Led(out', e)
    BY <1>3, Commands, LedDiscard
  <2>. HIDE DEF e
  <2>. QED BY <1>1, <1>3, <2>2, EvenGoesOn
<1>4. CASE UNCHANGED log
  BY <1>4 DEF EvenInv
<1>. QED BY <1>2, <1>3, <1>4 DEF Logged

LEMMA InitEven == HistoryInit => EvenInv
<1>. SUFFICES ASSUME HistoryInit PROVE EvenInv
  OBVIOUS
<1>1. Len(log) = 2
  <2>1. PICK a, b : log = <<a, b>>
    BY DEF HistoryInit, Init
  <2>. QED BY <2>1
<1>2. GameInv /\ TellInv /\ winner = NoSeat
  BY InitInv, HistoryInitInv DEF HistoryInit, Init
<1>3. RawAfter(log, 2) = AfterOf(log, 2)
  BY <1>1, <1>2, WholeLog DEF WholeTold
<1>. QED BY <1>1, <1>3 DEF EvenInv

\* What holds of the second, and of each next one, holds of all.
LEMMA UpFromTwo ==
  ASSUME NEW S, NEW l \in Nat, 2 \in S, \A n \in 2..(l - 1) : n \in S => n + 1 \in S
  PROVE  \A n \in 2..l : n \in S
<1>. DEFINE G == {m \in Nat : m + 2 <= l => m + 2 \in S}
<1>1. 0 \in G
  OBVIOUS
<1>2. ASSUME NEW m \in G PROVE m + 1 \in G
  <2>1. CASE (m + 1) + 2 <= l
    <3>1. PICK n : n = m + 2
      OBVIOUS
    <3>2. n \in 2..(l - 1) /\ n + 1 = (m + 1) + 2 /\ n \in S
      BY <2>1, <3>1
    <3>3. n + 1 \in S
      BY <3>2
    <3>. QED BY <3>2, <3>3
  <2>2. CASE ~((m + 1) + 2 <= l)
    BY <2>2
  <2>. QED BY <2>1, <2>2
<1>3. G = Nat
  <2>. HIDE DEF G
  <2>1. G \in SUBSET Nat
    BY DEF G
  <2>. QED BY <1>1, <1>2, <2>1, InductionOverNat
<1>4. ASSUME NEW n \in 2..l PROVE n \in S
  <2>1. n - 2 \in Nat /\ (n - 2) + 2 = n
    OBVIOUS
  <2>2. n - 2 \in G
    <3>. HIDE DEF G
    <3>. QED BY <1>3, <2>1
  <2>. QED BY <2>1, <2>2
<1>. QED BY <1>4

\* The seat s has its hand to throw from, or it has thrown.
Held(have, g, s, stage) ==
  /\ have \in BOOLEAN /\ HasFields(g)
  /\ have => g.phase = "discard" /\ g.thrown[s] = {} /\ stage \in {"deal", "throw"}
  /\ ~have => g.thrown[s] # {}

\* A hand is dealt to a seat that has thrown the last one, and is thrown from
\* before it is played: whatever comes next, h is the game after it.
HeldGoes(have, g, s, stage, e, h) ==
  /\ e.type = "hand_dealt" => ~have /\ Held(TRUE, h, s, "deal")
  /\ e.type = "discarded" /\ e.seat = s => have /\ Held(FALSE, h, s, "throw")
  /\ e.type # "hand_dealt" /\ ~(e.type = "discarded" /\ e.seat = s) => Held(have, h, s, Stage(e))

LEMMA HeldStep ==
  ASSUME NEW have, NEW g, NEW s \in Seat, NEW stage, Held(have, g, s, stage),
         NEW e, Made(e), NEW k, May(stage, e), ComesNext(g, e, k),
         NEW h, h = Reduce(Target, g, e)
  PROVE  HeldGoes(have, g, s, stage, e, h)
<1>0. HasFields(g) /\ have \in BOOLEAN
  BY DEF Held
<1>1. ASSUME NEW dl, NEW hs, e = HandDealt(dl, hs) PROVE HeldGoes(have, g, s, stage, e, h)
  <2>1. e.type = "hand_dealt"
    BY <1>1 DEF HandDealt
  <2>2. ~have
    BY <2>1 DEF Held, May
  <2>3. HasFields(h) /\ h.phase = "discard" /\ h.thrown = Empty
    BY <1>0, <1>1, DealtGame DEF GameBut
  <2>4. Held(TRUE, h, s, "deal")
    BY <2>3, EmptyFacts DEF Held
  <2>. QED BY <2>1, <2>2, <2>4 DEF HeldGoes
<1>2. ASSUME NEW t, NEW two, e = DiscardedBy(t, two) PROVE HeldGoes(have, g, s, stage, e, h)
  <2>1. e.type = "discarded" /\ e.seat = t /\ e.cards = two
    BY <1>2 DEF DiscardedBy
  <2>2. /\ g.phase = "discard" /\ g.thrown \in [Seat -> SUBSET Card] /\ t \in Seat
        /\ g.thrown[t] = {} /\ two # {}
    BY <2>1 DEF ComesNext
  <2>3. ThrowsOut(h, g, t, two)
    BY <1>0, <1>2, ThrownGame
  <2>4. HasFields(h) /\ h.phase = "discard" /\ h.thrown = [g.thrown EXCEPT ![t] = two]
    BY <2>2, <2>3 DEF ThrowsOut, GameBut
  <2>5. t = s => have
    BY <2>2 DEF Held
  <2>6. t = s => Held(FALSE, h, s, "throw")
    BY <2>2, <2>4 DEF Held
  <2>7. t # s => h.thrown[s] = g.thrown[s]
    BY <2>2, <2>4
  <2>8. t # s => Held(have, h, s, "throw")
    BY <2>4, <2>7 DEF Held
  <2>9. Stage(e) = "throw"
    BY <2>1 DEF Stage
  <2>. QED BY <2>1, <2>5, <2>6, <2>8, <2>9 DEF HeldGoes
<1>3. ASSUME ~have, HasFields(h), h.thrown = g.thrown, e.type \notin {"hand_dealt", "discarded"}
      PROVE  HeldGoes(have, g, s, stage, e, h)
  <2>1. Held(have, h, s, Stage(e))
    BY <1>3 DEF Held
  <2>. QED BY <1>3, <2>1 DEF HeldGoes
<1>4. ASSUME NEW c, NEW p, e = StarterCut(c, p) PROVE HeldGoes(have, g, s, stage, e, h)
  <2>1. e.type = "starter_cut"
    BY <1>4 DEF StarterCut
  <2>2. g.thrown[s] # {}
    BY <2>1 DEF ComesNext
  <2>3. ~have
    BY <2>2 DEF Held
  <2>4. HasFields(h) /\ h.thrown = g.thrown
    BY <1>0, <1>4, CutGame DEF GameBut
  <2>. QED BY <1>3, <2>1, <2>3, <2>4
<1>5. ASSUME NEW t, NEW c, NEW p, e = CardPlayed(t, c, p) PROVE HeldGoes(have, g, s, stage, e, h)
  <2>1. e.type = "card_played"
    BY <1>5 DEF CardPlayed
  <2>2. g.phase = "play"
    BY <2>1 DEF ComesNext
  <2>3. ~have
    BY <2>2 DEF Held
  <2>4. LaysOut(h, g, t, c, p)
    BY <1>0, <1>5, LaidOut
  <2>5. HasFields(h) /\ h.thrown = g.thrown
    BY <2>4 DEF LaysOut, GameBut
  <2>. QED BY <1>3, <2>1, <2>3, <2>5
<1>6. ASSUME e.type \notin {"hand_dealt", "discarded", "card_played", "starter_cut"} PROVE ~have
  BY <1>6 DEF Held, May
<1>7. ASSUME NEW t, e = Pass(t) \/ e = GoAwarded(t) \/ e = SeriesReset(t) \/ e = GameWon(t)
      PROVE  HeldGoes(have, g, s, stage, e, h)
  <2>1. e.type \notin {"hand_dealt", "discarded", "card_played", "starter_cut"}
    BY <1>7 DEF Pass, GoAwarded, SeriesReset, GameWon
  <2>2. HasFields(h) /\ h.thrown = g.thrown
    BY <1>0, <1>7, PassedGame, GoneGame, ResetGame, WonGame DEF GameBut
  <2>. QED BY <1>3, <1>6, <2>1, <2>2
<1>8. ASSUME NEW t, NEW cs, NEW p, e = HandShown(t, cs, p) \/ e = CribShown(cs, p)
      PROVE  HeldGoes(have, g, s, stage, e, h)
  <2>1. e.type \notin {"hand_dealt", "discarded", "card_played", "starter_cut"}
    BY <1>8 DEF HandShown, CribShown
  <2>2. HasFields(h) /\ h.thrown = g.thrown
    BY <1>0, <1>8, ShownGame, CribGame DEF GameBut
  <2>. QED BY <1>3, <1>6, <2>1, <2>2
<1>9. ASSUME NEW t, NEW cs, NEW b, e = ShowNotCounted(t, cs, b)
      PROVE  HeldGoes(have, g, s, stage, e, h)
  <2>1. e.type \notin {"hand_dealt", "discarded", "card_played", "starter_cut"}
    BY <1>9 DEF ShowNotCounted
  <2>2. HasFields(h) /\ h.thrown = g.thrown
    BY <1>0, <1>9, UncountedGame
  <2>. QED BY <1>3, <1>6, <2>1, <2>2
<1>. QED BY <1>1, <1>2, <1>4, <1>5, <1>7, <1>8, <1>9 DEF Made

\* The scores the walk keeps are those of the fold without a target.
LEMMA WalkScores ==
  ASSUME NEW events, NEW seat, NEW w, IsWalk(w), NEW r, IsGame(r),
         w.scores = r.scores, w.dealer = r.dealer,
         NEW e, Command(e) \/ FollowUp(e),
         NEW v, v = WalkStep(events, seat, w, e), NEW q, q = Reduce(0, r, e)
  PROVE  IsGame(q) /\ v.scores = q.scores /\ v.dealer = q.dealer
<1>1. /\ IsGame(q)
      /\ q.dealer = IF e.type = "hand_dealt" THEN e.dealer ELSE r.dealer
      /\ q.scores =
           IF e.type \in {"starter_cut", "crib_shown"}
             THEN AddPoints(0, r.scores, r.dealer, e.points)
             ELSE IF e.type \in {"card_played", "go_awarded", "hand_shown"}
               THEN AddPoints(0, r.scores, e.seat, e.points)
               ELSE r.scores
  BY ReduceScores
<1>2. \A sc, s, p : AddPoints(0, sc, s, p) = [sc EXCEPT ![s] = @ + p]
  BY DEF AddPoints
<1>3. ASSUME NEW s, NEW p, v = Credit(w, s, p)
      PROVE  v.dealer = w.dealer /\ v.scores = AddPoints(0, w.scores, s, p)
  <2>1. v = [w EXCEPT !.scores[s] = @ + p]
    BY <1>3 DEF Credit
  <2>2. v.dealer = w.dealer /\ v.scores = [w.scores EXCEPT ![s] = @ + p]
    BY <2>1 DEF IsWalk
  <2>. QED BY <1>2, <2>2
<1>4. CASE e.type \in {"starter_cut", "crib_shown"}
  <2>1. v = Credit(w, w.dealer, e.points)
    BY <1>4 DEF WalkStep
  <2>2. v.dealer = w.dealer /\ v.scores = AddPoints(0, w.scores, w.dealer, e.points)
    BY <1>3, <2>1
  <2>. QED BY <1>1, <1>4, <2>2
<1>5. CASE e.type \in {"card_played", "go_awarded", "hand_shown"}
  <2>1. v = Credit(w, e.seat, e.points)
    BY <1>5 DEF WalkStep
  <2>2. v.dealer = w.dealer /\ v.scores = AddPoints(0, w.scores, e.seat, e.points)
    BY <1>3, <2>1
  <2>. QED BY <1>1, <1>5, <2>2
<1>6. CASE e.type = "hand_dealt"
  <2>1. v.dealer = e.dealer /\ v.scores = w.scores
    BY <1>6, WalkDeals
  <2>. QED BY <1>1, <1>6, <2>1
<1>7. CASE e.type \in {"discarded", "pass", "series_reset", "game_won", "show_not_counted"}
  <2>1. v.dealer = w.dealer /\ v.scores = w.scores
    <3>1. CASE e.type = "discarded" /\ e.seat = seat /\ w.haveHand
      <4>1. e.type = "discarded" /\ e.seat = seat /\ w.haveHand
        BY <3>1
      <4>2. v.deal = w.deal /\ v.dealer = w.dealer /\ v.start = w.start /\ v.scores = w.scores
        BY <4>1, WalkThrows
      <4>. QED BY <4>2
    <3>2. CASE ~(e.type = "discarded" /\ e.seat = seat /\ w.haveHand)
      <4>1. v = w
        BY <1>7, <3>2 DEF WalkStep
      <4>. QED BY <4>1
    <3>. QED BY <3>1, <3>2
  <2>. QED BY <1>1, <1>7, <2>1
<1>. QED BY <1>4, <1>5, <1>6, <1>7 DEF Command, FollowUp

\* v holds the deal d of the first n events, as it was dealt to the seat s.
DealtAs(v, s, d, n) ==
  \E p \in 2..n :
    /\ log[p].type = "hand_dealt" /\ DealsBefore(log, p) = d
    /\ v.deal = d /\ v.dealer = log[p].dealer /\ v.hand = log[p].hands[s]
    /\ v.start = RawAfter(log, p).scores

\* And x is the analysis of it.
GradedAs(x, s, d, n) ==
  \E v, throw : x = AnalyzeDeal(v, s, throw, PlaysOf(log, s, d)) /\ DealtAs(v, s, d, n)

\* Where the walk over the log is after n events.
Walked(w, s, n) ==
  /\ IsWalk(w) /\ Held(w.haveHand, AfterOf(log, n), s, Stage(log[n]))
  /\ IsGame(RawAfter(log, n))
  /\ w.scores = RawAfter(log, n).scores /\ w.dealer = RawAfter(log, n).dealer
  /\ w.deal = DealsBefore(log, n + 1) - 1
  /\ Len(w.deals) = IF w.haveHand THEN w.deal ELSE w.deal + 1
  /\ w.haveHand => DealtAs(w, s, w.deal, n)
  /\ \A j \in 1..Len(w.deals) : GradedAs(w.deals[j], s, j - 1, n)

LEMMA GradedStay ==
  ASSUME NEW n \in Nat, NEW x, NEW s, NEW d
  PROVE  /\ DealtAs(x, s, d, n) => DealtAs(x, s, d, n + 1)
         /\ GradedAs(x, s, d, n) => GradedAs(x, s, d, n + 1)
<1>1. \A v : DealtAs(v, s, d, n) => DealtAs(v, s, d, n + 1)
  <2>1. 2..n \subseteq 2..(n + 1)
    OBVIOUS
  <2>. QED BY <2>1 DEF DealtAs
<1>. QED BY <1>1 DEF GradedAs

LEMMA WalkedOn ==
  ASSUME LogInv, ShapeInv, FitInv, NEW s \in Seat, NEW n \in 2..(Len(log) - 1),
         NEW w, Walked(w, s, n), NEW v, v = WalkStep(log, s, w, log[n + 1])
  PROVE  Walked(v, s, n + 1)
<1>. DEFINE e == log[n + 1]
            g == AfterOf(log, n)
            h == AfterOf(log, n + 1)
            r == RawAfter(log, n)
            q == RawAfter(log, n + 1)
            D == DealsBefore(log, n + 1)
<1>0. /\ IsLog(log) /\ Len(log) \in Nat /\ n \in Nat /\ n + 1 \in 1..Len(log)
      /\ n + 1 \in 3..Len(log) /\ (n + 1) - 1 = n /\ (n + 1) + 1 = n + 2
  BY LogFacts DEF LogInv
<1>1. h = Reduce(Target, g, e)
  BY <1>0, PrefixGoesOn
<1>2. q = Reduce(0, r, e)
  BY <1>0, PrefixFolds DEF RawAfter
<1>3. (Command(e) \/ FollowUp(e)) /\ Made(e)
  BY <1>0 DEF LogInv, Command, FollowUp
<1>4. May(Stage(log[n]), e) /\ ComesNext(g, e, ScoredCount(log, n + 1))
  BY <1>0 DEF ShapeInv, FitInv, FitsAt
<1>5. D \in Nat /\ DealsBefore(log, n + 2) = DealWith(D, e)
  BY <1>0, DealsGo
<1>. HIDE DEF e, g, h, r, q, D
<1>6. /\ IsWalk(w) /\ Held(w.haveHand, g, s, Stage(log[n])) /\ IsGame(r)
      /\ w.scores = r.scores /\ w.dealer = r.dealer /\ w.deal = D - 1
      /\ Len(w.deals) = IF w.haveHand THEN w.deal ELSE w.deal + 1
      /\ w.haveHand => DealtAs(w, s, w.deal, n)
      /\ \A j \in 1..Len(w.deals) : GradedAs(w.deals[j], s, j - 1, n)
  BY DEF Walked, g, r, D
<1>7. HeldGoes(w.haveHand, g, s, Stage(log[n]), e, h)
  BY <1>1, <1>3, <1>4, <1>6, HeldStep
<1>8. v = WalkStep(log, s, w, e)
  BY DEF e
<1>9. IsGame(q) /\ v.scores = q.scores /\ v.dealer = q.dealer
  BY <1>2, <1>3, <1>6, <1>8, WalkScores
<1>10. \A j \in 1..Len(w.deals) : GradedAs(w.deals[j], s, j - 1, n + 1)
  BY <1>0, <1>6, GradedStay
<1>11. w.haveHand \in BOOLEAN /\ IsLog(w.deals) /\ Len(w.deals) \in Nat
  BY <1>6, LogFacts DEF IsWalk
<1>12. ASSUME IsWalk(v), Held(v.haveHand, h, s, Stage(e)), v.deal = DealWith(D, e) - 1,
              Len(v.deals) = IF v.haveHand THEN v.deal ELSE v.deal + 1,
              v.haveHand => DealtAs(v, s, v.deal, n + 1),
              \A j \in 1..Len(v.deals) : GradedAs(v.deals[j], s, j - 1, n + 1)
       PROVE  Walked(v, s, n + 1)
  BY <1>0, <1>5, <1>9, <1>12 DEF Walked, h, q, e
<1>13. CASE e.type = "hand_dealt"
  <2>1. /\ IsWalk(v) /\ v.deals = w.deals /\ v.deal = w.deal + 1 /\ v.dealer = e.dealer
        /\ v.hand = e.hands[s] /\ v.haveHand /\ v.start = w.scores /\ v.scores = w.scores
    BY <1>6, <1>8, <1>13, WalkDeals
  <2>2. ~w.haveHand /\ Held(TRUE, h, s, "deal")
    BY <1>7, <1>13 DEF HeldGoes
  <2>3. v.haveHand = TRUE
    BY <2>1 DEF IsWalk
  <2>4. Held(v.haveHand, h, s, Stage(e))
    BY <1>13, <2>2, <2>3 DEF Stage
  <2>5. v.deal = D /\ DealWith(D, e) = D + 1
    BY <1>5, <1>6, <1>13, <2>1 DEF DealWith
  <2>6. Len(v.deals) = v.deal
    BY <1>5, <1>6, <2>1, <2>2, <2>5
  <2>7. DealtAs(v, s, v.deal, n + 1)
    <3>1. n + 1 \in 2..(n + 1)
      BY <1>0
    <3>2. v.start = q.scores
      BY <1>9, <2>1
    <3>. QED BY <1>13, <2>1, <2>5, <3>1, <3>2 DEF DealtAs, e, q, D
  <2>. QED BY <1>5, <1>10, <1>12, <2>1, <2>4, <2>5, <2>6, <2>7
<1>14. CASE e.type = "discarded" /\ e.seat = s
  <2>1. w.haveHand /\ Held(FALSE, h, s, "throw") /\ Stage(e) = "throw"
    BY <1>7, <1>14 DEF HeldGoes, Stage
  <2>. DEFINE x == AnalyzeDeal(w, s, e.cards, PlaysOf(log, s, w.deal))
              l == Len(w.deals)
  <2>. HIDE DEF x, l
  <2>2. IsWalk(v) /\ v.deals = Append(w.deals, x) /\ v.deal = w.deal /\ ~v.haveHand
    <3>1. e.type = "discarded" /\ e.seat = s /\ w.haveHand
      BY <1>14, <2>1
    <3>2. IsWalk(v) /\ v.deal = w.deal /\ ~v.haveHand
      <4>1. IsWalk(w)
        BY <1>6
      <4>2. v.deal = w.deal
        BY <1>8, <3>1, <4>1, WalkThrows
      <4>3. ~v.haveHand
        BY ONLY <1>8, <3>1, <4>1, WalkThrows
      <4>4. IsWalk(v)
        BY ONLY <1>8, <3>1, <4>1, WalkThrows
      <4>. QED BY <4>2, <4>3, <4>4
    <3>3. v.deals = Append(w.deals, AnalyzeDeal(w, s, e.cards, PlaysOf(log, s, w.deal)))
      BY <1>6, <1>8, <3>1, WalkThrows
    <3>. QED BY <3>2, <3>3 DEF x
  <2>3. v.haveHand = FALSE
    BY <2>2 DEF IsWalk
  <2>4. Held(v.haveHand, h, s, Stage(e)) /\ DealWith(D, e) = D
    BY <1>14, <2>1, <2>3 DEF DealWith
  <2>5. GradedAs(x, s, w.deal, n + 1)
    <3>1. DealtAs(w, s, w.deal, n + 1)
      BY <1>0, <1>6, <2>1, GradedStay
    <3>. QED BY <3>1 DEF GradedAs, x
  <2>6. /\ Len(v.deals) = l + 1 /\ v.deals[l + 1] = x
        /\ \A j \in 1..l : v.deals[j] = w.deals[j]
    BY <1>11, <2>2, LogGoesOn DEF l
  <2>7. l = w.deal /\ l \in Nat
    BY <1>6, <1>11, <2>1 DEF l
  <2>8. ASSUME NEW j \in 1..(l + 1) PROVE GradedAs(v.deals[j], s, j - 1, n + 1)
    <3>1. CASE j \in 1..l
      BY <1>10, <2>6, <3>1 DEF l
    <3>2. CASE j = l + 1
      <4>1. j - 1 = w.deal
        BY <2>7, <3>2
      <4>. QED BY <2>5, <2>6, <3>2, <4>1
    <3>. QED BY <2>7, <3>1, <3>2
  <2>. QED BY <1>6, <1>12, <2>2, <2>3, <2>4, <2>6, <2>7, <2>8
<1>15. CASE e.type # "hand_dealt" /\ ~(e.type = "discarded" /\ e.seat = s)
  <2>1. Held(w.haveHand, h, s, Stage(e)) /\ DealWith(D, e) = D
    BY <1>7, <1>15 DEF HeldGoes, DealWith
  <2>2. /\ IsWalk(v) /\ v.deals = w.deals /\ v.deal = w.deal /\ v.hand = w.hand
        /\ v.haveHand = w.haveHand /\ v.start = w.start /\ v.dealer = w.dealer
    <3>1. e.type # "hand_dealt" /\ ~(e.type = "discarded" /\ e.seat = s /\ w.haveHand)
      BY <1>15
    <3>2. /\ IsWalk(v) /\ v.deals = w.deals
          /\ v.deal = w.deal /\ v.dealer = w.dealer /\ v.hand = w.hand
          /\ v.haveHand = w.haveHand /\ v.start = w.start
      BY <1>6, <1>8, <3>1, WalkPasses
    <3>. QED BY <3>2
  <2>3. w.haveHand => DealtAs(v, s, v.deal, n + 1)
    <3>1. DealtAs(w, s, w.deal, n) => DealtAs(v, s, v.deal, n)
      BY <2>2 DEF DealtAs
    <3>. QED BY <1>0, <1>6, <3>1, GradedStay
  <2>. QED BY <1>6, <1>10, <1>12, <2>1, <2>2, <2>3
<1>. QED BY <1>13, <1>14, <1>15

LEMMA WalkOpens ==
  ASSUME LogInv, OpenInv, NEW s \in Seat,
         NEW u, u = WalkStep(log, s, BeforeWalk, log[1]), NEW w, w = WalkStep(log, s, u, log[2])
  PROVE  Walked(w, s, 2)
<1>1. PICK dl, hs : log[1] = CutForDeal(dl) /\ log[2] = HandDealt(dl, hs)
  BY DEF OpenInv
<1>2. log[1].type = "cut_for_deal" /\ log[2].type = "hand_dealt" /\ Stage(log[2]) = "deal"
  BY <1>1 DEF CutForDeal, HandDealt, Stage
<1>3. u = BeforeWalk
  BY <1>2 DEF WalkStep
<1>4. IsWalk(u) /\ u.deal = -1 /\ u.deals = <<>> /\ u.scores = [t \in Seat |-> 0]
  <2>1. IsWalk(u)
    BY <1>3, WalksAreWalks
  <2>2. u.deal = -1 /\ u.deals = <<>> /\ u.scores = [t \in Seat |-> 0]
    <3>1. /\ BeforeWalk.deal = -1 /\ BeforeWalk.deals = <<>>
          /\ BeforeWalk.scores = [t \in Seat |-> 0]
      BY DEF BeforeWalk
    <3>. QED BY <1>3, <3>1
  <2>. QED BY <2>1, <2>2
<1>5. /\ IsWalk(w) /\ w.deals = u.deals
      /\ w.deal = u.deal + 1 /\ w.dealer = log[2].dealer /\ w.hand = log[2].hands[s]
      /\ w.haveHand /\ w.start = u.scores /\ w.scores = u.scores
  BY <1>2, <1>4, WalkDeals
<1>6. w.deal = 0 /\ Len(w.deals) = 0 /\ w.haveHand = TRUE
  BY <1>4, <1>5 DEF IsWalk
<1>7. /\ IsLog(log) /\ Len(log) \in Nat /\ 0 + 1 = 1 /\ 0 + 1 \in 1..Len(log) /\ 1 + 1 = 2
      /\ 1 + 1 \in 1..Len(log)
  BY LogFacts DEF LogInv
<1>8. \A cap : /\ Folded(cap, SubSeq(log, 1, 0)) = Blank
               /\ Folded(cap, SubSeq(log, 1, 1)) = Reduce(cap, Blank, log[1])
               /\ Folded(cap, SubSeq(log, 1, 2)) = Reduce(cap, Folded(cap, SubSeq(log, 1, 1)), log[2])
  <2>1. TAKE cap
  <2>2. SubSeq(log, 1, 0) = <<>>
    BY <1>7
  <2>3. Folded(cap, SubSeq(log, 1, 0)) = Blank
    BY <2>2, FoldedOfNothing
  <2>4. Folded(cap, SubSeq(log, 1, 0 + 1)) = Reduce(cap, Folded(cap, SubSeq(log, 1, 0)), log[0 + 1])
    BY <1>7, PrefixFolds
  <2>5. Folded(cap, SubSeq(log, 1, 1 + 1)) = Reduce(cap, Folded(cap, SubSeq(log, 1, 1)), log[1 + 1])
    BY <1>7, PrefixFolds
  <2>. QED BY <2>3, <2>4, <2>5
<1>9. \A cap : Reduce(cap, Blank, log[1]) = [Blank EXCEPT !.dealer = dl]
  BY <1>1 DEF Reduce, CutForDeal
<1>10. \A cap : \A g : Reduce(cap, g, log[2])
                   = [Blank EXCEPT !.dealer = dl, !.hands = hs, !.scores = g.scores,
                                   !.lastPlayer = dl, !.winner = g.winner]
  BY <1>1 DEF Reduce, HandDealt
<1>. DEFINE b == [Blank EXCEPT !.dealer = dl]
            g == [Blank EXCEPT !.dealer = dl, !.hands = hs, !.scores = b.scores,
                               !.lastPlayer = dl, !.winner = b.winner]
<1>11. AfterOf(log, 2) = g /\ RawAfter(log, 2) = g
  <2>1. \A cap : Folded(cap, SubSeq(log, 1, 1)) = b
    BY <1>8, <1>9
  <2>2. \A cap : Reduce(cap, b, log[2]) = g
    BY <1>10
  <2>. HIDE DEF b, g
  <2>3. \A cap : Folded(cap, SubSeq(log, 1, 2)) = g
    BY <1>8, <2>1, <2>2
  <2>. QED BY <2>3 DEF AfterOf, RawAfter
<1>12. /\ IsGame(g) /\ HasFields(g) /\ g.scores = [t \in Seat |-> 0] /\ g.dealer = dl
       /\ g.phase = "discard" /\ g.thrown = Empty
  BY DEF Blank, IsGame, HasFields, Fields
<1>. HIDE DEF b, g
<1>13. Held(w.haveHand, AfterOf(log, 2), s, Stage(log[2]))
  BY <1>2, <1>6, <1>11, <1>12, EmptyFacts DEF Held
<1>14. DealsBefore(log, 2) = 0 /\ DealsBefore(log, 2 + 1) = 1
  <2>1. /\ DealsBefore(log, 0 + 2) = DealWith(DealsBefore(log, 0 + 1), log[0 + 1])
        /\ DealsBefore(log, 1 + 2) = DealWith(DealsBefore(log, 1 + 1), log[1 + 1])
        /\ DealsBefore(log, 1) = 0
    BY DealsGo
  <2>. QED BY <1>2, <2>1 DEF DealWith
<1>15. w.dealer = dl /\ log[2].dealer = dl
  BY <1>1, <1>5 DEF HandDealt
<1>16. DealtAs(w, s, w.deal, 2)
  <2>1. 2 \in 2..2 /\ w.start = RawAfter(log, 2).scores
    BY <1>4, <1>5, <1>11, <1>12
  <2>. QED BY <1>2, <1>5, <1>6, <1>14, <2>1 DEF DealtAs
<1>17. /\ w.scores = RawAfter(log, 2).scores /\ w.dealer = RawAfter(log, 2).dealer
       /\ IsGame(RawAfter(log, 2)) /\ w.deal = DealsBefore(log, 2 + 1) - 1
  BY <1>4, <1>5, <1>6, <1>11, <1>12, <1>14, <1>15
<1>18. \A j \in 1..Len(w.deals) : GradedAs(w.deals[j], s, j - 1, 2)
  BY <1>6
<1>. QED BY <1>5, <1>6, <1>13, <1>16, <1>17, <1>18 DEF Walked

LEMMA WalkedLog ==
  ASSUME LogInv, OpenInv, ShapeInv, FitInv, NEW s \in Seat
  PROVE  \E w : AnalyzedDeals(log, s) = w.deals /\ Walked(w, s, Len(log))
<1>. DEFINE l == Len(log)
<1>0. l \in Nat /\ l >= 2
  BY LogFacts DEF LogInv
<1>1. PICK f : /\ AnalyzedDeals(log, s) = f[l].deals /\ f[0] = BeforeWalk
               /\ \A n \in 0..(l - 1) : f[n + 1] = WalkStep(log, s, f[n], log[n + 1])
  BY <1>0, WalkUnfolds
<1>. DEFINE S == {n \in 2..l : Walked(f[n], s, n)}
<1>2. 2 \in S
  <2>1. 0 \in 0..(l - 1) /\ 1 \in 0..(l - 1) /\ 0 + 1 = 1 /\ 1 + 1 = 2 /\ 2 \in 2..l
    BY <1>0
  <2>2. f[0 + 1] = WalkStep(log, s, f[0], log[0 + 1]) /\ f[1 + 1] = WalkStep(log, s, f[1], log[1 + 1])
    BY <1>1, <2>1
  <2>3. f[1] = WalkStep(log, s, BeforeWalk, log[1]) /\ f[2] = WalkStep(log, s, f[1], log[2])
    BY <1>1, <2>1, <2>2
  <2>. QED BY <2>1, <2>3, WalkOpens
<1>3. \A n \in 2..(l - 1) : n \in S => n + 1 \in S
  <2>1. TAKE n \in 2..(l - 1)
  <2>2. HAVE n \in S
  <2>3. n \in 0..(l - 1) /\ n + 1 \in 2..l
    BY <1>0
  <2>4. f[n + 1] = WalkStep(log, s, f[n], log[n + 1])
    BY <1>1, <2>3
  <2>5. Walked(f[n + 1], s, n + 1)
    BY <2>2, <2>4, WalkedOn
  <2>. QED BY <2>3, <2>5
<1>4. l \in S
  <2>1. l \in 2..l
    BY <1>0
  <2>. HIDE DEF l, S
  <2>2. \A n \in 2..l : n \in S
    BY <1>0, <1>2, <1>3, UpFromTwo
  <2>. QED BY <2>1, <2>2
<1>. QED BY <1>1, <1>4

\* Later in the log no fewer hands have been dealt.
LEMMA DealsMount ==
  ASSUME NEW events, NEW a \in Nat, NEW b \in Nat, a <= b
  PROVE  DealsBefore(events, a + 1) <= DealsBefore(events, b + 1)
<1>. DEFINE x == {j \in 1..((a + 1) - 1) : events[j].type = "hand_dealt"}
            y == {j \in 1..((b + 1) - 1) : events[j].type = "hand_dealt"}
<1>1. x \subseteq y /\ y \subseteq 1..b
  OBVIOUS
<1>2. DealsBefore(events, a + 1) = Cardinality(x) /\ DealsBefore(events, b + 1) = Cardinality(y)
  BY DEF DealsBefore
<1>. HIDE DEF x, y
<1>3. IsFiniteSet(y)
  <2>1. IsFiniteSet(1..b)
    BY FS_Interval
  <2>. QED BY <1>1, <2>1, FS_Subset
<1>. QED BY <1>1, <1>2, <1>3, FS_Subset

\* So a hand is known by its number.
LEMMA DealsDiffer ==
  ASSUME NEW events, NEW p \in Nat \ {0}, NEW q \in Nat \ {0},
         events[p].type = "hand_dealt", events[q].type = "hand_dealt",
         DealsBefore(events, p) = DealsBefore(events, q)
  PROVE  p = q
<1>1. ASSUME NEW a \in Nat \ {0}, NEW b \in Nat \ {0}, a < b, events[a].type = "hand_dealt",
             DealsBefore(events, a) = DealsBefore(events, b)
      PROVE  FALSE
  <2>1. PICK c \in Nat, d \in Nat : a = c + 1 /\ b = d + 1
    <3>1. a - 1 \in Nat /\ b - 1 \in Nat /\ a = (a - 1) + 1 /\ b = (b - 1) + 1
      OBVIOUS
    <3>. QED BY <3>1
  <2>2. c + 1 <= d /\ (c + 1) + 1 = c + 2 /\ c + 1 \in Nat
    BY <1>1, <2>1
  <2>3. DealsBefore(events, c + 2) = DealsBefore(events, c + 1) + 1
    BY <1>1, <2>1, DealsGo DEF DealWith
  <2>4. DealsBefore(events, (c + 1) + 1) <= DealsBefore(events, d + 1)
    BY <2>2, DealsMount
  <2>5. DealsBefore(events, c + 1) \in Nat
    BY DealsGo
  <2>. QED BY <1>1, <2>1, <2>2, <2>3, <2>4, <2>5
<1>2. ~(p < q) /\ ~(q < p)
  BY <1>1
<1>. QED BY <1>2

\* The frames after the first are those that an event makes.
MadeAt(k, n) ==
  /\ n \in Nat \ {0} /\ MakesFrame(log[n])
  /\ FramedUpTo(n) + 1 = k /\ FramedUpTo(n - 1) + 1 = k - 1

LEMMA FramesAreMade ==
  ASSUME NEW l \in Nat, NEW k \in 2..(FramedUpTo(l) + 1)
  PROVE  \E n \in 1..l : MadeAt(k, n)
<1>. DEFINE G == {m \in Nat : \A j \in 2..(FramedUpTo(m) + 1) : \E n \in 1..m : MadeAt(j, n)}
<1>1. 0 \in G
  BY FramedGoes
<1>2. ASSUME NEW m \in G PROVE m + 1 \in G
  <2>1. FramedUpTo(m) \in Nat
    BY FramedGoes
  <2>2. \A j \in 2..(FramedUpTo(m) + 1) : \E n \in 1..(m + 1) : MadeAt(j, n)
    <3>1. 1..m \subseteq 1..(m + 1)
      OBVIOUS
    <3>. QED BY <3>1
  <2>3. CASE MakesFrame(log[m + 1])
    <3>1. FramedUpTo(m + 1) = FramedUpTo(m) + 1
      BY <2>3, FramedGoes
    <3>2. MadeAt(FramedUpTo(m) + 2, m + 1)
      <4>1. (m + 1) - 1 = m /\ m + 1 \in Nat \ {0}
        OBVIOUS
      <4>. QED BY <2>1, <2>3, <3>1, <4>1 DEF MadeAt
    <3>3. ASSUME NEW j \in 2..(FramedUpTo(m + 1) + 1) PROVE \E n \in 1..(m + 1) : MadeAt(j, n)
      <4>1. j \in 2..(FramedUpTo(m) + 1) \/ j = FramedUpTo(m) + 2
        BY <2>1, <3>1
      <4>2. m + 1 \in 1..(m + 1)
        OBVIOUS
      <4>. QED BY <2>2, <3>2, <4>1, <4>2
    <3>. QED BY <3>3
  <2>4. CASE ~MakesFrame(log[m + 1])
    <3>1. FramedUpTo(m + 1) = FramedUpTo(m)
      BY <2>4, FramedGoes
    <3>. QED BY <2>2, <3>1
  <2>. QED BY <2>3, <2>4
<1>3. G = Nat
  <2>. HIDE DEF G
  <2>1. G \in SUBSET Nat
    BY DEF G
  <2>. QED BY <1>1, <1>2, <2>1, InductionOverNat
<1>4. l \in G
  <2>. HIDE DEF G
  <2>. QED BY <1>3
<1>. QED BY <1>4

\* The hand a frame is of, and that of the frame before it.
LEMMA HandsOfFrames ==
  ASSUME NEW fr, LogInv, Film(fr, Len(log)), NEW n \in 1..Len(log)
  PROVE  /\ FramedUpTo(n) + 1 \in DOMAIN fr /\ FramedUpTo(n - 1) + 1 \in DOMAIN fr
         /\ fr[FramedUpTo(n) + 1].hand = DealsBefore(log, n + 1)
         /\ fr[FramedUpTo(n - 1) + 1].hand = DealsBefore(log, n)
<1>0. Len(log) \in Nat /\ DOMAIN fr = 1..Len(fr) /\ Len(fr) \in Nat
  BY LogFacts DEF LogInv, Film
<1>1. \A i \in 1..Len(log) : /\ FramedUpTo(i) + 1 \in DOMAIN fr
                             /\ fr[FramedUpTo(i) + 1].hand = DealsBefore(log, i + 1)
  BY <1>0 DEF Film, Pictures
<1>2. CASE n = 1
  <2>1. FramedUpTo(1 - 1) = 0 /\ DealsBefore(log, 1) = 0
    BY FramedGoes, DealsGo
  <2>2. fr[1] = FirstFrame /\ FirstFrame.hand = 0 /\ 1 \in DOMAIN fr
    <3>1. fr[1] = FirstFrame
      BY DEF Film
    <3>2. FirstFrame.hand = 0
      BY DEF FirstFrame
    <3>3. FramedUpTo(Len(log)) \in Nat
      BY <1>0, FramedGoes
    <3>. QED BY <1>0, <3>1, <3>2, <3>3 DEF Film
  <2>. QED BY <1>0, <1>1, <1>2, <2>1, <2>2
<1>3. CASE n # 1
  <2>1. n - 1 \in 1..Len(log) /\ (n - 1) + 1 = n
    BY <1>0, <1>3
  <2>. QED BY <1>1, <2>1
<1>. QED BY <1>2, <1>3

\* The start of the hand that is dealt with the event p.
StartOf(p) == [hand |-> DealsBefore(log, p) + 1, index |-> FramedUpTo(p) + 1]

LEMMA StartsAre ==
  ASSUME NEW fr, LogInv, Film(fr, Len(log))
  PROVE  /\ \A st \in HandStarts(fr) :
              \E p \in 1..Len(log) : log[p].type = "hand_dealt" /\ st = StartOf(p)
         /\ \A p \in 1..Len(log) : log[p].type = "hand_dealt" => StartOf(p) \in HandStarts(fr)
<1>0. /\ Len(log) \in Nat /\ DOMAIN fr = 1..Len(fr) /\ Len(fr) = FramedUpTo(Len(log)) + 1
      /\ FramedUpTo(Len(log)) \in Nat /\ fr[1] = FirstFrame
  BY LogFacts, FramedGoes DEF LogInv, Film
<1>. DEFINE J == {j \in DOMAIN fr : fr[j].hand > 0 /\ (j = 1 \/ fr[j - 1].hand # fr[j].hand)}
<1>1. HandStarts(fr) = {[hand |-> fr[i].hand, index |-> i] : i \in J}
  BY DEF HandStarts
<1>2. \A n \in 1..Len(log) :
        /\ DealsBefore(log, n) \in Nat
        /\ DealsBefore(log, n + 1) = DealWith(DealsBefore(log, n), log[n])
  <2>1. TAKE n \in 1..Len(log)
  <2>2. n - 1 \in Nat /\ (n - 1) + 1 = n /\ (n - 1) + 2 = n + 1
    BY <1>0
  <2>3. /\ DealsBefore(log, (n - 1) + 1) \in Nat
        /\ DealsBefore(log, (n - 1) + 2) = DealWith(DealsBefore(log, (n - 1) + 1), log[(n - 1) + 1])
    BY <2>2, DealsGo
  <2>. QED BY <2>2, <2>3
<1>3. ASSUME NEW i \in J
      PROVE  \E p \in 1..Len(log) : /\ log[p].type = "hand_dealt"
                                    /\ [hand |-> fr[i].hand, index |-> i] = StartOf(p)
  <2>1. i # 1
    <3>1. FirstFrame.hand = 0
      BY DEF FirstFrame
    <3>. QED BY <1>0, <3>1
  <2>2. i \in 2..(FramedUpTo(Len(log)) + 1)
    BY <1>0, <2>1
  <2>3. PICK n \in 1..Len(log) : MadeAt(i, n)
    BY <1>0, <2>2, FramesAreMade
  <2>4. FramedUpTo(n) + 1 = i /\ FramedUpTo(n - 1) + 1 = i - 1
    BY <2>3 DEF MadeAt
  <2>5. fr[i].hand = DealsBefore(log, n + 1) /\ fr[i - 1].hand = DealsBefore(log, n)
    BY <2>4, HandsOfFrames
  <2>6. log[n].type = "hand_dealt" /\ fr[i].hand = DealsBefore(log, n) + 1
    BY <1>2, <2>1, <2>5 DEF DealWith
  <2>. QED BY <2>4, <2>6 DEF StartOf
<1>4. ASSUME NEW p \in 1..Len(log), log[p].type = "hand_dealt"
      PROVE  StartOf(p) \in HandStarts(fr)
  <2>. DEFINE i == FramedUpTo(p) + 1
  <2>1. MakesFrame(log[p])
    BY <1>4 DEF MakesFrame, WireType, Framed
  <2>2. p - 1 \in Nat /\ (p - 1) + 1 = p
    BY <1>0
  <2>3. FramedUpTo(p) = FramedUpTo(p - 1) + 1 /\ FramedUpTo(p - 1) \in Nat
    <3>1. /\ FramedUpTo(p - 1) \in Nat
          /\ FramedUpTo((p - 1) + 1) = IF MakesFrame(log[(p - 1) + 1]) THEN FramedUpTo(p - 1) + 1
                                                                       ELSE FramedUpTo(p - 1)
      BY <2>2, FramedGoes
    <3>. QED BY <2>1, <2>2, <3>1
  <2>4. i - 1 = FramedUpTo(p - 1) + 1
    BY <2>3
  <2>5. /\ i \in DOMAIN fr /\ fr[i].hand = DealsBefore(log, p + 1)
        /\ fr[i - 1].hand = DealsBefore(log, p)
    BY <2>4, HandsOfFrames
  <2>6. fr[i].hand = DealsBefore(log, p) + 1 /\ DealsBefore(log, p) \in Nat
    BY <1>2, <1>4, <2>5 DEF DealWith
  <2>. HIDE DEF i
  <2>7. i \in J
    BY <2>5, <2>6
  <2>8. StartOf(p) = [hand |-> fr[i].hand, index |-> i]
    BY <2>6 DEF StartOf, i
  <2>. QED BY <1>1, <2>7, <2>8
<1>. HIDE DEF J
<1>. QED BY <1>1, <1>3, <1>4

\* The rail jumps to the frame of the hand it names.
LEMMA RailJumps ==
  ASSUME NEW fr, LogInv, Film(fr, Len(log)), NEW p \in 1..Len(log), log[p].type = "hand_dealt"
  PROVE  FrameIndexForDeal(HandStarts(fr), DealsBefore(log, p)) = FramedUpTo(p) + 1
<1>. DEFINE starts == HandStarts(fr)
            d      == DealsBefore(log, p)
            st     == CHOOSE x \in starts : x.hand = d + 1
<1>0. Len(log) \in Nat
  BY LogFacts DEF LogInv
<1>1. StartOf(p) \in starts /\ StartOf(p).hand = d + 1
  BY StartsAre DEF StartOf
<1>. HIDE DEF starts
<1>2. st \in starts /\ st.hand = d + 1
  <2>. HIDE DEF d
  <2>. QED BY <1>1
<1>. HIDE DEF st
<1>3. PICK q \in 1..Len(log) : log[q].type = "hand_dealt" /\ st = StartOf(q)
  BY <1>2, StartsAre DEF starts
<1>4. DealsBefore(log, q) = DealsBefore(log, p)
  <2>1. q - 1 \in Nat /\ p - 1 \in Nat /\ (q - 1) + 1 = q /\ (p - 1) + 1 = p
    BY <1>0
  <2>3. DealsBefore(log, (q - 1) + 1) \in Nat /\ DealsBefore(log, (p - 1) + 1) \in Nat
    BY <2>1, DealsGo
  <2>2. DealsBefore(log, q) + 1 = DealsBefore(log, p) + 1
    BY <1>2, <1>3 DEF StartOf, d
  <2>. QED BY <2>1, <2>2, <2>3
<1>5. q = p
  BY <1>0, <1>3, <1>4, DealsDiffer
<1>6. st.index = FramedUpTo(p) + 1
  BY <1>3, <1>5 DEF StartOf
<1>. QED BY <1>6 DEF FrameIndexForDeal, st, starts, d

\* What a hand dealt makes of the game.
LEMMA DealtThere ==
  ASSUME LogInv, OpenInv, NEW p \in 2..Len(log), log[p].type = "hand_dealt"
  PROVE  /\ AfterOf(log, p).dealer = log[p].dealer /\ AfterOf(log, p).hands = log[p].hands
         /\ AfterOf(log, p).thrown = Empty
<1>0. /\ IsLog(log) /\ Len(log) \in Nat /\ p - 1 \in Nat /\ (p - 1) + 1 = p
      /\ (p - 1) + 1 \in 1..Len(log)
  BY LogFacts DEF LogInv
<1>1. \E dl, hs : log[p] = HandDealt(dl, hs)
  <2>1. CASE p = 2
    BY <2>1 DEF OpenInv
  <2>2. CASE p # 2
    <3>1. p \in 3..Len(log)
      BY <2>2
    <3>2. Made(log[p])
      BY <3>1 DEF LogInv, Command, FollowUp
    <3>. QED BY <3>2, DealForm
  <2>. QED BY <2>1, <2>2
<1>2. PICK dl, hs : log[p] = HandDealt(dl, hs)
  BY <1>1
<1>3. AfterOf(log, (p - 1) + 1) = Reduce(Target, AfterOf(log, p - 1), log[(p - 1) + 1])
  BY <1>0, PrefixGoesOn
<1>4. AfterOf(log, p) = Reduce(Target, AfterOf(log, p - 1), HandDealt(dl, hs))
  BY <1>0, <1>2, <1>3
<1>5. \A g : LET h == Reduce(Target, g, HandDealt(dl, hs))
             IN  h.dealer = dl /\ h.hands = hs /\ h.thrown = Empty
  BY DEF Reduce, HandDealt, Blank
<1>6. log[p].dealer = dl /\ log[p].hands = hs
  BY <1>2 DEF HandDealt
<1>. QED BY <1>4, <1>5, <1>6

\* Of a finished game the walk has graded every deal.
LEMMA FinishedWalk ==
  ASSUME GameLogInv, winner # NoSeat, NEW s \in Seat, NEW deals, deals = AnalyzedDeals(log, s)
  PROVE  /\ IsLog(deals) /\ Len(deals) = DealsBefore(log, Len(log) + 1)
         /\ \A j \in 1..Len(deals) : GradedAs(deals[j], s, j - 1, Len(log))
<1>1. LogInv /\ OpenInv /\ ShapeInv /\ FitInv /\ GameInv /\ TellInv
  BY DEF GameLogInv, LogSide
<1>2. PICK w : deals = w.deals /\ Walked(w, s, Len(log))
  BY <1>1, WalkedLog
<1>3. AfterOf(log, Len(log)).phase = "complete"
  BY <1>1, WholeLog DEF WholeTold
<1>4. ~w.haveHand
  BY <1>2, <1>3 DEF Walked, Held
<1>5. Len(log) \in Nat /\ DealsBefore(log, Len(log) + 1) \in Nat
  BY <1>1, LogFacts, DealsGo DEF LogInv
<1>6. Len(w.deals) = w.deal + 1 /\ w.deal = DealsBefore(log, Len(log) + 1) - 1
  BY <1>2, <1>4 DEF Walked
<1>. QED BY <1>2, <1>5, <1>6 DEF Walked, IsWalk

\* The frame the rail jumps to for a deal is that of the deal.
JumpsThere(fr, x, s, d) ==
  LET f == fr[FrameIndexForDeal(HandStarts(fr), x.deal)]
  IN  /\ x.deal = d /\ f.dealer = x.dealer /\ f.hands[s] = x.hand
      /\ f.scores = x.startScores /\ f.crib = {}

LEMMA RailFrame ==
  ASSUME GameLogInv, EvenInv, NEW fr, Film(fr, Len(log)), NEW s \in Seat, NEW d, NEW x,
         GradedAs(x, s, d, Len(log))
  PROVE  JumpsThere(fr, x, s, d)
<1>1. LogInv /\ OpenInv /\ Len(log) \in Nat
  BY LogFacts DEF GameLogInv, LogSide, LogInv
<1>2. PICK v, throw : x = AnalyzeDeal(v, s, throw, PlaysOf(log, s, d)) /\ DealtAs(v, s, d, Len(log))
  BY DEF GradedAs
<1>3. x.deal = v.deal /\ x.dealer = v.dealer /\ x.hand = v.hand /\ x.startScores = v.start
  BY <1>2 DEF AnalyzeDeal
<1>4. PICK p \in 2..Len(log) :
        /\ log[p].type = "hand_dealt" /\ DealsBefore(log, p) = d
        /\ v.deal = d /\ v.dealer = log[p].dealer /\ v.hand = log[p].hands[s]
        /\ v.start = RawAfter(log, p).scores
  BY <1>2 DEF DealtAs
<1>. DEFINE f == fr[FramedUpTo(p) + 1]
            g == AfterOf(log, p)
<1>5. p \in 1..Len(log)
  BY <1>1
<1>6. FrameIndexForDeal(HandStarts(fr), x.deal) = FramedUpTo(p) + 1
  BY <1>1, <1>3, <1>4, <1>5, RailJumps
<1>7. Pictures(f, g, DealsBefore(log, p + 1))
  BY <1>5 DEF Film
<1>8. g.dealer = log[p].dealer /\ g.hands = log[p].hands /\ g.thrown = Empty
  BY <1>1, <1>4, DealtThere
<1>9. g.scores = v.start
  BY <1>4 DEF EvenInv
<1>10. g.thrown[0] \cup g.thrown[1] = {}
  BY <1>8, EmptyFacts DEF Seat
<1>. HIDE DEF g
<1>11. f.dealer = g.dealer /\ f.hands = g.hands /\ f.scores = g.scores
       /\ f.crib = g.thrown[0] \cup g.thrown[1]
  BY <1>7 DEF Pictures
<1>. HIDE DEF f
<1>12. f.dealer = x.dealer /\ f.hands[s] = x.hand /\ f.scores = x.startScores /\ f.crib = {}
  BY <1>3, <1>4, <1>8, <1>9, <1>10, <1>11
<1>. QED BY <1>3, <1>4, <1>6, <1>12 DEF f, JumpsThere

LEMMA RailOfFilm ==
  ASSUME GameLogInv, EvenInv, winner # NoSeat
  PROVE  RailLinesUp
<1>. DEFINE fr == Frames
            starts == HandStarts(fr)
<1>1. Film(fr, Len(log)) /\ LogInv /\ Len(log) \in Nat
  BY FramesFilm, LogFacts DEF GameLogInv, LogSide, LogInv
<1>. HIDE DEF fr
<1>2. ASSUME NEW s \in Seat
      PROVE  LET deals == AnalyzeGame(log, s).deals
             IN  /\ {st.hand : st \in starts} = {deals[i].deal + 1 : i \in DOMAIN deals}
                 /\ \A i \in DOMAIN deals :
                      LET f == fr[FrameIndexForDeal(starts, deals[i].deal)]
                      IN  /\ f.dealer = deals[i].dealer
                          /\ f.hands[s] = deals[i].hand
                          /\ f.scores = deals[i].startScores
                          /\ f.crib = {}
  <2>1. PICK deals : deals = AnalyzedDeals(log, s)
    OBVIOUS
  <2>2. AnalyzeGame(log, s).deals = deals
    BY <2>1 DEF AnalyzeGame
  <2>. DEFINE l == Len(deals)
  <2>3. /\ DOMAIN deals = 1..l /\ l \in Nat /\ l = DealsBefore(log, Len(log) + 1)
        /\ \A j \in 1..l : GradedAs(deals[j], s, j - 1, Len(log))
    BY <2>1, FinishedWalk, LogFacts
  <2>4. \A j \in 1..l : LET f == fr[FrameIndexForDeal(starts, deals[j].deal)]
                        IN  /\ deals[j].deal = j - 1 /\ f.dealer = deals[j].dealer
                            /\ f.hands[s] = deals[j].hand
                            /\ f.scores = deals[j].startScores /\ f.crib = {}
    <3>1. \A j \in 1..l : JumpsThere(fr, deals[j], s, j - 1)
      BY <1>1, <2>3, RailFrame
    <3>. QED BY <3>1 DEF JumpsThere
  <2>. HIDE DEF l
  <2>5. \A j \in 1..l : deals[j].deal + 1 = j
    BY <2>3, <2>4
  <2>6. {deals[i].deal + 1 : i \in DOMAIN deals} = 1..l
    <3>1. \A i \in 1..l : deals[i].deal + 1 \in 1..l
      BY <2>5
    <3>. QED BY <2>3, <2>5, <3>1
  <2>7. ASSUME NEW st \in starts PROVE st.hand \in 1..l
    <3>1. PICK p \in 1..Len(log) : log[p].type = "hand_dealt" /\ st = StartOf(p)
      BY <1>1, StartsAre
    <3>2. PICK q \in Nat : p = q + 1 /\ q + 1 <= Len(log)
      <4>1. p - 1 \in Nat /\ p = (p - 1) + 1 /\ (p - 1) + 1 <= Len(log)
        BY <1>1
      <4>. QED BY <4>1
    <3>3. DealsBefore(log, q + 1) \in Nat /\ DealsBefore(log, q + 2) = DealsBefore(log, q + 1) + 1
      BY <3>1, <3>2, DealsGo DEF DealWith
    <3>4. DealsBefore(log, (q + 1) + 1) <= DealsBefore(log, Len(log) + 1)
      <4>1. q + 1 \in Nat /\ Len(log) \in Nat /\ q + 1 <= Len(log)
        BY <1>1, <3>2
      <4>. QED BY ONLY <4>1, DealsMount
    <3>5. (q + 1) + 1 = q + 2
      OBVIOUS
    <3>6. st.hand = DealsBefore(log, q + 1) + 1
      BY <3>1, <3>2 DEF StartOf
    <3>. QED BY <2>3, <3>3, <3>4, <3>5, <3>6
  <2>8. ASSUME NEW j \in 1..l PROVE \E st \in starts : st.hand = j
    <3>1. PICK v, throw : deals[j] = AnalyzeDeal(v, s, throw, PlaysOf(log, s, j - 1))
                          /\ DealtAs(v, s, j - 1, Len(log))
      BY <2>3 DEF GradedAs
    <3>2. PICK p \in 2..Len(log) : log[p].type = "hand_dealt" /\ DealsBefore(log, p) = j - 1
      BY <3>1 DEF DealtAs
    <3>3. p \in 1..Len(log) /\ (j - 1) + 1 = j
      BY <1>1, <2>3
    <3>4. StartOf(p) \in starts
      BY <1>1, <3>2, <3>3, StartsAre
    <3>5. StartOf(p).hand = j
      BY <3>2, <3>3 DEF StartOf
    <3>. QED BY <3>4, <3>5
  <2>. HIDE DEF starts
  <2>9. {st.hand : st \in starts} = 1..l
    BY <2>7, <2>8
  <2>10. \A i \in DOMAIN deals :
           LET f == fr[FrameIndexForDeal(starts, deals[i].deal)]
           IN  /\ f.dealer = deals[i].dealer
               /\ f.hands[s] = deals[i].hand
               /\ f.scores = deals[i].startScores
               /\ f.crib = {}
    BY ONLY <2>3, <2>4
  <2>11. {st.hand : st \in starts} = {deals[i].deal + 1 : i \in DOMAIN deals}
    BY ONLY <2>3, <2>6, <2>9
  <2>. QED BY ONLY <2>2, <2>10, <2>11
<1>. QED BY <1>2 DEF RailLinesUp, fr

-----------------------------------------------------------------------------
(***************************************************************************)
(* The plays listed under a deal, and the marks: what an engine's summary  *)
(* counts is what its marks show.                                          *)
(***************************************************************************)
\* plays are those the seat s made in the deal d, and had a choice, among the
\* first n events.
PlaysMade(plays, s, d, n) ==
  /\ IsLog(plays)
  /\ \A j \in 1..Len(plays) : \E i \in 1..n : ChosenIn(log, s, d, i) /\ plays[j] = Decision(log, i)
  /\ \A i \in 1..n : ChosenIn(log, s, d, i) => \E j \in 1..Len(plays) : plays[j] = Decision(log, i)

LEMMA PlaysGoOn ==
  ASSUME NEW plays, NEW s, NEW d, NEW n \in Nat, PlaysMade(plays, s, d, n)
  PROVE  PlaysMade(AddPlay(log, s, d, plays, n + 1), s, d, n + 1)
<1>. DEFINE k == n + 1
<1>0. 1..n \subseteq 1..k /\ k \in 1..k /\ \A i \in 1..k : i \in 1..n \/ i = k
  OBVIOUS
<1>1. CASE ~ChosenIn(log, s, d, k)
  <2>1. AddPlay(log, s, d, plays, k) = plays
    BY <1>1 DEF AddPlay
  <2>. HIDE DEF k
  <2>2. \A j \in 1..Len(plays) : \E i \in 1..k : ChosenIn(log, s, d, i) /\ plays[j] = Decision(log, i)
    BY <1>0 DEF PlaysMade
  <2>3. \A i \in 1..k : ChosenIn(log, s, d, i) => \E j \in 1..Len(plays) : plays[j] = Decision(log, i)
    BY <1>0, <1>1 DEF PlaysMade
  <2>4. PlaysMade(plays, s, d, k)
    BY <2>2, <2>3 DEF PlaysMade
  <2>. QED BY <2>1, <2>4 DEF k
<1>2. CASE ChosenIn(log, s, d, k)
  <2>1. PICK more : more = Append(plays, Decision(log, k))
    OBVIOUS
  <2>2. AddPlay(log, s, d, plays, k) = more
    BY <1>2, <2>1 DEF AddPlay
  <2>3. /\ IsLog(more) /\ Len(more) = Len(plays) + 1 /\ more[Len(plays) + 1] = Decision(log, k)
        /\ \A j \in 1..Len(plays) : more[j] = plays[j]
    BY <2>1, LogGoesOn DEF PlaysMade
  <2>4. Len(plays) \in Nat
    BY LogFacts DEF PlaysMade
  <2>5. /\ 1..Len(plays) \subseteq 1..Len(more) /\ Len(plays) + 1 \in 1..Len(more)
        /\ \A j \in 1..Len(more) : j \in 1..Len(plays) \/ j = Len(plays) + 1
    BY <2>3, <2>4
  <2>. HIDE DEF k
  <2>6. \A j \in 1..Len(more) : \E i \in 1..k : ChosenIn(log, s, d, i) /\ more[j] = Decision(log, i)
    BY <1>0, <1>2, <2>3, <2>5 DEF PlaysMade
  <2>7. \A i \in 1..k : ChosenIn(log, s, d, i) => \E j \in 1..Len(more) : more[j] = Decision(log, i)
    BY <1>0, <2>3, <2>5 DEF PlaysMade
  <2>8. PlaysMade(more, s, d, k)
    BY <2>3, <2>6, <2>7 DEF PlaysMade
  <2>. QED BY <2>2, <2>8 DEF k
<1>. QED BY <1>1, <1>2

LEMMA PlaysAre ==
  ASSUME Len(log) \in Nat, NEW s, NEW d
  PROVE  PlaysMade(PlaysOf(log, s, d), s, d, Len(log))
<1>. DEFINE l == Len(log)
<1>1. PICK f : /\ PlaysOf(log, s, d) = f[l] /\ f[0] = <<>>
               /\ \A n \in 0..(l - 1) : f[n + 1] = AddPlay(log, s, d, f[n], n + 1)
  BY PlaysUnfold
<1>. DEFINE G == {n \in Nat : n <= l => PlaysMade(f[n], s, d, n)}
<1>2. 0 \in G
  <2>1. IsLog(<<>>)
    BY LogOfOne
  <2>2. 1..Len(<<>>) = {} /\ 1..0 = {}
    OBVIOUS
  <2>3. PlaysMade(<<>>, s, d, 0)
    BY <2>1, <2>2 DEF PlaysMade
  <2>. QED BY <1>1, <2>3
<1>3. ASSUME NEW n \in G PROVE n + 1 \in G
  <2>1. CASE n + 1 <= l
    <3>1. n \in 0..(l - 1) /\ n <= l /\ n \in Nat
      BY <2>1
    <3>2. f[n + 1] = AddPlay(log, s, d, f[n], n + 1)
      BY <1>1, <3>1
    <3>3. PlaysMade(f[n], s, d, n)
      BY <1>3, <3>1
    <3>4. PlaysMade(f[n + 1], s, d, n + 1)
      BY <3>1, <3>2, <3>3, PlaysGoOn
    <3>. QED BY <3>1, <3>4
  <2>2. CASE ~(n + 1 <= l)
    BY <2>2
  <2>. QED BY <2>1, <2>2
<1>4. G = Nat
  <2>. HIDE DEF G
  <2>1. G \in SUBSET Nat
    BY DEF G
  <2>. QED BY <1>2, <1>3, <2>1, InductionOverNat
<1>5. PlaysMade(f[l], s, d, l)
  <2>1. l \in G
    <3>. HIDE DEF G
    <3>. QED BY <1>4
  <2>. QED BY <2>1
<1>. QED BY <1>1, <1>5

\* Every play of a deal is a choice of the engine's.
AllOptimal(x, e) == \A j \in 1..Len(x.plays) : e \in x.plays[j].optimal

\* What an engine's summary tells after n deals.
Tallied(t, deals, e, n) ==
  /\ \E a, b, c, m : t = [hands |-> a, optimalDiscards |-> b, playDecisions |-> c, optimalPlays |-> m]
  /\ t.hands = n /\ t.optimalDiscards \in 0..n
  /\ t.optimalDiscards = n <=> \A i \in 1..n : e \in deals[i].discardOptimal
  /\ t.playDecisions \in Nat /\ t.optimalPlays \in 0..t.playDecisions
  /\ t.optimalPlays = t.playDecisions <=> \A i \in 1..n : AllOptimal(deals[i], e)

LEMMA PlaysCount ==
  ASSUME NEW x, IsLog(x.plays), NEW e
  PROVE  LET m == Cardinality({j \in DOMAIN x.plays : e \in x.plays[j].optimal})
         IN  /\ Len(x.plays) \in Nat /\ m \in 0..Len(x.plays)
             /\ m = Len(x.plays) <=> AllOptimal(x, e)
<1>. DEFINE l == Len(x.plays)
            S == {j \in DOMAIN x.plays : e \in x.plays[j].optimal}
<1>1. l \in Nat /\ DOMAIN x.plays = 1..l
  BY LogFacts
<1>. HIDE DEF l
<1>2. S \in SUBSET (1..l) /\ (S = 1..l <=> AllOptimal(x, e))
  BY <1>1 DEF AllOptimal, l
<1>. HIDE DEF S
<1>3. IsFiniteSet(1..l) /\ Cardinality(1..l) = l
  BY <1>1, FS_Interval
<1>4. IsFiniteSet(S) /\ Cardinality(S) <= l /\ (l = Cardinality(S) => 1..l = S)
  BY <1>2, <1>3, FS_Subset
<1>5. Cardinality(S) \in Nat
  BY <1>4, FS_CardinalityType
<1>6. Cardinality(S) \in 0..l /\ (Cardinality(S) = l <=> AllOptimal(x, e))
  BY <1>1, <1>2, <1>3, <1>4, <1>5
<1>. QED BY <1>1, <1>6 DEF S, l

LEMMA TallyGoesOn ==
  ASSUME NEW deals, NEW e, NEW n \in Nat, IsLog(deals[n + 1].plays), NEW t, Tallied(t, deals, e, n)
  PROVE  Tallied(AddVerdicts(t, deals[n + 1], e), deals, e, n + 1)
<1>. DEFINE x == deals[n + 1]
            m == Cardinality({j \in DOMAIN x.plays : e \in x.plays[j].optimal})
            l == Len(x.plays)
            o == IF e \in x.discardOptimal THEN 1 ELSE 0
<1>1. l \in Nat /\ m \in 0..l /\ (m = l <=> AllOptimal(x, e))
  BY PlaysCount
<1>2. PICK v : v = AddVerdicts(t, x, e)
  OBVIOUS
<1>3. v = [t EXCEPT !.hands = @ + 1, !.optimalDiscards = @ + o, !.playDecisions = @ + l,
                    !.optimalPlays = @ + m]
  BY <1>2 DEF AddVerdicts
<1>4. o \in {0, 1} /\ (o = 1 <=> e \in x.discardOptimal)
  OBVIOUS
<1>5. \A i : i \in 1..(n + 1) <=> i \in 1..n \/ i = n + 1
  OBVIOUS
<1>6. /\ (\A i \in 1..(n + 1) : e \in deals[i].discardOptimal)
           <=> (\A i \in 1..n : e \in deals[i].discardOptimal) /\ e \in x.discardOptimal
      /\ (\A i \in 1..(n + 1) : AllOptimal(deals[i], e))
           <=> (\A i \in 1..n : AllOptimal(deals[i], e)) /\ AllOptimal(x, e)
  BY <1>5
<1>. HIDE DEF x, m, l, o
<1>7. \E a, b, c, d : v = [hands |-> a, optimalDiscards |-> b, playDecisions |-> c, optimalPlays |-> d]
  BY <1>3 DEF Tallied
<1>8. /\ v.hands = t.hands + 1 /\ v.optimalDiscards = t.optimalDiscards + o
      /\ v.playDecisions = t.playDecisions + l /\ v.optimalPlays = t.optimalPlays + m
  BY <1>3 DEF Tallied
<1>9. v.hands = n + 1 /\ v.optimalDiscards \in 0..(n + 1)
  BY <1>4, <1>8 DEF Tallied
<1>10. v.optimalDiscards = n + 1 <=> t.optimalDiscards = n /\ o = 1
  BY <1>4, <1>8 DEF Tallied
<1>11. v.playDecisions \in Nat /\ v.optimalPlays \in 0..v.playDecisions
  BY <1>1, <1>8 DEF Tallied
<1>12. v.optimalPlays = v.playDecisions <=> t.optimalPlays = t.playDecisions /\ m = l
  BY <1>1, <1>8 DEF Tallied
<1>13. v.optimalDiscards = n + 1 <=> \A i \in 1..(n + 1) : e \in deals[i].discardOptimal
  BY <1>4, <1>6, <1>10 DEF Tallied
<1>14. v.optimalPlays = v.playDecisions <=> \A i \in 1..(n + 1) : AllOptimal(deals[i], e)
  BY <1>1, <1>6, <1>12 DEF Tallied
<1>15. Tallied(v, deals, e, n + 1)
  BY <1>7, <1>9, <1>11, <1>13, <1>14 DEF Tallied
<1>. QED BY <1>2, <1>15 DEF x

LEMMA SummaryTells ==
  ASSUME NEW deals, Len(deals) \in Nat, \A i \in 1..Len(deals) : IsLog(deals[i].plays), NEW e
  PROVE  Tallied(Summary(deals, e), deals, e, Len(deals))
<1>. DEFINE l == Len(deals)
<1>1. PICK f : /\ Summary(deals, e) = f[l] /\ f[0] = NoVerdicts
               /\ \A n \in 0..(l - 1) : f[n + 1] = AddVerdicts(f[n], deals[n + 1], e)
  BY SummaryUnfolds
<1>. DEFINE G == {n \in Nat : n <= l => Tallied(f[n], deals, e, n)}
<1>2. 0 \in G
  <2>1. PICK t : t = NoVerdicts
    OBVIOUS
  <2>2. /\ t = [hands |-> 0, optimalDiscards |-> 0, playDecisions |-> 0, optimalPlays |-> 0]
        /\ t.hands = 0 /\ t.optimalDiscards = 0 /\ t.playDecisions = 0 /\ t.optimalPlays = 0
    BY <2>1 DEF NoVerdicts
  <2>3. \A i : i \notin 1..0
    OBVIOUS
  <2>4. 0 \in 0..0 /\ 0 \in Nat
    OBVIOUS
  <2>5. Tallied(t, deals, e, 0)
    BY <2>2, <2>3, <2>4 DEF Tallied
  <2>. QED BY <1>1, <2>1, <2>5
<1>3. ASSUME NEW n \in G PROVE n + 1 \in G
  <2>1. CASE n + 1 <= l
    <3>1. n \in 0..(l - 1) /\ n <= l /\ n \in Nat /\ n + 1 \in 1..l
      BY <2>1
    <3>2. f[n + 1] = AddVerdicts(f[n], deals[n + 1], e)
      BY <1>1, <3>1
    <3>3. Tallied(f[n], deals, e, n)
      BY <1>3, <3>1
    <3>4. IsLog(deals[n + 1].plays)
      BY <3>1
    <3>5. Tallied(f[n + 1], deals, e, n + 1)
      BY <3>1, <3>2, <3>3, <3>4, TallyGoesOn
    <3>. QED BY <3>1, <3>5
  <2>2. CASE ~(n + 1 <= l)
    BY <2>2
  <2>. QED BY <2>1, <2>2
<1>4. G = Nat
  <2>. HIDE DEF G
  <2>1. G \in SUBSET Nat
    BY DEF G
  <2>. QED BY <1>2, <1>3, <2>1, InductionOverNat
<1>5. Tallied(f[l], deals, e, l)
  <2>1. l \in G
    <3>. HIDE DEF G
    <3>. QED BY <1>4
  <2>. QED BY <2>1
<1>. QED BY <1>1, <1>5

\* A deal of the analysis of a finished game, as it is listed.
Listed(x, s, d) ==
  /\ IsLog(x.plays)
  /\ \A e \in Engines : e \in x.peggingOptimal <=> AllOptimal(x, e)
  /\ \A j \in 1..Len(x.plays) : \E i \in 1..Len(log) :
       ChosenIn(log, s, d, i) /\ x.plays[j] = GradedPlay(Decision(log, i))
  /\ \A i \in 1..Len(log) : ChosenIn(log, s, d, i) =>
       \E j \in 1..Len(x.plays) : x.plays[j] = GradedPlay(Decision(log, i))

LEMMA GradedIsListed ==
  ASSUME Len(log) \in Nat, NEW x, NEW s, NEW d, GradedAs(x, s, d, Len(log))
  PROVE  Listed(x, s, d) /\ x.deal = d
<1>1. PICK v, throw : x = AnalyzeDeal(v, s, throw, PlaysOf(log, s, d)) /\ DealtAs(v, s, d, Len(log))
  BY DEF GradedAs
<1>2. PICK decs : decs = PlaysOf(log, s, d)
  OBVIOUS
<1>3. PlaysMade(decs, s, d, Len(log))
  BY <1>2, PlaysAre
<1>. DEFINE plays == [j \in DOMAIN decs |-> GradedPlay(decs[j])]
<1>4. x.plays = plays /\ x.deal = v.deal /\ x.peggingOptimal = PeggingOptimal(plays)
  BY <1>1, <1>2 DEF AnalyzeDeal
<1>5. v.deal = d
  BY <1>1 DEF DealtAs
<1>6. Len(decs) \in Nat /\ DOMAIN decs = 1..Len(decs)
  BY <1>3, LogFacts DEF PlaysMade
<1>. DEFINE l == Len(decs)
<1>7. IsLog(plays) /\ Len(plays) = l
  <2>1. plays = [j \in 1..l |-> plays[j]]
    BY <1>6
  <2>2. PICK E : E = {plays[j] : j \in 1..l}
    OBVIOUS
  <2>. HIDE DEF plays, l
  <2>3. plays \in [1..l -> E]
    BY <2>1, <2>2
  <2>4. plays \in Seq(E) /\ Len(plays) = l
    BY <1>6, <2>3 DEF l
  <2>. QED BY <2>4 DEF IsLog
<1>8. \A j \in 1..l : plays[j] = GradedPlay(decs[j])
  BY <1>6
<1>. HIDE DEF plays
<1>9. \A e \in Engines : e \in x.peggingOptimal <=> AllOptimal(x, e)
  <2>1. DOMAIN plays = 1..Len(plays)
    BY <1>7, LogFacts
  <2>. QED BY <1>4, <2>1 DEF PeggingOptimal, AllOptimal
<1>10. \A j \in 1..l : \E i \in 1..Len(log) :
         ChosenIn(log, s, d, i) /\ plays[j] = GradedPlay(Decision(log, i))
  BY <1>3, <1>8 DEF PlaysMade
<1>11. \A i \in 1..Len(log) : ChosenIn(log, s, d, i) =>
         \E j \in 1..l : plays[j] = GradedPlay(Decision(log, i))
  BY <1>3, <1>8 DEF PlaysMade
<1>. HIDE DEF l
<1>. QED BY <1>4, <1>5, <1>7, <1>9, <1>10, <1>11 DEF Listed

\* A choice is one of the decisions noted when they were made.
LEMMA ChosenIsDecided ==
  ASSUME Len(log) \in Nat, DOMAIN log = 1..Len(log), SeenInv, NEW s, NEW d,
         NEW i \in 1..Len(log), ChosenIn(log, s, d, i)
  PROVE  LET c == Decision(log, i)
         IN  c \in decided /\ c.seat = s /\ c.deal = d /\ NonForced(c.view)
<1>1. i \in Plays(log)
  BY DEF Plays, ChosenIn
<1>2. Decision(log, i) \in decided
  BY <1>1 DEF SeenInv, Reconstructed
<1>3. Decision(log, i).seat = s /\ Decision(log, i).deal = d
  BY DEF ChosenIn, Decision
<1>. QED BY <1>2, <1>3 DEF ChosenIn

LEMMA MarksTell ==
  ASSUME GameLogInv, winner # NoSeat
  PROVE  MarksMatchTheSummary
<1>0. Len(log) \in Nat /\ DOMAIN log = 1..Len(log) /\ SeenInv
  BY LogFacts DEF GameLogInv, LogSide, LogInv
<1>1. ASSUME NEW s \in Seat, NEW e \in Engines
      PROVE  LET a     == AnalyzeGame(log, s)
                 sum   == a.summary[e]
                 clean == \A d \in decided : d.seat = s => OptimalPlay(e, d.view, d.played)
             IN  /\ (sum.optimalDiscards = sum.hands) =
                      (\A i \in DOMAIN a.deals : e \in a.deals[i].discardOptimal)
                 /\ (sum.optimalPlays = sum.playDecisions) =
                      (\A i \in DOMAIN a.deals : e \in a.deals[i].peggingOptimal)
                 /\ clean => sum.optimalPlays = sum.playDecisions
  <2>1. PICK deals : deals = AnalyzedDeals(log, s)
    OBVIOUS
  <2>2. PICK t : t = Summary(deals, e)
    OBVIOUS
  <2>3. AnalyzeGame(log, s).deals = deals /\ AnalyzeGame(log, s).summary[e] = t
    BY <2>1, <2>2 DEF AnalyzeGame
  <2>4. IsLog(deals) /\ \A j \in 1..Len(deals) : GradedAs(deals[j], s, j - 1, Len(log))
    BY <2>1, FinishedWalk
  <2>5. Len(deals) \in Nat /\ DOMAIN deals = 1..Len(deals)
    BY <2>4, LogFacts
  <2>6. \A j \in 1..Len(deals) : Listed(deals[j], s, j - 1)
    BY <1>0, <2>4, GradedIsListed
  <2>7. Tallied(t, deals, e, Len(deals))
    <3>1. \A j \in 1..Len(deals) : IsLog(deals[j].plays)
      BY <2>6 DEF Listed
    <3>. QED BY <2>2, <2>5, <3>1, SummaryTells
  <2>. DEFINE ds == t.optimalDiscards = t.hands
              dm == \A i \in DOMAIN deals : e \in deals[i].discardOptimal
              ps == t.optimalPlays = t.playDecisions
              pm == \A i \in DOMAIN deals : e \in deals[i].peggingOptimal
              clean == \A d \in decided : d.seat = s => OptimalPlay(e, d.view, d.played)
  <2>8. ds <=> dm
    BY <2>5, <2>7 DEF Tallied
  <2>9. ps <=> \A i \in 1..Len(deals) : AllOptimal(deals[i], e)
    BY <2>7 DEF Tallied
  <2>10. ps <=> pm
    BY <2>5, <2>6, <2>9 DEF Listed
  <2>11. ASSUME clean PROVE ps
    <3>1. ASSUME NEW i \in 1..Len(deals), NEW j \in 1..Len(deals[i].plays)
          PROVE  e \in deals[i].plays[j].optimal
      <4>1. PICK n \in 1..Len(log) : /\ ChosenIn(log, s, i - 1, n)
                                      /\ deals[i].plays[j] = GradedPlay(Decision(log, n))
        BY <2>6 DEF Listed
      <4>2. Decision(log, n) \in decided /\ Decision(log, n).seat = s
        BY <1>0, <4>1, ChosenIsDecided
      <4>3. PICK c : c = Decision(log, n)
        OBVIOUS
      <4>4. OptimalPlay(e, c.view, c.played)
        BY <2>11, <4>2, <4>3
      <4>5. GradedPlay(c).optimal = {x \in Engines : OptimalPlay(x, c.view, c.played)}
        BY DEF GradedPlay
      <4>. QED BY <4>1, <4>3, <4>4, <4>5
    <3>. QED BY <2>9, <3>1 DEF AllOptimal
  <2>12. ds \in BOOLEAN /\ dm \in BOOLEAN /\ ps \in BOOLEAN /\ pm \in BOOLEAN
    OBVIOUS
  <2>13. (ds = dm) /\ (ps = pm)
    <3>. HIDE DEF ds, dm, ps, pm
    <3>. QED BY <2>8, <2>10, <2>12
  <2>. QED BY <2>3, <2>11, <2>13
<1>. QED BY <1>1 DEF MarksMatchTheSummary

-----------------------------------------------------------------------------
(***************************************************************************)
(* The plays listed under a deal are the choices of the game, one each.    *)
(***************************************************************************)
\* Before each play the fold without a target is the game itself.
LevelInv ==
  \A p \in 3..Len(log) :
    log[p].type = "card_played" => RawAfter(log, p - 1) = AfterOf(log, p - 1)

LEMMA LevelGoesOn ==
  ASSUME LogInv, LevelInv, NEW e, Command(e), Led(out', e), log' = log \o out',
         Folded(0, log) = Folded(Target, log)
  PROVE  LevelInv'
<1>. DEFINE l == Len(log)
            n == Len(out')
<1>1. IsLog(log) /\ IsLog(out') /\ l >= 2
  BY DEF LogInv, Led, IsLog
<1>2. /\ l \in Nat /\ n \in Nat /\ Len(log') = l + n
      /\ \A i \in 1..l : log'[i] = log[i]
      /\ \A i \in (l + 1)..(l + n) : log'[i] = out'[i - l]
      /\ \A i \in 0..l : SubSeq(log', 1, i) = SubSeq(log, 1, i)
      /\ SubSeq(log', 1, l) = log
  <2>1. PICK all, more : all = log' /\ more = out'
    OBVIOUS
  <2>2. all = log \o more /\ IsLog(log) /\ IsLog(more)
    BY <1>1, <2>1
  <2>3. \A i \in 0..Len(log) : SubSeq(log \o more, 1, i) = SubSeq(log, 1, i)
    BY <2>2, JoinedLog
  <2>4. SubSeq(log \o more, 1, Len(log)) = log
    BY <2>2, JoinedLog
  <2>5. /\ Len(log) \in Nat /\ Len(more) \in Nat /\ Len(all) = Len(log) + Len(more)
        /\ \A i \in 1..Len(log) : all[i] = log[i]
        /\ \A i \in (Len(log) + 1)..(Len(log) + Len(more)) : all[i] = more[i - Len(log)]
    BY ONLY <2>2, JoinedLog
  <2>. QED BY <2>1, <2>2, <2>3, <2>4, <2>5
<1>3. \A i \in 2..n : out'[i].type # "card_played"
  BY DEF Led, FollowUp
<1>. HIDE DEF l, n
<1>4. ASSUME NEW p \in 3..(l + n), log'[p].type = "card_played"
      PROVE  RawAfter(log', p - 1) = AfterOf(log', p - 1)
  <2>1. CASE p \in 3..l
    <3>1. p \in 1..l /\ p - 1 \in 0..l
      BY <1>2, <2>1
    <3>2. RawAfter(log, p - 1) = AfterOf(log, p - 1)
      BY <1>2, <1>4, <2>1, <3>1 DEF LevelInv, l
    <3>. QED BY <1>2, <3>1, <3>2 DEF RawAfter, AfterOf
  <2>2. CASE p \notin 3..l
    <3>1. p \in (l + 1)..(l + n) /\ p - l \in 1..n
      BY <1>1, <1>2, <2>2 DEF l
    <3>2. log'[p] = out'[p - l]
      BY <1>2, <3>1
    <3>3. p - l \notin 2..n
      BY <1>3, <1>4, <3>2
    <3>4. p - 1 = l
      BY <1>2, <3>1, <3>3
    <3>. QED BY <1>2, <3>4 DEF RawAfter, AfterOf
  <2>. QED BY <2>1, <2>2
<1>. QED BY <1>2, <1>4 DEF LevelInv

LEMMA LevelInvNext == GameInv /\ TellInv /\ LogInv /\ LevelInv /\ Logged => LevelInv'
<1>. SUFFICES ASSUME GameInv, TellInv, LogInv, LevelInv, Logged PROVE LevelInv'
  OBVIOUS
<1>1. winner = NoSeat => Folded(0, log) = Folded(Target, log)
  BY NowAfterLog
<1>2. ASSUME NEW s \in Seat, NEW c \in hands[s], Play(s, c), log' = log \o out'
      PROVE  LevelInv'
  <2>. DEFINE e == CardPlayed(s, c, Score(pile, c))
  <2>1. LegalPlay(s, c) /\ Score(pile, c) \in Nat /\ winner = NoSeat
    BY <1>2, PlayMovesSeries, LayFacts
  <2>2. Command(e) /\ Led(out', e)
    BY <1>2, <2>1, Commands, LedPlay
  <2>. HIDE DEF e
  <2>. QED BY <1>1, <1>2, <2>1, <2>2, LevelGoesOn
<1>3. ASSUME NEW s \in Seat, NEW two \in Throws, Discard(s, two), log' = log \o out'
      PROVE  LevelInv'
  <2>. DEFINE e == DiscardedBy(s, two)
  <2>1. winner = NoSeat
    BY <1>3 DEF Discard, GameInv, ScoreInv, OnlyTheWinnerIsAtTarget
  <2>2. Command(e) /\ Led(out', e)
    BY <1>3, Commands, LedDiscard
  <2>. HIDE DEF e
  <2>. QED BY <1>1, <1>3, <2>1, <2>2, LevelGoesOn
<1>4. CASE UNCHANGED log
  BY <1>4 DEF LevelInv
<1>. QED BY <1>2, <1>3, <1>4 DEF Logged

LEMMA InitLevel == HistoryInit => LevelInv
<1>. SUFFICES ASSUME HistoryInit PROVE LevelInv
  OBVIOUS
<1>1. Len(log) = 2
  BY DEF HistoryInit, Init
<1>2. 3..Len(log) = {}
  BY <1>1
<1>. QED BY <1>2 DEF LevelInv

\* Until the next deal hands only shrink.
Shrunk(h, g) ==
  /\ HasFields(h) /\ h.hands \in [Seat -> SUBSET Card]
  /\ \A t \in Seat : h.hands[t] \subseteq g.hands[t]

LEMMA HandsShrink ==
  ASSUME NEW g, HasFields(g), g.hands \in [Seat -> SUBSET Card], NEW e, Made(e),
         e.type # "hand_dealt", NEW h, h = Reduce(Target, g, e)
  PROVE  Shrunk(h, g)
<1>1. ASSUME HasFields(h), h.hands = g.hands PROVE Shrunk(h, g)
  BY <1>1 DEF Shrunk
<1>2. ASSUME HasFields(h), NEW t, NEW less, h.hands = [g.hands EXCEPT ![t] = @ \ less]
      PROVE  Shrunk(h, g)
  BY <1>2 DEF Shrunk
<1>3. ASSUME NEW s, NEW two, e = DiscardedBy(s, two) PROVE Shrunk(h, g)
  <2>1. ThrowsOut(h, g, s, two)
    BY <1>3, ThrownGame
  <2>2. HasFields(h) /\ h.hands = [g.hands EXCEPT ![s] = @ \ two]
    BY <2>1 DEF ThrowsOut, GameBut
  <2>. QED BY <1>2, <2>2
<1>4. ASSUME NEW c, NEW p, e = StarterCut(c, p) PROVE Shrunk(h, g)
  BY <1>1, <1>4, CutGame DEF GameBut
<1>5. ASSUME NEW s, NEW c, NEW p, e = CardPlayed(s, c, p) PROVE Shrunk(h, g)
  <2>1. LaysOut(h, g, s, c, p)
    BY <1>5, LaidOut
  <2>2. HasFields(h) /\ h.hands = [g.hands EXCEPT ![s] = @ \ {c}]
    BY <2>1 DEF LaysOut, GameBut
  <2>. QED BY <1>2, <2>2
<1>6. ASSUME NEW s, e = Pass(s) \/ e = GoAwarded(s) \/ e = SeriesReset(s) \/ e = GameWon(s)
      PROVE  Shrunk(h, g)
  BY <1>1, <1>6, PassedGame, GoneGame, ResetGame, WonGame DEF GameBut
<1>7. ASSUME NEW s, NEW cs, NEW p, e = HandShown(s, cs, p) \/ e = CribShown(cs, p)
      PROVE  Shrunk(h, g)
  BY <1>1, <1>7, ShownGame, CribGame DEF GameBut
<1>8. ASSUME NEW s, NEW cs, NEW b, e = ShowNotCounted(s, cs, b) PROVE Shrunk(h, g)
  BY <1>1, <1>8, UncountedGame
<1>9. ASSUME NEW dl, NEW hs, e = HandDealt(dl, hs) PROVE FALSE
  BY <1>9 DEF HandDealt
<1>. QED BY <1>3, <1>4, <1>5, <1>6, <1>7, <1>8, <1>9 DEF Made

LEMMA FieldsStay ==
  ASSUME NEW g, HasFields(g), NEW e, Made(e)
  PROVE  HasFields(Reduce(Target, g, e))
<1>. DEFINE h == Reduce(Target, g, e)
<1>1. ASSUME NEW dl, NEW hs, e = HandDealt(dl, hs) PROVE HasFields(h)
  BY <1>1, DealtGame DEF GameBut
<1>2. ASSUME NEW s, NEW two, e = DiscardedBy(s, two) PROVE HasFields(h)
  <2>1. ThrowsOut(h, g, s, two)
    BY <1>2, ThrownGame
  <2>. QED BY <2>1 DEF ThrowsOut, GameBut
<1>3. ASSUME NEW c, NEW p, e = StarterCut(c, p) PROVE HasFields(h)
  BY <1>3, CutGame DEF GameBut
<1>4. ASSUME NEW s, NEW c, NEW p, e = CardPlayed(s, c, p) PROVE HasFields(h)
  BY <1>4, LaidOut DEF LaysOut, GameBut
<1>5. ASSUME NEW s, e = Pass(s) \/ e = GoAwarded(s) \/ e = SeriesReset(s) \/ e = GameWon(s)
      PROVE  HasFields(h)
  BY <1>5, PassedGame, GoneGame, ResetGame, WonGame DEF GameBut
<1>6. ASSUME NEW s, NEW cs, NEW p, e = HandShown(s, cs, p) \/ e = CribShown(cs, p)
      PROVE  HasFields(h)
  BY <1>6, ShownGame, CribGame DEF GameBut
<1>7. ASSUME NEW s, NEW cs, NEW b, e = ShowNotCounted(s, cs, b) PROVE HasFields(h)
  BY <1>7, UncountedGame
<1>. HIDE DEF h
<1>8. HasFields(h)
  BY <1>1, <1>2, <1>3, <1>4, <1>5, <1>6, <1>7 DEF Made
<1>. QED BY <1>8 DEF h

LEMMA AfterFields ==
  ASSUME LogInv, OpenInv, NEW n \in 2..Len(log)
  PROVE  HasFields(AfterOf(log, n))
<1>. DEFINE l == Len(log)
            S == {m \in 2..l : HasFields(AfterOf(log, m))}
<1>0. l \in Nat /\ l >= 2 /\ IsLog(log)
  BY LogFacts DEF LogInv
<1>1. 2 \in S
  <2>1. PICK dl, hs : log[2] = HandDealt(dl, hs)
    BY DEF OpenInv
  <2>2. 1 \in Nat /\ 1 + 1 = 2 /\ 1 + 1 \in 1..Len(log)
    BY <1>0
  <2>3. AfterOf(log, 1 + 1) = Reduce(Target, AfterOf(log, 1), log[1 + 1])
    BY <1>0, <2>2, PrefixGoesOn
  <2>4. AfterOf(log, 2) = Reduce(Target, AfterOf(log, 1), HandDealt(dl, hs))
    BY <2>1, <2>2, <2>3
  <2>5. \A g : HasFields(Reduce(Target, g, HandDealt(dl, hs)))
    BY DEF Reduce, HandDealt, HasFields, Blank
  <2>6. HasFields(AfterOf(log, 2))
    BY <2>4, <2>5
  <2>. QED BY <1>0, <2>6
<1>2. \A m \in 2..(l - 1) : m \in S => m + 1 \in S
  <2>1. TAKE m \in 2..(l - 1)
  <2>2. HAVE m \in S
  <2>3. m \in Nat /\ m + 1 \in 1..Len(log) /\ m + 1 \in 3..Len(log) /\ m + 1 \in 2..l
    BY <1>0
  <2>4. Made(log[m + 1])
    BY <2>3 DEF LogInv, Command, FollowUp
  <2>5. AfterOf(log, m + 1) = Reduce(Target, AfterOf(log, m), log[m + 1])
    BY <1>0, <2>3, PrefixGoesOn
  <2>6. HasFields(AfterOf(log, m + 1))
    BY <2>2, <2>4, <2>5, FieldsStay
  <2>. QED BY <2>3, <2>6
<1>3. n \in S
  <2>. HIDE DEF l, S
  <2>1. \A m \in 2..l : m \in S
    BY <1>0, <1>1, <1>2, UpFromTwo
  <2>. QED BY <2>1 DEF l
<1>. QED BY <1>3

\* Of the events a command leads to, only a play lays a card.
LEMMA PlayForm ==
  ASSUME NEW e, Made(e), e.type = "card_played"
  PROVE  \E p : e = CardPlayed(e.seat, e.card, p)
<1>1. ASSUME NEW s, NEW two, e = DiscardedBy(s, two) PROVE FALSE
  BY <1>1 DEF DiscardedBy
<1>2. ASSUME NEW c, NEW h, e = StarterCut(c, h) PROVE FALSE
  BY <1>2 DEF StarterCut
<1>3. ASSUME NEW s, NEW c, NEW p, e = CardPlayed(s, c, p)
      PROVE  \E q : e = CardPlayed(e.seat, e.card, q)
  <2>1. e.seat = s /\ e.card = c
    BY <1>3 DEF CardPlayed
  <2>. QED BY <1>3, <2>1
<1>4. ASSUME NEW s, e = Pass(s) \/ e = GoAwarded(s) \/ e = SeriesReset(s) \/ e = GameWon(s)
      PROVE  FALSE
  BY <1>4 DEF Pass, GoAwarded, SeriesReset, GameWon
<1>5. ASSUME NEW s, NEW cs, NEW p, e = HandShown(s, cs, p) PROVE FALSE
  BY <1>5 DEF HandShown
<1>6. ASSUME NEW cs, NEW p, e = CribShown(cs, p) PROVE FALSE
  BY <1>6 DEF CribShown
<1>7. ASSUME NEW s, NEW cs, NEW b, e = ShowNotCounted(s, cs, b) PROVE FALSE
  BY <1>7 DEF ShowNotCounted
<1>8. ASSUME NEW dl, NEW hs, e = HandDealt(dl, hs) PROVE FALSE
  BY <1>8 DEF HandDealt
<1>. QED BY <1>1, <1>2, <1>3, <1>4, <1>5, <1>6, <1>7, <1>8, Zenon DEF Made

\* What a play does to the hands.
PlaysFrom(n, s, c) ==
  LET g == AfterOf(log, n - 1)
      h == AfterOf(log, n)
  IN  /\ g.hands \in [Seat -> SUBSET Card] /\ s \in Seat /\ c \in g.hands[s]
      /\ HasFields(h) /\ h.hands \in [Seat -> SUBSET Card]
      /\ h.hands[s] = g.hands[s] \ {c}

LEMMA PlayedThere ==
  ASSUME LogInv, OpenInv, FitInv, NEW n \in 3..Len(log), log[n].type = "card_played"
  PROVE  PlaysFrom(n, log[n].seat, log[n].card)
<1>1. PICK m : m = n - 1
  OBVIOUS
<1>2. /\ m \in Nat /\ m + 1 = n /\ m \in 2..(Len(log) - 1) /\ m + 1 \in 1..Len(log)
      /\ m \in 2..Len(log) /\ IsLog(log)
  BY <1>1, LogFacts DEF LogInv
<1>. DEFINE g == AfterOf(log, m)
            h == AfterOf(log, n)
            s == log[n].seat
            c == log[n].card
<1>3. g.hands \in [Seat -> SUBSET Card] /\ s \in Seat /\ c \in g.hands[s]
  <2>1. FitsAt(log, m)
    BY <1>2 DEF FitInv
  <2>. QED BY <1>2, <2>1 DEF FitsAt, ComesNext
<1>4. h = Reduce(Target, g, log[n])
  <2>1. AfterOf(log, m + 1) = Reduce(Target, AfterOf(log, m), log[m + 1])
    BY <1>2, PrefixGoesOn
  <2>. QED BY <1>2, <2>1
<1>5. HasFields(g)
  BY <1>2, AfterFields
<1>6. Made(log[n])
  BY DEF LogInv, Command, FollowUp
<1>7. PICK p : log[n] = CardPlayed(s, c, p)
  BY <1>6, PlayForm
<1>. HIDE DEF g, h, s, c
<1>8. LaysOut(h, g, s, c, p)
  BY <1>4, <1>5, <1>7, LaidOut
<1>9. HasFields(h) /\ h.hands = [g.hands EXCEPT ![s] = @ \ {c}]
  BY <1>8 DEF LaysOut, GameBut
<1>10. h.hands \in [Seat -> SUBSET Card] /\ h.hands[s] = g.hands[s] \ {c}
  BY <1>3, <1>9
<1>. QED BY <1>1, <1>3, <1>9, <1>10 DEF PlaysFrom, g, h, s, c

\* No hand is dealt between two events of one deal.
LEMMA OneDeal ==
  ASSUME NEW events, NEW a \in Nat, NEW m \in Nat, NEW b \in Nat, a <= m, m + 1 <= b,
         DealsBefore(events, a + 1) = DealsBefore(events, b + 1)
  PROVE  events[m + 1].type # "hand_dealt"
<1>. SUFFICES ASSUME events[m + 1].type = "hand_dealt" PROVE FALSE
  OBVIOUS
<1>1. DealsBefore(events, m + 1) \in Nat /\ DealsBefore(events, m + 2) = DealsBefore(events, m + 1) + 1
  BY DealsGo DEF DealWith
<1>2. DealsBefore(events, a + 1) <= DealsBefore(events, m + 1)
  BY DealsMount
<1>3. DealsBefore(events, (m + 1) + 1) <= DealsBefore(events, b + 1)
  <2>1. m + 1 \in Nat
    OBVIOUS
  <2>. QED BY <2>1, DealsMount
<1>4. (m + 1) + 1 = m + 2
  OBVIOUS
<1>5. DealsBefore(events, a + 1) \in Nat
  BY DealsGo
<1>. QED BY <1>1, <1>2, <1>3, <1>4, <1>5

\* The seat s no longer holds the card c.
Without(g, s, c) ==
  HasFields(g) /\ g.hands \in [Seat -> SUBSET Card] /\ c \notin g.hands[s]

\* A card is played once in a deal.
LEMMA PlayedOnce ==
  ASSUME LogInv, OpenInv, FitInv, NEW i \in 3..Len(log), NEW j \in 3..Len(log), i < j,
         log[i].type = "card_played", log[j].type = "card_played",
         log[i].seat = log[j].seat, log[i].card = log[j].card,
         DealsBefore(log, i) = DealsBefore(log, j)
  PROVE  FALSE
<1>. DEFINE l == Len(log)
            s == log[i].seat
            c == log[i].card
            S == {m \in 2..l : m < i \/ m >= j \/ Without(AfterOf(log, m), s, c)}
<1>0. l \in Nat /\ l >= 2 /\ IsLog(log)
  BY LogFacts DEF LogInv
<1>1. PlaysFrom(i, s, c) /\ PlaysFrom(j, s, c)
  BY PlayedThere
<1>2. Without(AfterOf(log, i), s, c) /\ s \in Seat
  BY <1>1 DEF PlaysFrom, Without
<1>3. 2 \in S
  BY <1>0
<1>4. \A m \in 2..(l - 1) : m \in S => m + 1 \in S
  <2>1. TAKE m \in 2..(l - 1)
  <2>2. HAVE m \in S
  <2>3. m \in Nat /\ m + 1 \in 1..l /\ m + 1 \in 3..l /\ m + 1 \in 2..l
    BY <1>0
  <2>4. CASE m + 1 < i \/ m + 1 >= j
    BY <2>3, <2>4
  <2>5. CASE m + 1 = i
    BY <1>2, <2>3, <2>5
  <2>6. CASE i <= m /\ m + 1 < j
    <3>1. PICK a, b : a = i - 1 /\ b = j - 1
      OBVIOUS
    <3>2. a \in Nat /\ b \in Nat /\ a + 1 = i /\ b + 1 = j /\ a <= m /\ m + 1 <= b
      BY <2>6, <3>1
    <3>3. log[m + 1].type # "hand_dealt"
      <4>1. DealsBefore(log, a + 1) = DealsBefore(log, b + 1)
        BY <3>2
      <4>. QED BY <2>3, <3>2, <4>1, OneDeal
    <3>4. Made(log[m + 1])
      BY <2>3 DEF LogInv, Command, FollowUp
    <3>5. Without(AfterOf(log, m), s, c)
      BY <2>2, <2>6
    <3>6. AfterOf(log, m + 1) = Reduce(Target, AfterOf(log, m), log[m + 1])
      BY <1>0, <2>3, PrefixGoesOn
    <3>7. Shrunk(AfterOf(log, m + 1), AfterOf(log, m))
      BY <3>3, <3>4, <3>5, <3>6, HandsShrink DEF Without
    <3>8. Without(AfterOf(log, m + 1), s, c)
      BY <1>2, <3>5, <3>7 DEF Shrunk, Without
    <3>. QED BY <2>3, <3>8
  <2>7. m + 1 < i \/ m + 1 >= j \/ m + 1 = i \/ (i <= m /\ m + 1 < j)
    OBVIOUS
  <2>. QED BY <2>4, <2>5, <2>6, <2>7
<1>5. PICK k : k = j - 1
  OBVIOUS
<1>6. k \in 2..l /\ ~(k < i) /\ ~(k >= j)
  BY <1>0, <1>5
<1>7. Without(AfterOf(log, k), s, c)
  <2>1. k \in S
    <3>. HIDE DEF l, S
    <3>. QED BY <1>0, <1>3, <1>4, <1>6, UpFromTwo
  <2>. QED BY <1>6, <2>1
<1>. QED BY <1>1, <1>5, <1>7 DEF PlaysFrom, Without

-----------------------------------------------------------------------------
\* The choices the seat s had: by the event each was made with.
ChoiceAt(s, i) == ChosenIn(log, s, DealsBefore(log, i) - 1, i)

ChoicesOf(s) == {i \in 3..Len(log) : ChoiceAt(s, i)}

Noted(s) == {d \in decided : d.seat = s /\ NonForced(d.view)}

ListedAs(i) == <<DealsBefore(log, i) - 1, GradedPlay(Decision(log, i))>>

\* Each is noted once.
LEMMA ChoicesNoted ==
  ASSUME LogInv, SeenInv, NEW s
  PROVE  /\ Noted(s) = {Decision(log, i) : i \in ChoicesOf(s)}
         /\ IsFiniteSet(ChoicesOf(s)) /\ Cardinality(Noted(s)) = Cardinality(ChoicesOf(s))
<1>. DEFINE l == Len(log)
            C == ChoicesOf(s)
            N == Noted(s)
            F == [i \in C |-> Decision(log, i)]
<1>1. l \in Nat /\ DOMAIN log = 1..l
  BY LogFacts DEF LogInv
<1>2. ASSUME NEW i \in C PROVE Decision(log, i) \in N
  <2>1. i \in 1..Len(log) /\ ChosenIn(log, s, DealsBefore(log, i) - 1, i)
    BY <1>1 DEF ChoicesOf, ChoiceAt
  <2>2. LET c == Decision(log, i) IN c \in decided /\ c.seat = s /\ NonForced(c.view)
    BY <1>1, <2>1, ChosenIsDecided
  <2>. QED BY <2>2 DEF Noted
<1>3. ASSUME NEW d \in N PROVE \E i \in C : d = Decision(log, i)
  <2>1. d \in Reconstructed(log) /\ d.seat = s /\ NonForced(d.view)
    BY DEF Noted, SeenInv
  <2>2. PICK i \in Plays(log) : d = Decision(log, i)
    BY <2>1 DEF Reconstructed
  <2>3. i \in 1..l /\ log[i].type = "card_played"
    BY <1>1, <2>2 DEF Plays
  <2>4. i # 1 /\ i # 2
    BY <2>3 DEF LogInv, Opening
  <2>5. i \in 3..l
    BY <1>1, <2>3, <2>4
  <2>6. log[i].seat = s
    BY <2>1, <2>2 DEF Decision
  <2>7. ChoiceAt(s, i)
    BY <2>1, <2>2, <2>3, <2>6 DEF ChoiceAt, ChosenIn
  <2>. QED BY <2>2, <2>5, <2>7 DEF ChoicesOf
<1>4. ASSUME NEW i \in C, NEW j \in C, Decision(log, i) = Decision(log, j) PROVE i = j
  <2>1. i \in Int /\ j \in Int
    BY <1>1 DEF ChoicesOf
  <2>2. \A k : Decision(log, k).view.version = k - 1
    BY DEF Decision, View
  <2>3. i - 1 = j - 1
    BY <1>4, <2>2
  <2>. QED BY <2>1, <2>3
<1>5. IsFiniteSet(C)
  <2>1. IsFiniteSet(3..l)
    BY <1>1, FS_Interval
  <2>2. C \in SUBSET (3..l)
    BY DEF ChoicesOf
  <2>. QED BY <2>1, <2>2, FS_Subset
<1>. HIDE DEF C, N, l
<1>6. F \in Bijection(C, N)
  <2>1. F \in [C -> N]
    BY <1>2
  <2>2. \A i, j \in C : F[i] = F[j] => i = j
    BY <1>4
  <2>3. \A d \in N : \E i \in C : F[i] = d
    BY <1>3
  <2>. HIDE DEF F
  <2>. QED BY <2>1, <2>2, <2>3 DEF Bijection, Injection, Surjection, IsInjective
<1>7. Cardinality(N) = Cardinality(C)
  <2>1. ExistsBijection(C, N)
    BY <1>6 DEF ExistsBijection
  <2>. QED BY <1>5, <2>1, FS_Bijection
<1>8. N = {Decision(log, i) : i \in C}
  BY <1>2, <1>3
<1>. QED BY <1>5, <1>7, <1>8 DEF C, N

\* And listed once, under its deal.
ShownPlays(deals) ==
  UNION {{<<deals[i].deal, deals[i].plays[j]>> : j \in DOMAIN deals[i].plays} : i \in DOMAIN deals}

LEMMA ShownAreChoices ==
  ASSUME GameLogInv, winner # NoSeat, NEW s \in Seat, NEW deals, deals = AnalyzedDeals(log, s)
  PROVE  ShownPlays(deals) = {ListedAs(n) : n \in ChoicesOf(s)}
<1>0. LogInv /\ Len(log) \in Nat /\ Len(log) >= 2 /\ DOMAIN log = 1..Len(log)
  BY LogFacts DEF GameLogInv, LogSide, LogInv
<1>1. /\ IsLog(deals) /\ Len(deals) = DealsBefore(log, Len(log) + 1)
      /\ \A i \in 1..Len(deals) : GradedAs(deals[i], s, i - 1, Len(log))
  BY FinishedWalk
<1>2. Len(deals) \in Nat /\ DOMAIN deals = 1..Len(deals)
  BY <1>1, LogFacts
<1>3. \A i \in 1..Len(deals) : Listed(deals[i], s, i - 1) /\ deals[i].deal = i - 1
  BY <1>0, <1>1, GradedIsListed
<1>4. \A i \in 1..Len(deals) : DOMAIN deals[i].plays = 1..Len(deals[i].plays)
  BY <1>3, LogFacts DEF Listed
<1>5. ASSUME NEW i \in 1..Len(deals), NEW j \in 1..Len(deals[i].plays)
      PROVE  \E n \in ChoicesOf(s) : <<deals[i].deal, deals[i].plays[j]>> = ListedAs(n)
  <2>1. PICK n \in 1..Len(log) : /\ ChosenIn(log, s, i - 1, n)
                                 /\ deals[i].plays[j] = GradedPlay(Decision(log, n))
    BY <1>3 DEF Listed
  <2>2. log[n].type = "card_played" /\ DealsBefore(log, n) - 1 = i - 1
    BY <2>1 DEF ChosenIn
  <2>3. n # 1 /\ n # 2
    BY <1>0, <2>2 DEF LogInv, Opening
  <2>4. n \in 3..Len(log)
    BY <1>0, <2>3
  <2>5. ChoiceAt(s, n)
    BY <2>1, <2>2 DEF ChoiceAt
  <2>6. <<deals[i].deal, deals[i].plays[j]>> = ListedAs(n)
    BY <1>3, <2>1, <2>2 DEF ListedAs
  <2>. QED BY <2>4, <2>5, <2>6 DEF ChoicesOf
<1>6. ASSUME NEW n \in ChoicesOf(s)
      PROVE  \E i \in 1..Len(deals) : \E j \in 1..Len(deals[i].plays) :
               ListedAs(n) = <<deals[i].deal, deals[i].plays[j]>>
  <2>1. n \in 3..Len(log) /\ n \in 1..Len(log) /\ ChosenIn(log, s, DealsBefore(log, n) - 1, n)
    BY <1>0 DEF ChoicesOf, ChoiceAt
  <2>2. PICK m : m = n - 1
    OBVIOUS
  <2>3. m \in Nat /\ 2 <= m /\ m <= Len(log) /\ m + 1 = n
    BY <1>0, <2>1, <2>2
  <2>4. DealsBefore(log, 1 + 1) \in Nat /\ DealsBefore(log, 1 + 2) = DealsBefore(log, 1 + 1) + 1
    <3>1. 1 \in Nat /\ 1 + 1 = 2 /\ log[1 + 1].type = "hand_dealt"
      BY <1>0 DEF LogInv
    <3>. QED BY <3>1, DealsGo DEF DealWith
  <2>5. DealsBefore(log, 2 + 1) <= DealsBefore(log, m + 1)
    BY <2>3, DealsMount
  <2>6. DealsBefore(log, m + 1) <= DealsBefore(log, Len(log) + 1) /\ DealsBefore(log, m + 1) \in Nat
    BY <1>0, <2>3, DealsMount, DealsGo
  <2>7. DealsBefore(log, n) \in 1..Len(deals)
    <3>1. 1 + 2 = 3 /\ 2 + 1 = 3
      OBVIOUS
    <3>2. DealsBefore(log, 3) >= 1 /\ DealsBefore(log, 3) <= DealsBefore(log, n) /\ DealsBefore(log, 3) \in Nat
      BY <2>3, <2>4, <2>5, <3>1
    <3>. QED BY <1>1, <1>2, <2>3, <2>6, <3>2
  <2>8. PICK i \in 1..Len(deals) : i = DealsBefore(log, n)
    BY <2>7
  <2>9. ChosenIn(log, s, i - 1, n)
    BY <2>1, <2>8
  <2>10. PICK j \in 1..Len(deals[i].plays) : deals[i].plays[j] = GradedPlay(Decision(log, n))
    BY <1>3, <2>1, <2>9 DEF Listed
  <2>11. ListedAs(n) = <<deals[i].deal, deals[i].plays[j]>>
    BY <1>3, <2>8, <2>10 DEF ListedAs
  <2>. QED BY <2>11
<1>7. ASSUME NEW p \in ShownPlays(deals) PROVE p \in {ListedAs(n) : n \in ChoicesOf(s)}
  <2>1. PICK i \in 1..Len(deals) : p \in {<<deals[i].deal, deals[i].plays[j]>> : j \in DOMAIN deals[i].plays}
    BY <1>2 DEF ShownPlays
  <2>2. PICK j \in 1..Len(deals[i].plays) : p = <<deals[i].deal, deals[i].plays[j]>>
    BY <1>4, <2>1
  <2>. QED BY <1>5, <2>2
<1>8. ASSUME NEW n \in ChoicesOf(s) PROVE ListedAs(n) \in ShownPlays(deals)
  <2>1. PICK i \in 1..Len(deals) : \E j \in 1..Len(deals[i].plays) :
               ListedAs(n) = <<deals[i].deal, deals[i].plays[j]>>
    BY <1>6
  <2>2. ListedAs(n) \in {<<deals[i].deal, deals[i].plays[j]>> : j \in DOMAIN deals[i].plays}
    BY <1>4, <2>1
  <2>. QED BY <1>2, <2>2 DEF ShownPlays
<1>. QED BY <1>7, <1>8

LEMMA ListedOnce ==
  ASSUME LogInv, OpenInv, FitInv, NEW s, IsFiniteSet(ChoicesOf(s))
  PROVE  Cardinality({ListedAs(n) : n \in ChoicesOf(s)}) = Cardinality(ChoicesOf(s))
<1>. DEFINE C == ChoicesOf(s)
            T == {ListedAs(n) : n \in C}
            F == [n \in C |-> ListedAs(n)]
<1>0. Len(log) \in Nat
  BY LogFacts DEF LogInv
<1>1. ASSUME NEW i \in C, NEW j \in C, ListedAs(i) = ListedAs(j) PROVE i = j
  <2>1. /\ i \in 3..Len(log) /\ log[i].type = "card_played" /\ log[i].seat = s
        /\ j \in 3..Len(log) /\ log[j].type = "card_played" /\ log[j].seat = s
    BY DEF ChoicesOf, ChoiceAt, ChosenIn
  <2>2. \A n : ListedAs(n)[1] = DealsBefore(log, n) - 1 /\ ListedAs(n)[2].played = log[n].card
    BY DEF ListedAs, GradedPlay, Decision
  <2>3. log[i].card = log[j].card /\ DealsBefore(log, i) - 1 = DealsBefore(log, j) - 1
    BY <1>1, <2>2
  <2>4. DealsBefore(log, i) \in Nat /\ DealsBefore(log, j) \in Nat
    <3>1. PICK a, b : a = i - 1 /\ b = j - 1
      OBVIOUS
    <3>2. a \in Nat /\ b \in Nat /\ a + 1 = i /\ b + 1 = j
      BY <1>0, <2>1, <3>1
    <3>3. DealsBefore(log, a + 1) \in Nat /\ DealsBefore(log, b + 1) \in Nat
      BY <3>2, DealsGo
    <3>. QED BY <3>2, <3>3
  <2>5. DealsBefore(log, i) = DealsBefore(log, j)
    BY <2>3, <2>4
  <2>6. ~(i < j)
    BY <2>1, <2>3, <2>5, PlayedOnce
  <2>7. ~(j < i)
    BY <2>1, <2>3, <2>5, PlayedOnce
  <2>. QED BY <1>0, <2>1, <2>6, <2>7
<1>. HIDE DEF C
<1>2. F \in [C -> T] /\ \A x \in T : \E n \in C : F[n] = x
  OBVIOUS
<1>3. \A i, j \in C : F[i] = F[j] => i = j
  BY <1>1
<1>. HIDE DEF F, T
<1>4. F \in Bijection(C, T)
  BY <1>2, <1>3 DEF Bijection, Injection, Surjection, IsInjective
<1>5. ExistsBijection(C, T)
  BY <1>4 DEF ExistsBijection
<1>6. IsFiniteSet(C)
  BY DEF C
<1>7. Cardinality(T) = Cardinality(C)
  BY <1>5, <1>6, FS_Bijection
<1>. QED BY <1>7 DEF T, C

\* The play p listed for the seat s is that of the frame k.
PlayedIn(fr, s, p, k) ==
  /\ k \in DOMAIN fr /\ k > 1
  /\ fr[k - 1].hand = p[1] + 1
  /\ fr[k - 1].hands[s] = p[2].hand
  /\ fr[k - 1].pile = p[2].pile
  /\ fr[k - 1].count = p[2].count
  /\ fr[k].hands[s] = p[2].hand \ {p[2].played}

LEMMA PlaysAreFrames ==
  ASSUME LogInv, OpenInv, FitInv, LevelInv, NEW fr, Film(fr, Len(log)),
         NEW s \in Seat, NEW n \in ChoicesOf(s)
  PROVE  PlayedIn(fr, s, ListedAs(n), FramedUpTo(n) + 1)
<1>0. Len(log) \in Nat /\ IsLog(fr) /\ DOMAIN fr = 1..Len(fr)
  BY LogFacts DEF LogInv, Film
<1>1. n \in 3..Len(log) /\ log[n].type = "card_played" /\ log[n].seat = s
  BY DEF ChoicesOf, ChoiceAt, ChosenIn
<1>2. PICK m : m = n - 1
  OBVIOUS
<1>3. m \in Nat /\ m + 1 = n /\ m \in 1..Len(log) /\ n \in 1..Len(log)
  BY <1>0, <1>1, <1>2
<1>4. MakesFrame(log[m + 1])
  BY <1>1, <1>3 DEF MakesFrame, Framed, WireType
<1>5. FramedUpTo(m) \in Nat /\ FramedUpTo(n) = FramedUpTo(m) + 1
  BY <1>3, <1>4, FramedGoes
<1>. DEFINE k == FramedUpTo(n) + 1
<1>6. k > 1 /\ k - 1 = FramedUpTo(m) + 1
  BY <1>5
<1>7. /\ k \in 1..Len(fr) /\ Pictures(fr[k], AfterOf(log, n), DealsBefore(log, n + 1))
      /\ Pictures(fr[FramedUpTo(m) + 1], AfterOf(log, m), DealsBefore(log, m + 1))
  BY <1>3 DEF Film
<1>8. Pictures(fr[k - 1], AfterOf(log, m), DealsBefore(log, n))
  <2>1. fr[k - 1] = fr[FramedUpTo(m) + 1]
    BY <1>6
  <2>. QED BY <1>3, <1>7, <2>1
<1>. HIDE DEF k
<1>9. PICK c, p : c = log[n].card /\ p = ListedAs(n)
  OBVIOUS
<1>10. PICK b : b = Before(log, n)
  OBVIOUS
<1>11. b = AfterOf(log, m)
  <2>1. RawAfter(log, n - 1) = AfterOf(log, n - 1)
    BY <1>1 DEF LevelInv
  <2>. QED BY <1>2, <1>10, <2>1 DEF Before, RawAfter
<1>12. p[1] = DealsBefore(log, n) - 1 /\ p[2] = GradedPlay(Decision(log, n))
  BY <1>9 DEF ListedAs
<1>13. PICK v : v = Decision(log, n).view
  OBVIOUS
<1>14. /\ p[2].count = v.count /\ p[2].pile = v.pile /\ p[2].hand = v.yourHand
       /\ p[2].played = Decision(log, n).played
  BY <1>12, <1>13 DEF GradedPlay
<1>15. v = View(b, n - 1, s) /\ Decision(log, n).played = c
  BY <1>1, <1>9, <1>10, <1>13 DEF Decision
<1>16. v.count = b.count /\ v.pile = b.pile /\ v.yourHand = b.hands[s]
  BY <1>15 DEF View
<1>17. PlaysFrom(n, s, c)
  BY <1>1, <1>9, PlayedThere
<1>18. AfterOf(log, n).hands[s] = AfterOf(log, m).hands[s] \ {c}
  BY <1>2, <1>17 DEF PlaysFrom
<1>19. fr[k].hands = AfterOf(log, n).hands
  BY <1>7 DEF Pictures
<1>20. /\ fr[k - 1].hand = DealsBefore(log, n) /\ fr[k - 1].hands = b.hands
       /\ fr[k - 1].pile = b.pile /\ fr[k - 1].count = b.count
  BY <1>8, <1>11 DEF Pictures
<1>21. fr[k - 1].hand = p[1] + 1
  <2>1. DealsBefore(log, m + 1) \in Nat
    BY <1>3, DealsGo
  <2>. QED BY <1>3, <1>12, <1>20, <2>1
<1>22. PlayedIn(fr, s, p, k)
  BY <1>0, <1>6, <1>7, <1>11, <1>14, <1>15, <1>16, <1>18, <1>19, <1>20, <1>21 DEF PlayedIn
<1>. QED BY <1>9, <1>22 DEF k

\* A choice as it is listed has the verdicts of the view it was made from.
LEMMA ListedFairly ==
  ASSUME NEW n, NEW d, d = Decision(log, n), NEW p, p = ListedAs(n)
  PROVE  /\ p[1] = d.deal /\ p[2].played = d.played /\ p[2].legal = d.view.legalPlays
         /\ \A e \in Engines : (e \in p[2].optimal) <=> OptimalPlay(e, d.view, d.played)
<1>1. p[1] = DealsBefore(log, n) - 1 /\ p[2] = GradedPlay(d)
  BY DEF ListedAs
<1>2. d.deal = DealsBefore(log, n) - 1
  BY DEF Decision
<1>3. /\ p[2].played = d.played /\ p[2].legal = d.view.legalPlays
      /\ p[2].optimal = {e \in Engines : OptimalPlay(e, d.view, d.played)}
  BY <1>1 DEF GradedPlay
<1>4. \A e \in Engines : (e \in p[2].optimal) <=> OptimalPlay(e, d.view, d.played)
  BY <1>3
<1>. QED BY <1>1, <1>2, <1>3, <1>4

LEMMA DecisionsFilmed ==
  ASSUME GameLogInv, LevelInv, winner # NoSeat
  PROVE  DecisionsAreTheFrames
<1>. DEFINE fr == Frames
<1>1. LogInv /\ OpenInv /\ ShapeInv /\ FitInv /\ SeenInv
  BY DEF GameLogInv, LogSide
<1>2. Film(fr, Len(log))
  BY <1>1, FramesFilm
<1>. HIDE DEF fr
<1>3. ASSUME NEW s \in Seat
      PROVE  LET deals  == AnalyzeGame(log, s).deals
                 shown  == UNION {{<<deals[i].deal, deals[i].plays[j]>> : j \in DOMAIN deals[i].plays} :
                                    i \in DOMAIN deals}
                 chosen == {d \in decided : d.seat = s /\ NonForced(d.view)}
             IN  /\ Cardinality(shown) = Cardinality(chosen)
                 /\ \A d \in chosen : \E p \in shown :
                      /\ p[1] = d.deal
                      /\ p[2].played = d.played
                      /\ p[2].legal = d.view.legalPlays
                      /\ \A e \in Engines : (e \in p[2].optimal) <=> OptimalPlay(e, d.view, d.played)
                 /\ \A p \in shown : \E k \in DOMAIN fr :
                      /\ k > 1
                      /\ fr[k - 1].hand = p[1] + 1
                      /\ fr[k - 1].hands[s] = p[2].hand
                      /\ fr[k - 1].pile = p[2].pile
                      /\ fr[k - 1].count = p[2].count
                      /\ fr[k].hands[s] = p[2].hand \ {p[2].played}
  <2>1. PICK deals : deals = AnalyzedDeals(log, s)
    OBVIOUS
  <2>2. AnalyzeGame(log, s).deals = deals
    BY <2>1 DEF AnalyzeGame
  <2>3. PICK shown : shown = ShownPlays(deals)
    OBVIOUS
  <2>4. PICK chosen : chosen = Noted(s)
    OBVIOUS
  <2>5. shown = {ListedAs(n) : n \in ChoicesOf(s)}
    BY <2>1, <2>3, ShownAreChoices
  <2>6. /\ chosen = {Decision(log, n) : n \in ChoicesOf(s)}
        /\ IsFiniteSet(ChoicesOf(s)) /\ Cardinality(chosen) = Cardinality(ChoicesOf(s))
    BY <1>1, <2>4, ChoicesNoted
  <2>7. Cardinality(shown) = Cardinality(chosen)
    BY <1>1, <2>5, <2>6, ListedOnce
  <2>8. ASSUME NEW d \in chosen
        PROVE  \E p \in shown :
                 /\ p[1] = d.deal
                 /\ p[2].played = d.played
                 /\ p[2].legal = d.view.legalPlays
                 /\ \A e \in Engines : (e \in p[2].optimal) <=> OptimalPlay(e, d.view, d.played)
    <3>1. PICK n \in ChoicesOf(s) : d = Decision(log, n)
      BY <2>6
    <3>2. PICK p : p = ListedAs(n)
      OBVIOUS
    <3>3. /\ p[1] = d.deal /\ p[2].played = d.played /\ p[2].legal = d.view.legalPlays
          /\ \A e \in Engines : (e \in p[2].optimal) <=> OptimalPlay(e, d.view, d.played)
      BY <3>1, <3>2, ListedFairly
    <3>4. p \in shown
      BY <2>5, <3>2
    <3>. QED BY <3>3, <3>4
  <2>9. ASSUME NEW p \in shown PROVE \E k : PlayedIn(fr, s, p, k)
    <3>1. PICK n \in ChoicesOf(s) : p = ListedAs(n)
      BY <2>5
    <3>. QED BY <1>1, <1>2, <3>1, PlaysAreFrames
  <2>10. ASSUME NEW p \in shown
         PROVE  \E k \in DOMAIN fr :
                      /\ k > 1
                      /\ fr[k - 1].hand = p[1] + 1
                      /\ fr[k - 1].hands[s] = p[2].hand
                      /\ fr[k - 1].pile = p[2].pile
                      /\ fr[k - 1].count = p[2].count
                      /\ fr[k].hands[s] = p[2].hand \ {p[2].played}
    BY <2>9 DEF PlayedIn
  <2>11. shown = UNION {{<<AnalyzeGame(log, s).deals[i].deal, AnalyzeGame(log, s).deals[i].plays[j]>> :
                            j \in DOMAIN AnalyzeGame(log, s).deals[i].plays} :
                          i \in DOMAIN AnalyzeGame(log, s).deals}
    BY <2>2, <2>3 DEF ShownPlays
  <2>12. chosen = {d \in decided : d.seat = s /\ NonForced(d.view)}
    BY <2>4 DEF Noted
  <2>. QED BY ONLY <2>7, <2>8, <2>10, <2>11, <2>12
<1>. QED BY <1>3 DEF DecisionsAreTheFrames, fr

-----------------------------------------------------------------------------
\* All that is known of the log, with the two folds of it beside each other.
PageLogInv == GameLogInv /\ EvenInv /\ LevelInv

LEMMA PageLogIsKept == HistorySpec => []PageLogInv
<1>1. HistoryInit => PageLogInv
  BY InitGameLog, InitEven, InitLevel DEF PageLogInv
<1>2. PageLogInv /\ [HistoryNext]_historyVars => PageLogInv'
  <2>. SUFFICES ASSUME PageLogInv, [HistoryNext]_historyVars PROVE PageLogInv'
    OBVIOUS
  <2>1. GameLogInv'
    BY GameLogNext DEF PageLogInv
  <2>2. Logged
    BY HistoryIsLogged
  <2>3. GameInv /\ TellInv /\ LogInv /\ EvenInv /\ LevelInv
    BY DEF PageLogInv, GameLogInv, LogSide
  <2>4. EvenInv' /\ LevelInv'
    BY <2>2, <2>3, EvenInvNext, LevelInvNext
  <2>. QED BY <2>1, <2>4 DEF PageLogInv
<1>. QED BY <1>1, <1>2, PTL DEF HistorySpec

(***************************************************************************)
(* The evaluate page tells the game.  Its frames are the engine's games.   *)
(* The rail lines up with them: every hand of the replay is graded, and a  *)
(* hand's mark jumps to the frame in which it is dealt, with the dealer,   *)
(* the six cards and the scores it was graded with, though the frames stop *)
(* the pegs at the target and the analysis does not.  Every choice the     *)
(* player had is listed once, under its deal, with the verdicts of the     *)
(* view it was made from, and is the play of a frame that shows it.  And   *)
(* the marks tell what the summary counts.  evaluateModel.js 113-116,      *)
(* analysis2.go 493-559.                                                   *)
(***************************************************************************)
THEOREM EvaluatePageTellsTheGame == HistorySpec => []PageTellsTheGame
<1>1. PageLogInv => PageTellsTheGame
  <2>. SUFFICES ASSUME PageLogInv PROVE PageTellsTheGame
    OBVIOUS
  <2>0. GameLogInv /\ EvenInv /\ LevelInv
    BY DEF PageLogInv
  <2>1. CASE winner # NoSeat
    <3>1. RailLinesUp
      BY <2>0, <2>1, RailOfFilm
    <3>2. DecisionsAreTheFrames
      BY <2>0, <2>1, DecisionsFilmed
    <3>3. MarksMatchTheSummary
      BY <2>0, <2>1, MarksTell
    <3>4. FramesTellTheGame
      BY <2>0, FilmTells
    <3>. QED BY <3>1, <3>2, <3>3, <3>4 DEF PageTellsTheGame
  <2>2. CASE winner = NoSeat
    <3>1. ~Over
      BY <2>2 DEF Over
    <3>. QED BY <3>1 DEF PageTellsTheGame, FramesTellTheGame, RailLinesUp,
                         DecisionsAreTheFrames, MarksMatchTheSummary
  <2>. QED BY <2>1, <2>2
<1>. QED BY <1>1, PageLogIsKept, PTL
=============================================================================

------------------------------ MODULE Results ------------------------------
(***************************************************************************)
(* The permanent record of finished games and what is read from it: the    *)
(* history and statistics pages, and who may open the analysis and the     *)
(* replay of a game (result.go, result_postgres.go, result_handlers.go,    *)
(* stats.go, analysis2.go).                                                *)
(*                                                                         *)
(* Both implementations of the store are fed the same saves: the one in    *)
(* memory, a map from ids to results, and the table of Postgres, whose     *)
(* guests are NULL.  A save may fail, or be made and reported as failed;   *)
(* it is tried again with the session's lock held.  A game's events are    *)
(* abstracted to what the statistics take from them, the points a seat     *)
(* scored in each category.  Two games never end at the same instant.      *)
(***************************************************************************)
EXTENDS Integers, FiniteSets, Sequences, FiniteSetsExt


CONSTANTS Games, Accounts,
          Guest,     \* the empty player id
          NULL,      \* SQL's
          Target,
          Outcomes,  \* the points by seat and category a game may end with
          Attempts,  \* how often a save is tried (5)
          ListLimit  \* how many games the history page lists (50)

Seat == {0, 1}
Other(s) == 1 - s
NoSeat == -1
Category == {"pegging", "hand", "crib"}

Sum(p) == p.pegging + p.hand + p.crib

ASSUME OutcomesAssumption ==
  \A o \in Outcomes : /\ o \in [Seat -> [Category -> Nat]]
                      /\ \E s \in Seat : Sum(o[s]) >= Target /\ Sum(o[Other(s)]) < Target

ASSUME TargetAssumption == Target \in Nat \ {0}
ASSUME NullAssumption == NULL \notin Accounts \cup {Guest}
ASSUME LimitAssumption == ListLimit \in Nat \ {0}

VARIABLES table,    \* the session of each game
          live,     \* the games the registry holds
          held,     \* games whose lock the handler of the last move holds
          tries,    \* failed attempts to save a result
          memRows, pgRows,  \* the two stores
          clock

resultVars == <<table, live, held, tries, memRows, pgRows, clock>>

Nobody == [ids |-> [s \in Seat |-> Guest], names |-> [s \in Seat |-> Guest],
           bot |-> FALSE, taken |-> FALSE, winner |-> NoSeat, events |-> {}, endedAt |-> 0]

-----------------------------------------------------------------------------
(* The stores.                                                             *)

NullStr(id) == IF id = Guest THEN NULL ELSE id
FromNull(col) == IF col = NULL THEN Guest ELSE col

SqlEq(a, b) == a # NULL /\ b # NULL /\ a = b

ResultOf(g) ==
  LET t == table[g]
  IN  [id |-> g, ids |-> t.ids, names |-> t.names, winner |-> t.winner,
       scores |-> [s \in Seat |-> IF Sum(t.events[s]) > Target THEN Target
                                                              ELSE Sum(t.events[s])],
       events |-> t.events, endedAt |-> t.endedAt, bots |-> [s \in Seat |-> t.bot /\ s = 1]]

\* A duplicate id is ignored.
SaveMem(r) == IF \E x \in memRows : x.id = r.id THEN memRows ELSE memRows \cup {r}

RowOf(r) == [r EXCEPT !.ids = [s \in Seat |-> NullStr(@[s])]]
SavePg(r) == IF \E row \in pgRows : row.id = r.id THEN pgRows ELSE pgRows \cup {RowOf(r)}

Involves(r, id) == id # Guest /\ \E s \in Seat : r.ids[s] = id
RowInvolves(row, id) == \E s \in Seat : SqlEq(row.ids[s], id)

Scanned(row) == [row EXCEPT !.ids = [s \in Seat |-> FromNull(@[s])]]

MemResults(id) == {r \in memRows : Involves(r, id)}
PgResults(id) == {Scanned(row) : row \in {x \in pgRows : RowInvolves(x, id)}}

\* (Mutated form: the first seat's winner is the player's win.)
MemStatsOfSeat0(id) ==
  [total |-> Cardinality(MemResults(id)),
   wins  |-> Cardinality({r \in MemResults(id) : r.winner = 0})]

MemStats(id) ==
  [total |-> Cardinality(MemResults(id)),
   wins  |-> Cardinality({r \in MemResults(id) : r.ids[r.winner] = id})]

PgStats(id) ==
  LET rows == {row \in pgRows : RowInvolves(row, id)}
  IN  [total |-> Cardinality(rows),
       wins  |-> Cardinality({row \in rows : \E s \in Seat : SqlEq(row.ids[s], id) /\ row.winner = s})]

\* ResultsForPlayer: newest first, and no more than the page lists.
Newest(results) ==
  LET place(r) == Cardinality({x \in results : x.endedAt >= r.endedAt})
  IN  [i \in 1..Min({Cardinality(results), ListLimit}) |-> CHOOSE r \in results : place(r) = i]

MemById(g) == {r \in memRows : r.id = g}

-----------------------------------------------------------------------------
(* The pages.                                                              *)

\* summarize: the seat the history page takes for the player's own.
Mine(r, id) == IF r.ids[0] = id THEN 0 ELSE 1

Summarize(r, id) ==
  LET me == Mine(r, id)
  IN  [id |-> r.id, opponent |-> r.names[Other(me)], yours |-> r.scores[me],
       theirs |-> r.scores[Other(me)], won |-> r.winner = me, endedAt |-> r.endedAt]

\* The history page, from the results and the totals of either store.
UserGames(results, stats, id) ==
  LET list == Newest(results)
  IN  [games  |-> [i \in DOMAIN list |-> Summarize(list[i], id)],
       total  |-> stats.total,
       wins   |-> stats.wins,
       losses |-> stats.total - stats.wins]

\* The seat the statistics, the analysis and the replay take for the player's.
SeatOf(r, id) == IF r.ids[1] = id THEN 1 ELSE 0

CategoryStats(results, id, cat) ==
  LET points(r) == r.events[SeatOf(r, id)][cat]
  IN  IF results = {} THEN [min |-> 0, max |-> 0, total |-> 0]
      ELSE [min   |-> Min({points(r) : r \in results}),
            max   |-> Max({points(r) : r \in results}),
            total |-> MapThenSumSet(points, results)]

PointStats(id) ==
  LET results == MemResults(id)
  IN  [games |-> Cardinality(results),
       points |-> [cat \in Category |-> CategoryStats(results, id, cat)]]

\* participantGame: what the analysis and the replay are made from.
FromSession(g, seat) ==
  LET t == table[g]
  IN  [status |-> 200, events |-> t.events, seat |-> seat, names |-> t.names,
       bots |-> [s \in Seat |-> t.bot /\ s = 1], winner |-> t.winner]

\* (Mutated form: the record does not say who was a bot.)
FromResultWithoutBots(r, seat) ==
  [status |-> 200, events |-> r.events, seat |-> seat, names |-> r.names,
   bots |-> [s \in Seat |-> FALSE], winner |-> r.winner]

FromResult(r, seat) ==
  [status |-> 200, events |-> r.events, seat |-> seat, names |-> r.names,
   bots |-> r.bots, winner |-> r.winner]

Refused(status) == [status |-> status]

\* A credential is the token of a seat of some game, an account's cookie, both
\* or neither.
NoToken == [game |-> NULL, seat |-> NoSeat]

OpensSession(token, g) == token # NoToken /\ token.game = g /\ g \in live

\* The cookie's answer.
ByAccount(g, id) ==
  LET found == {r \in MemById(g) : Involves(r, id)}
  IN  IF found = {} THEN Refused(404)
      ELSE LET r == CHOOSE x \in found : TRUE IN FromResult(r, SeatOf(r, id))

\* finishedGameSubject: the token against the registry, then the cookie.
Subject(g, token, id) ==
  IF OpensSession(token, g)
    THEN IF table[g].winner # NoSeat THEN FromSession(g, token.seat) ELSE Refused(409)
  ELSE IF id # Guest THEN ByAccount(g, id)
  ELSE IF token # NoToken THEN Refused(404)
  ELSE Refused(401)

-----------------------------------------------------------------------------
(* Steps.                                                                  *)

\* handleCreate and seatIdentity: an account's id and name, or a guest's.
Create(g, id, bot) ==
  /\ table[g] = Nobody /\ g \notin live
  /\ table' = [table EXCEPT ![g] = [Nobody EXCEPT !.ids[0] = id, !.names[0] = id,
                                                  !.bot = bot, !.taken = bot]]
  /\ live' = live \cup {g}
  /\ UNCHANGED <<held, tries, memRows, pgRows, clock>>

\* handleJoin asks only whether the seat is free.
Join(g, id) ==
  /\ g \in live
  /\ ~table[g].taken
  /\ table' = [table EXCEPT ![g] = [@ EXCEPT !.ids[1] = id, !.names[1] = id, !.taken = TRUE]]
  /\ UNCHANGED <<live, held, tries, memRows, pgRows, clock>>

HasAccount(g) == \E s \in Seat : table[g].ids[s] # Guest

\* The last move, and recordResult up to the first save.
Finish(g, o) ==
  /\ g \in live \ held
  /\ table[g].taken /\ table[g].winner = NoSeat
  /\ clock' = clock + 1
  /\ table' = [table EXCEPT ![g] = [@ EXCEPT !.events = o, !.endedAt = clock + 1,
                                              !.winner = CHOOSE s \in Seat : Sum(o[s]) >= Target]]
  /\ held' = IF HasAccount(g) THEN held \cup {g} ELSE held
  /\ UNCHANGED <<live, tries, memRows, pgRows>>

Written(g) == memRows' = SaveMem(ResultOf(g)) /\ pgRows' = SavePg(ResultOf(g))

Save(g) ==
  /\ g \in held
  /\ Written(g)
  /\ held' = held \ {g}
  /\ UNCHANGED <<table, live, tries, clock>>

\* saveResultRetrying: an error, with or without the row behind it.
SaveFails(g) ==
  /\ g \in held
  /\ Written(g) \/ UNCHANGED <<memRows, pgRows>>
  /\ tries' = [tries EXCEPT ![g] = @ + 1]
  /\ IF tries[g] + 1 < Attempts
       THEN UNCHANGED held
       ELSE held' = held \ {g}
  /\ UNCHANGED <<table, live, clock>>

\* The reaper takes a session off the registry.
Reap(g) ==
  /\ g \in live \ held
  /\ live' = live \ {g}
  /\ UNCHANGED <<table, held, tries, memRows, pgRows, clock>>

ResultsInit ==
  /\ table = [g \in Games |-> Nobody]
  /\ live = {}
  /\ held = {}
  /\ tries = [g \in Games |-> 0]
  /\ memRows = {}
  /\ pgRows = {}
  /\ clock = 0

ResultsNext ==
  \E g \in Games :
    \/ \E id \in Accounts \cup {Guest}, bot \in BOOLEAN : Create(g, id, bot)
    \/ \E id \in Accounts \cup {Guest} : Join(g, id)
    \/ \E o \in Outcomes : Finish(g, o)
    \/ Save(g)
    \/ SaveFails(g)
    \/ Reap(g)

ResultsSpec == ResultsInit /\ [][ResultsNext]_resultVars

-----------------------------------------------------------------------------
(* Properties.                                                             *)

\* Nobody plays this game on both sides.
TwoPlayers(r) == \A s \in Seat : r.ids[s] # Guest => r.ids[s] # r.ids[Other(s)]

PlaysOthers(id) == \A r \in MemResults(id) : TwoPlayers(r)

\* The points of a player's lifetime, and of the games the page lists.
LifetimePoints(pts) == MapThenSumSet(LAMBDA cat : pts.points[cat].total, Category)
ListedPoints(games) == MapThenSumSet(LAMBDA i : games[i].yours, DOMAIN games)

(***************************************************************************)
(* However the saves failed and were repeated, the history page is the     *)
(* same over either store, and it adds up: its wins are the games it lists *)
(* as won, as far as the list goes, the lifetime points cover the scores,  *)
(* and the list is the newest games (result_handlers.go, stats.go).        *)
(***************************************************************************)
HistoryAddsUp ==
  \A id \in Accounts :
    LET page == UserGames(MemResults(id), MemStats(id), id)
        won  == {i \in DOMAIN page.games : page.games[i].won}
        pts  == PointStats(id)
    IN  /\ page = UserGames(PgResults(id), PgStats(id), id)
        /\ PlaysOthers(id) =>
             /\ Cardinality(won) <= page.wins
             /\ Len(page.games) - Cardinality(won) <= page.losses
             /\ Len(page.games) = Min({page.total, ListLimit})
             /\ pts.games = page.total
             /\ LifetimePoints(pts) >= ListedPoints(page.games)
             /\ \A r \in MemResults(id) :
                  \/ \E i \in DOMAIN page.games : page.games[i].id = r.id
                  \/ \A i \in DOMAIN page.games : page.games[i].endedAt > r.endedAt

\* The accounts that hold a seat, by the seat's token.
SameAnswer(g, s) ==
  LET byToken  == Subject(g, [game |-> g, seat |-> s], Guest)
      byCookie == Subject(g, NoToken, table[g].ids[s])
  IN  byToken.status = 200 /\ byCookie.status = 200 => byToken = byCookie

(***************************************************************************)
(* The seat's token and the player's cookie open the same game with the    *)
(* same seat, roster and winner, for a player who does not sit on both     *)
(* sides.                                                                  *)
(***************************************************************************)
PathsAgree ==
  \A g \in live \ held : TwoPlayers(table[g]) =>
    \A s \in Seat : table[g].ids[s] # Guest => SameAnswer(g, s)
=============================================================================

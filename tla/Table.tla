------------------------------- MODULE Table -------------------------------
(***************************************************************************)
(* A game against a bot: the server's handlers around the engine           *)
(* (server.go, session.go) and the page that drives it (main.js), which    *)
(* asks for a snapshot, prompts the person, posts the move and plays back  *)
(* the deltas of the answer, the bot's replies among them.                 *)
(*                                                                         *)
(* The person sits at seat 0, the bot at seat 1.  The table the page shows *)
(* is accumulated from the deltas, and read from a snapshot only when the  *)
(* page is loaded again; the server's lock is held from the move to its    *)
(* answer, while the bot moves.  A request is lost on its way or on its    *)
(* way back; a post that has not reached the server when the page is left  *)
(* never does.  Clicks that only let the show go on are part of the step   *)
(* they hold up.                                                           *)
(***************************************************************************)
EXTENDS ReplayFrames

CONSTANTS DoubleSkunk, \* a loser below this many points is skunked twice (61)
          Skunk,       \* and below this many once (91)
          MaxReloads,  \* bound: how often the page is loaded again
          MaxFailures  \* bound: how many requests are lost

\* The page creates its games without a target, so they go to the 121 it caps
\* its own scores at, and handleCreate gives none a head start.
ASSUME BotGameAssumption == ReplayTarget = Target /\ Starts = {}

You == 0
Bot == 1

VARIABLES at,      \* where the page's driver stands
          ui,      \* the table the page shows
          pegs,    \* the front pegs of its board
          ctx,     \* the driver's dealer and starter
          move,    \* the person's move on its way
          deltas,  \* the answer's deltas still to be played back
          busy,    \* the server is answering a move, under the session's lock
          base,    \* the version that move found
          reloads, \* how often the page has been loaded again
          lost     \* how many requests have been lost

pageVars == <<at, ui, pegs, ctx, move, deltas, reloads, lost>>
tableVars == <<historyVars, pageVars, busy, base>>

-----------------------------------------------------------------------------
(* The server: the bot, and what an answer tells a viewer.                 *)

\* (Mutated form: the bot answers a play with one card at most.)
BotOwesOneReply ==
  /\ winner = NoSeat
  /\ \/ phase = "discard" /\ ~Discarded(Bot)
     \/ phase = "play" /\ Turn = Bot /\ lastPlayer # Bot

\* driveBots goes on while this holds.
BotToAct ==
  /\ winner = NoSeat
  /\ \/ phase = "discard" /\ ~Discarded(Bot)
     \/ phase = "play" /\ Turn = Bot

\* (Mutated form: a throw is sent as it is in the log.)
SeenWhole(viewer, e) ==
  CASE e.type = "hand_dealt" -> [type |-> e.type, dealer |-> e.dealer, hand |-> e.hands[viewer]]
    [] OTHER                 -> e

\* projectEvent leaves out what the viewer may not see.
SeenBy(viewer, e) ==
  CASE e.type = "hand_dealt" -> [type |-> e.type, dealer |-> e.dealer, hand |-> e.hands[viewer]]
    [] e.type = "discarded" /\ e.seat # viewer -> [type |-> e.type, seat |-> e.seat]
    [] OTHER                 -> e

Delta(viewer, events, i) ==
  LET d == SeenBy(viewer, [events[i] EXCEPT !.type = WireType(@)])
  IN  IF d.type = "card_played" THEN WithCount(d, ScoredCount(events, i)) ELSE d

DeltasSince(viewer, events, version) ==
  [i \in 1..(Len(events) - version) |-> Delta(viewer, events, version + i)]

Snapshot == View(Live, Len(log), You)

Apply(s, cmd) ==
  IF cmd.type = "discard" THEN LoggedDiscard(s, cmd.cards) ELSE LoggedPlay(s, cmd.card)

-----------------------------------------------------------------------------
(* What the page shows.                                                    *)

NoReveal == [hands |-> Empty, crib |-> {}]
NoResult == [won |-> FALSE, my |-> -1, opp |-> -1, skunk |-> ""]
NoMove == [type |-> ""]

Fresh ==
  [dealer |-> NoSeat, score |-> [s \in Seat |-> 0], hand |-> {}, botCards |-> 0,
   played |-> Empty, count |-> 0, starter |-> NoCard, cribCount |-> 0,
   inPlay |-> FALSE, show |-> NoReveal, over |-> NoResult]

\* The page and its board both stop at the last hole.
Capped(n) == IF n > ReplayTarget THEN ReplayTarget ELSE n

\* The "deal" event.
Dealt(u, dl, hand) ==
  [u EXCEPT !.dealer = dl, !.hand = hand, !.botCards = 6, !.cribCount = 0,
            !.starter = NoCard, !.played = Empty, !.count = 0, !.inPlay = FALSE]

\* "handComplete": the reveal is cleared before the next deal.
HandComplete(u, dl) ==
  [u EXCEPT !.show = NoReveal, !.dealer = dl, !.played = Empty, !.count = 0,
            !.inPlay = FALSE]

Awarded(u, s, pts) == [u EXCEPT !.score[s] = Capped(@ + pts)]

\* (Mutated form: a card of either seat leaves the bot's hand.)
LaidFromBot(u, d) ==
  [Awarded(u, d.seat, d.points) EXCEPT
     !.played[d.seat] = @ \cup {d.card}, !.count = d.count, !.botCards = @ - 1]

Laid(u, d) ==
  [Awarded(u, d.seat, d.points) EXCEPT
     !.played[d.seat] = @ \cup {d.card}, !.count = d.count,
     !.botCards = IF d.seat = Bot /\ @ > 0 THEN @ - 1 ELSE @]

\* "show" and "showUncounted": one more hand or crib is turned over.
Reveal(u, s, isCrib, cards) ==
  [u EXCEPT !.botCards = IF s = Bot /\ ~isCrib THEN 0 ELSE @,
            !.starter = ctx.starter, !.inPlay = FALSE, !.played = Empty,
            !.show = IF isCrib THEN [@ EXCEPT !.crib = cards]
                               ELSE [@ EXCEPT !.hands[s] = cards]]

SkunkOf(sc, w) ==
  LET lose == sc[Other(w)]
  IN  IF lose < DoubleSkunk THEN "double" ELSE IF lose < Skunk THEN "skunk" ELSE "none"

GameOverBox(u, w) ==
  [u EXCEPT !.over = [won |-> w = You, my |-> Capped(u.score[You]),
                      opp |-> Capped(u.score[Bot]), skunk |-> SkunkOf(u.score, w)]]

\* translate and onEvent: the table after one delta.
Shown(u, d) ==
  CASE d.type = "hand_dealt"     -> Dealt(HandComplete(u, d.dealer), d.dealer, d.hand)
    [] d.type = "starter_cut"    -> [Awarded(u, ctx.dealer, d.points) EXCEPT
                                       !.cribCount = 4, !.botCards = 4,
                                       !.starter = d.card, !.inPlay = TRUE]
    [] d.type = "card_played"    -> Laid(u, d)
    [] d.type = "go"             -> Awarded(u, d.seat, d.points)
    [] d.type = "series_reset"   -> [u EXCEPT !.count = 0]
    [] d.type = "hand_shown"     -> Reveal(Awarded(u, d.seat, d.points), d.seat, FALSE, d.cards)
    [] d.type = "crib_shown"     -> Reveal(Awarded(u, ctx.dealer, d.points), ctx.dealer, TRUE, d.cards)
    [] d.type = "show_uncounted" -> Reveal(u, d.seat, d.isCrib, d.cards)
    [] d.type = "game_won"       -> GameOverBox(u, d.seat)
    [] OTHER                     -> u

CtxAfter(c, d) ==
  CASE d.type = "hand_dealt"  -> [dealer |-> d.dealer, starter |-> NoCard]
    [] d.type = "starter_cut" -> [c EXCEPT !.starter = d.card]
    [] OTHER                  -> c

Pays(d) == d.type \in {"starter_cut", "card_played", "go", "hand_shown", "crib_shown"}

\* In the play the peg moves by what was scored; at the show it jumps to the
\* score the page has.
PegsAfter(d) ==
  IF Pays(d) /\ d.points > 0
    THEN LET s == IF d.type \in {"starter_cut", "crib_shown"} THEN ctx.dealer ELSE d.seat
         IN  [pegs EXCEPT ![s] = IF d.type \in {"hand_shown", "crib_shown"}
                                   THEN Capped(ui.score[s] + d.points)
                                   ELSE Capped(@ + d.points)]
    ELSE pegs

\* (Mutated form: the score is left to add up again.)
HydratedAtZero(v) ==
  [Fresh EXCEPT !.dealer = v.dealer, !.hand = v.yourHand, !.botCards = v.opponentCards,
                !.played = [s \in Seat |-> IF s = You THEN v.yourPlayed ELSE v.opponentPlayed],
                !.count = v.count, !.starter = v.starter, !.inPlay = (v.phase = "play"),
                !.cribCount = IF v.phase = "discard" THEN 0 ELSE 4]

\* The table painted from a snapshot when a game is taken up again.
Hydrated(v) ==
  [Fresh EXCEPT !.dealer = v.dealer, !.score = v.scores, !.hand = v.yourHand,
                !.botCards = v.opponentCards,
                !.played = [s \in Seat |-> IF s = You THEN v.yourPlayed ELSE v.opponentPlayed],
                !.count = v.count,
                !.starter = IF v.phase = "discard" THEN NoCard ELSE v.starter,
                !.inPlay = (v.phase = "play"),
                !.cribCount = IF v.phase = "discard" THEN 0 ELSE 4]

-----------------------------------------------------------------------------
(* Steps of the server.                                                    *)

\* handleCreate: the bot takes its opening action before the answer.
Create ==
  /\ at = "creating"
  /\ \E two \in Throws : Apply(Bot, [type |-> "discard", cards |-> two])
  /\ at' = "opening"
  /\ UNCHANGED <<ui, pegs, ctx, move, deltas, busy, base, reloads, lost>>

\* handleAction, up to the move itself.
Handle ==
  /\ at = "posting" /\ ~busy
  /\ Apply(You, move)
  /\ busy' = TRUE
  /\ base' = Len(log)
  /\ UNCHANGED pageVars

\* driveBots: one move of the bot, still under the lock.
BotMoves ==
  /\ busy
  /\ BotToAct
  /\ \/ \E two \in Throws : Apply(Bot, [type |-> "discard", cards |-> two])
     \/ \E c \in LegalPlays(Bot) : Apply(Bot, [type |-> "play", card |-> c])
  /\ UNCHANGED <<pageVars, busy, base>>

\* The answer, which a page that was loaded again does not wait for.
Answer ==
  /\ busy
  /\ ~BotToAct
  /\ busy' = FALSE
  /\ IF at = "posting" THEN /\ at' = "animating"
                            /\ deltas' = DeltasSince(You, log, base)
                       ELSE UNCHANGED <<at, deltas>>
  /\ UNCHANGED <<historyVars, ui, pegs, ctx, move, base, reloads, lost>>

-----------------------------------------------------------------------------
(* Steps of the page.                                                      *)

\* startBot: the first deal is shown from a snapshot.
Open ==
  /\ at = "opening"
  /\ ui' = Dealt(Fresh, dealer, Snapshot.yourHand)
  /\ ctx' = [dealer |-> dealer, starter |-> NoCard]
  /\ at' = "asking"
  /\ UNCHANGED <<historyVars, pegs, move, deltas, busy, base, reloads, lost>>

\* driveBot: a snapshot says what the person is asked for.
Ask ==
  /\ at = "asking" /\ ~busy
  /\ LET v == Snapshot
     IN  /\ at' = CASE v.winner # NoSeat -> "over"
                    [] v.winner = NoSeat /\ v.phase = "discard" /\ Cardinality(v.yourHand) = 6 -> "discarding"
                    [] v.winner = NoSeat /\ v.phase = "play" /\ v.toPlay = You -> "playing"
                    [] OTHER -> "stranded"
         /\ ui' = IF v.winner = NoSeat THEN [ui EXCEPT !.hand = v.yourHand] ELSE ui
  /\ UNCHANGED <<historyVars, pegs, ctx, move, deltas, busy, base, reloads, lost>>

\* confirmDiscard and playCard: the cards leave the hand before the post.
PostDiscard(two) ==
  /\ at = "discarding"
  /\ two \subseteq ui.hand
  /\ ui' = [ui EXCEPT !.hand = @ \ two]
  /\ move' = [type |-> "discard", cards |-> two]
  /\ at' = "posting"
  /\ UNCHANGED <<historyVars, pegs, ctx, deltas, busy, base, reloads, lost>>

\* Only a card of the prompt's legal plays can be clicked.
PostPlay(c) ==
  /\ at = "playing"
  /\ c \in Snapshot.legalPlays
  /\ ui' = [ui EXCEPT !.hand = @ \ {c}]
  /\ move' = [type |-> "play", card |-> c]
  /\ at' = "posting"
  /\ UNCHANGED <<historyVars, pegs, ctx, deltas, busy, base, reloads, lost>>

\* animate: one delta is played back.
Animate ==
  /\ at = "animating" /\ deltas # <<>>
  /\ ui' = Shown(ui, Head(deltas))
  /\ ctx' = CtxAfter(ctx, Head(deltas))
  /\ pegs' = PegsAfter(Head(deltas))
  /\ deltas' = Tail(deltas)
  /\ UNCHANGED <<historyVars, at, move, busy, base, reloads, lost>>

AskAgain ==
  /\ at = "animating" /\ deltas = <<>>
  /\ at' = "asking"
  /\ move' = NoMove
  /\ UNCHANGED <<historyVars, ui, pegs, ctx, deltas, busy, base, reloads, lost>>

\* The page is loaded again: the new one finds the saved game and starts over
\* from an empty board.  The result box has already dropped the saved game.
Reload ==
  /\ at \notin {"creating", "elsewhere", "over"}
  /\ ui.over = NoResult
  /\ reloads < MaxReloads
  /\ reloads' = reloads + 1
  /\ at' = "resuming"
  /\ ui' = Fresh
  /\ pegs' = [s \in Seat |-> 0]
  /\ ctx' = [dealer |-> NoSeat, starter |-> NoCard]
  /\ move' = NoMove
  /\ deltas' = <<>>
  /\ UNCHANGED <<historyVars, busy, base, lost>>

CtxOf(v) == [dealer |-> v.dealer, starter |-> Hydrated(v).starter]

\* resumeBot: a finished game is dropped for a new one.
Resume ==
  /\ at = "resuming" /\ ~busy
  /\ IF Snapshot.winner # NoSeat
       THEN at' = "elsewhere" /\ UNCHANGED <<ui, ctx>>
       ELSE at' = "asking" /\ ui' = Hydrated(Snapshot) /\ ctx' = CtxOf(Snapshot)
  /\ UNCHANGED <<historyVars, pegs, move, deltas, busy, base, reloads, lost>>

\* A request or its answer is lost: the driver ends, except that a page that
\* was resuming takes the game for gone and starts another.
Lose ==
  /\ at \in {"opening", "asking", "posting", "resuming"}
  /\ lost < MaxFailures
  /\ lost' = lost + 1
  /\ at' = IF at = "resuming" THEN "elsewhere" ELSE "dead"
  /\ UNCHANGED <<historyVars, ui, pegs, ctx, move, deltas, busy, base, reloads>>

-----------------------------------------------------------------------------
TableInit ==
  /\ HistoryInit
  /\ at = "creating"
  /\ ui = Fresh
  /\ pegs = [s \in Seat |-> 0]
  /\ ctx = [dealer |-> NoSeat, starter |-> NoCard]
  /\ move = NoMove
  /\ deltas = <<>>
  /\ busy = FALSE
  /\ base = 0
  /\ reloads = 0
  /\ lost = 0

ServerStep == Create \/ Handle \/ BotMoves \/ Answer

PersonStep ==
  \/ \E two \in Throws : PostDiscard(two)
  \/ \E c \in ui.hand : PostPlay(c)

PageStep == Open \/ Ask \/ Animate \/ AskAgain \/ Resume

TableNext == ServerStep \/ PersonStep \/ PageStep \/ Reload \/ Lose

TableSpec == TableInit /\ [][TableNext]_tableVars

-----------------------------------------------------------------------------
(* Properties.                                                             *)

Prompted == at \in {"discarding", "playing"}

(***************************************************************************)
(* Whenever a card is asked for, the table put together from the deltas,   *)
(* or painted from a snapshot and carried on from there, is the seat's     *)
(* view on the server: nothing the bot did in between, no pass, go, end of *)
(* a series or deal, is missed or shown twice (main.js, driveBot).         *)
(***************************************************************************)
TableIsTheView ==
  LET v == Snapshot
  IN  /\ Prompted => /\ ui.dealer = v.dealer
                     /\ ui.score = v.scores
                     /\ ui.hand = v.yourHand
                     /\ ui.played = [s \in Seat |-> IF s = You THEN v.yourPlayed
                                                             ELSE v.opponentPlayed]
                     /\ ui.count = v.count
                     /\ ui.starter = (IF v.phase = "play" THEN v.starter ELSE NoCard)
                     /\ ui.show = NoReveal
      /\ at = "playing" => /\ ui.botCards = v.opponentCards
                           /\ ui.cribCount = v.cribCards
                           /\ ui.inPlay

(***************************************************************************)
(* driveBot's comment: "The game always rests at a human decision or       *)
(* terminal between calls."  The loop's last branch, which would leave the *)
(* person before a table that never asks again, is not reached, wherever   *)
(* the page was loaded again.                                              *)
(***************************************************************************)
NeverStranded == at # "stranded"

(***************************************************************************)
(* The result box tells the game's result: the winner, both scores and the *)
(* skunk they make, also when the winning award was cut off at the target, *)
(* the show was cut short, or the page was loaded again on the way.        *)
(***************************************************************************)
FinalBoxIsTheResult ==
  /\ at = "over" => ui.over # NoResult
  /\ ui.over # NoResult =>
       /\ winner # NoSeat
       /\ ui.over = [won |-> winner = You, my |-> scores[You], opp |-> scores[Bot],
                     skunk |-> SkunkOf(scores, winner)]

\* The cards an answer or a snapshot names to a viewer.
NamedIn(d) ==
  (IF "hand" \in DOMAIN d THEN d.hand ELSE {})
    \cup (IF "cards" \in DOMAIN d THEN d.cards ELSE {})
    \cup (IF "card" \in DOMAIN d THEN {d.card} ELSE {})

LastDeal ==
  CHOOSE i \in DOMAIN log :
    log[i].type = "hand_dealt" /\ \A j \in (i + 1)..Len(log) : log[j].type # "hand_dealt"

(***************************************************************************)
(* Neither seat is told a card it may not know: in all the deltas since    *)
(* the deal, the other seat's hand and throw and the undealt starter stay  *)
(* unnamed until the show, although the log itself has them all.           *)
(***************************************************************************)
HandsStaySecret ==
  winner = NoSeat =>
    \A s \in Seat, i \in LastDeal..Len(log) :
      NamedIn(Delta(s, log, i)) \cap (hands[Other(s)] \cup thrown[Other(s)] \cup {rest}) = {}

(***************************************************************************)
(* main.js:137: "Advance the board on every score (the board is the score  *)
(* display - no header score)".  Whenever a card is asked for, the board   *)
(* shows the score.                                                        *)
(***************************************************************************)
PegsShowTheScore == Prompted => pegs = ui.score
=============================================================================

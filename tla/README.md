# Cribbager: a verification project

Cribbager is a two-player cribbage server: a pure rules engine in Go, an HTTP
server that keeps many live games and streams their events to browsers, a web
client, bots, and a deployer for a small machine. This directory holds TLA+
modules that model it, TLC configurations that check them on small instances,
and theorems checked by TLAPS.

All paths below are relative to the repository.

## 1. Inventory

| Component | State it keeps | Operations | Modules |
|---|---|---|---|
| Cards and scorers: `internal/cribbage`, `internal/scoring/{pegging,hand}` | none (pure) | `Score`, `Total` of a play and of a show | `Cards`, `Pegging`, `HandScore` |
| Rules engine: `internal/game` | dealer, phase, scores, hands, crib, starter, pile, count, passes, winner, undealt deck | `New`, `Apply(Discard)`, `Apply(Play)` | `CribbageGame` |
| Log readers: `snapshot.go`, `view.go`, `reconstruct.go`, `server/stats.go` | none: they fold the log | `Restore`, `View`, `ReconstructPlays`, `gamePoints` | `CribbageHistory` |
| Post-game pages: `server/analysis*.go`, `replay.go`, `replayFrames.js`, `evaluateModel.js`, `analyze.js` | none: they read a finished log | replay, both analyses, the page's frames and rail | `ReplayFrames`, `Analysis`, `Evaluate` |
| Bot game: `main.js` (`startBot` to `driveBot`), `server/server.go`, `session.go`, `wire.go` | the page's table, pegs and driver; the session | snapshot, post, `driveBots`, projection, reload | `Table` |
| Live session: `server/session.go`, handlers in `server/server.go` | seat tokens, left flags, subscribers and wake channels, presence counts, roster version | join, action, abandon, stream | `SessionStreams`, `Delivery` |
| Multiplayer page: `main.js`, `net/client.js` | delta queue, applied cursor, roster, prompt, saved entry | stream events, snapshot, post, abandon, reload | `Client` |
| Durability: `server/store*.go`, the registry and reaper, `Restore` at boot | session map, session table | `Save` after every change, `Delete` on reaping, `LoadAll` | `Durability` |
| Results: `server/result*.go`, `stats.go`, access of `analysis2.go` | finished games, in memory and in Postgres | save with retries, history, statistics, post-game access | `Results` |
| Accounts: `server/auth*.go` | users, logins, reset tokens, in memory and in Postgres | sign up, log in and out, request a reset, reset, expiry, reaping | `AuthTables`, `AuthStores`, `Accounts` |
| Rate limiter: `server/ratelimit.go` | a window and a count per key | `allow`, `sweep` | `RateLimiter`, `Quota` |
| Deployer: `deploy/macos/deploy.sh`, `run-app.sh` | releases, `current`, marks under `state/`, lock | deploy, rollback, resume, prune | `DeployLock`, `Deployer`, `DeployRuns` |
| Bots' evaluators: `internal/bot/eval`, `bot/lab/ladder`, and `server/tools.go`, which answers with them | none (pure): they read a view, or six cards and a score | rank the plays, rank the holds, belief about the opponent's hand, odds near the end, crib and odds tables | `Belief`, `WinOdds`, `Replies`, `DealWalk`, `Discards` |
| Other bots, neural network, metrics, CLI, data generators, training, board, backup | none shared | pure or batch | not modelled (section 7) |

How they interact: a handler finds a session in the registry, takes the
session's mutex, applies one command to the engine, lets the bots reply, wakes
the streams, writes the session through to the store, and at the end of a game
records its result. Streams wait on a channel that holds one token and copy what
is new under the same mutex, then write without it. The reaper walks the
registry every five minutes. At boot the store's rows are folded back into
games. The post-game pages read the log of a live session, or of a result once
the session is gone. launchd runs the deployer every minute beside the server.

### What is hard, and what makes each component correct

* **Engine.** One command triggers a chain: forced passes, the go, the end of a
  series, the show, the next deal. Correct if the seat on turn can always move,
  a pass is for good, scores stop at the target exactly for the winner, the
  non-dealer counts first, and every series pays its last card.
* **Scorers.** Two implementations each (itemised and allocation-free) that must
  agree with each other and with the reference definition of their tests.
* **Bots' evaluators.** Closed forms (products that telescope, a grid of gains, one
  table entry for many throws, weights scaled in several passes) stand for counts
  over hands, starters and outcomes, and must come to the same. What a bot infers
  of the opponent's hand from a pile nobody annotated must be true.
* **Readers of the log.** Four folds of one log, written apart: `Restore` (Go),
  `ReconstructPlays` (Go, without the target), the replay frames (JavaScript)
  and the table of the bot game (JavaScript, delta by delta). Each must tell the
  game that was played; a viewer must not be told the other's cards.
* **Sessions and streams.** No lost wake-up, every delta delivered once and in
  order over reconnections, presence right while old connections linger.
* **Pages.** The player is asked when it is their turn and on a current board,
  whatever arrives while an `await` is pending; the end is shown.
* **Durability.** What was answered survives a restart, a cap and failed saves;
  a finished game has its winner on record.
* **Two stores each** for accounts and results, which must answer alike.
* **Accounts.** Calls of several requests interleave with no transaction around
  them; each may fail with or without effect.
* **Deployer.** Runs may be cut off or killed anywhere and must not stop later
  ones; a failed commit is not retried, nothing in use is deleted.

## 2. What is modelled

A definition that stands for code is listed in `PROJECT.json` under "map" with
its lines. Definitions whose comment begins "(Mutated form" are the bugs each
property is tried against, and are used nowhere else.

### `Cards`, `Pegging`, `HandScore`: the scorers

Cards are records of rank and suit. `Pegging` has `Score` (one optional combo of
each kind), `Total` (the bare number) and `ReferenceTotal` (the definition in
`reference_test.go`); `HandScore` has the grouped `HandScore`, the plain
`HandTotal` and `ReferenceHand`. The four cards of a show are a set, since the
scorer refuses duplicates and no total depends on their order. The order of
combos in a breakdown is left out. `PlayScoredRight` and `ShowScoredRight` say that
the three agree. `MCScorers` builds the inputs one card at a time.

### `CribbageGame`: the rules engine

One variable per field of `Game`, except that `crib`, `discarded` and
`cribThrown` are one variable `thrown` (what each seat sent to the crib), and
`out` holds the events `Apply` returns. One command is one step:

| Action | Code |
|---|---|
| `Discard` | `applyDiscard`; the second throw also runs `cutStarter` |
| `PlayWins` | `applyPlay`, the card reaches the target |
| `PlayThenOpponent`, `PlayThenSamePlayer` | `afterPlay`: the series goes on, the second with the opponent's pass |
| `PlayThirtyOne`, `PlayGo` | `afterPlay`: the series ends |
| `LastCardWins`, `Show` | `afterPlay` with both hands empty, `resolveShow`, the next deal |
| `RejectGameOver` | `Apply` after the end (`ErrGameOver`) |

Any other rejected command leaves the game as it was and is not a step. The deck
source, the opening cuts, the preset start and what a player may throw are
constants with named assumptions; of a shuffle the engine looks at the first
thirteen cards only.

### `Belief`, `WinOdds`, `Replies`, `DealWalk`, `Discards`: how the bots choose

Every bot decision is a pure function, and these modules are those functions.

* `Belief` extends the engine: which cards the seat on turn may still place in the
  opponent's hand (`unseen`, its own throw, `oppPassConstraint`), read off the
  state that `View` shows it.
* `WinOdds` is `winprob_api.go`: the odds of a pair of scores, and whether this deal can
  end the game (`farFromEnd`, `InReach`), which switches the bots from points to
  the chance to win.
* `Replies` is the play: `scaleToHandSize`, the opponent's expected best reply under the
  belief and under an even draw, `oppReplyDist`, and the two rankings of plays.
* `DealWalk` is `dealWalk`: a deal's points in counting order on a grid of what both may
  have gained; and the step by which `winprob_gen.go` fills the table of odds.
* `Discards` is the rest: holds over starters, the crib tables and their generator, the
  opponent-modelled crib, both rankings of holds, the ladder of evaluators, and the
  two calculators of `tools.go`.

Numbers are exact integers where the code has floats. A chance over a pool of cards
is counted in (`q.base` to the size of the pool)-ths; a mean over starters or over
completions of a crib is a sum, since their number is the same for every hold; the
chances of a walk are in parts of `walk.all`. So a tie is a tie, where the code
compares floats or allows 1e-9 and 1e-12, and the four decimals to which the
generators round the tables are left out. The fitted data (odds, peggings, how often
a rank is kept, what a hand counts) are constants with named assumptions.

### `CribbageHistory`: the log and its readers in Go

Composes the engine with its log. `Reduce` is the engine's reducer written a
second time from `game.go`'s `reduce`, over a record, so that `Restored(log)`
can be compared with the engine's variables. `Decision`, `Reconstructed` and
`LegalDecision` are `ReconstructPlays`; `GamePoints` is `gamePoints`. `decided`
is a history variable: the view each card was really played from.

### `ReplayFrames`, `Analysis`, `Evaluate`: the post-game pages

`ReplayFrames` is the replay answer (`replay.go`) and `replayFrames.js`, the
reducer that turns it into one frame per event. `Analysis` is
`analyzeGame` (per deal, with the engines' verdicts) and the older summary of
`analysis.go`; what an engine values a choice at is a constant operator, so that
a verdict is which choices have the best value. `Evaluate` lays the two answers
side by side as `evaluateModel.js` and `analyze.js` do, deals and plays matched
by index. Amounts lost, units and drawing are left out.

### `Table`: a game against a bot

The whole of a bot game around the engine: the person's page (`at` is where
`driveBot` waits), the request on its way (`move`), the server answering under
the session's lock (`busy`, with one step per bot move of `driveBots`), the
deltas of the answer played back one at a time into the page's own table (`ui`,
`pegs`). A move that reaches the server is a logged command of `CribbageHistory`, so
the readers of the log are checked on these games too. A request is lost on its way or on its way back; the page may be loaded
again at any point, which throws away the page's state and paints the next
snapshot. Assumed: a post that has not reached the server when the page is left
never does, and two pages are not open on one bot game. The person sits at seat
0, as `startBot` has it.

### `SessionStreams`, `Delivery`: a live session, its streams and its tabs

One session of the server, with an abstract engine: a command it accepts appends
a few events, the bots' replies included. The parts:

| Action | Code |
|---|---|
| `Action`, `Join`, `Abandon`, then `Persist` | the handlers of those names: change, `notify`, `persist`, under the session's mutex from the first to the last. `saving` says that a handler holds it |
| `Open`, `Subscribe`, `Drain`, `WakeUp`, `Leave` | `handleStream`: resume point, `subscribe`, `send`, the wait on the channel, the deferred `unsubscribe` |
| `Receive`, `Drop`, `Reload` | a browser tab: a delta arrives and is taken once by its number; the connection breaks with everything on its way; the page comes back from a snapshot |
| `Restart` | the process dies between any two steps and `Restore` rebuilds the session from its row |

`pc`, `wake`, `cursor`, `lastRoster` are a stream goroutine's position, channel
and local variables; `wire` is what it wrote and its tab has not read; `shown` is
a history variable, the content of the last roster it sent. A tab that lost its
connection may come back before the server notices, so one seat may have several
streams. `seen` is what a tab has put in its queue; what the page does with it
is `Client`. An event is its number and the life of the process it was appended
in, so that two different events with one number differ. Whose move it is, the
expected version, the names and the projection per seat are left out here; the
projection is in `Table`.

`Delivery` is the abstract specification: a log that only grows, and tabs that
have applied a beginning of it. `Delivers` says that `SessionStreams` implements
it with the *saved* log for the log. With the log in memory it would be false: a
crash between a handler's change and its save takes events back. What makes it
true for what tabs have seen is that a stream reads the game under the same
mutex, so never between the two.

### `Client`: the page of a multiplayer game

The page is single-threaded; a step goes from one `await` to the next. `pump`
says which `await` the pump is suspended in (an animation, a snapshot asked for
or answered, the player's choice, a post), `queue`, `applied`, `bothConnected`
and `gameOver` are the variables of `startMultiplayer`, `saved` is the entry in
the browser's storage, `lastId` the cursor of the EventSource. The server's side
is one stream with its cursor and what is on its way (`wire`); the opponent
moves, comes, goes and quits; the player may move from another tab, reload or
quit; a snapshot or a post may get no answer.

### `Durability`: registry, store, results, restart

Per game the session in memory, whether the registry holds it, its row and its
result; per handler where its request is. A handler finds the session first and
locks it later (`Find`, then `Enter`), so that the reaper's two halves (`Evict`,
`DeleteRow`) and a restart come in between. Under the lock: the change, `Save`
or `SaveFails`, `RecordResult` or `RecordFails` up to `Attempts` times. Of a
game's play only its length, winner, guest and abandonment are kept, and whether
an account sits in it (`known`): a game between guests is never recorded. `Restart`
loads the rows, or as many as the cap allows, in any order.

### `Results`: the permanent record and its pages

The same saves go to both stores, the map of `result.go` and the table of
`result_postgres.go` with NULL for guests; a save may fail before or after it was
made, and is tried again with the session's lock held. `MemStats`, `PgStats` and
the two history lists are the queries of both stores; `FromSession` and
`FromResult` are the two sources of a post-game answer, picked by the
credential. Assumed: no two games end at the same instant (the order of such two
rows is the database's choice); a crash between the last move and the save
belongs to `Durability`. Rounded averages are left out.

### `AuthTables`, `AuthStores`, `Accounts`: accounts

`AuthTables` has the tables, the normalisation and validation of names, and
every call of either store. Postgres compares lower case, memory folds letters
(`strings.EqualFold`), and the two are not the same relation: some letters are lower
case already and share an upper case with another. The class "f" of `AuthTables`
stands for those, for the long s as much as for the final sigma. A user name has
none of them, an address may. `AuthStores` feeds the same calls to both stores
and asks after any of `Texts`. `Accounts` is the handlers over the Postgres store, one call of
the store per step, two or more requests at once, each call failing with or
without effect; a crash is a request that ends after any call. Ids, tokens and
passwords are fresh numbers.

### `RateLimiter`, `Quota`: the limiter

`RateLimiter` has `allow` and `sweep` over a map of windows. `Quota` is the
promise without a map: a client's window closes by itself.

### `DeployLock`, `Deployer`, `DeployRuns`: the deployer

`DeployLock` has `acquire_lock` and `cleanup` system call by system call
(`mkdir`, read, `kill -0`, `unlink`, `rmdir`, `mkdir`, write of the pid) for any
number of runs, killed anywhere. `Deployer` has what the commands write, step by
step: build, `previous`, `hold`, `current`, restart, `/readyz`, the rollback, the
marks, pruning; commits are positions on main, whose trees are healthy or sick.
`DeployRuns` composes them: a run takes the lock, gives one command, gives the
lock up; it may be cut off between two writes (its EXIT trap still runs) or
killed (nothing runs). Every run has its own place in its command and its own
local variables, so two runs that both think they have the lock work at once in
the model as they do on the machine. git and the Go build are outcomes. What is
on disk is a set of releases and, for each, the ones touched after it: all that
pruning by age reads.

The lock does not always exclude (section 6). Two history variables say when:
`raced`, once two runs were between their first look at the lock and their
verdict, or between their last command and the lock being gone, at the same
time; `robbed`, once a run removed the lock that another run had made and not
given up. Neither restrains any step. What is claimed of the lock, and of the
releases behind it, is claimed until a robbery.

## 3. What the runs check

A property is stated, with the behaviour it is about, in the module of its
component. Each is tried against a mutated definition of the code and must then
fail in its run (`PROJECT.json`, "mutants").

| Run | Question | Instance | States |
|---|---|---|---|
| `scorers` | do the two scorers of each package and the reference of its tests agree; are the bots' replies, holds, crib tables and odds what they are counted hand by hand and outcome by outcome? | every legal series of up to five of ten cards (a rank four times, runs with duplicates, face cards); every five of twelve cards, each as the starter, as hand and as crib; replies to series of up to two cards out of hands of four; every six of eight cards in two orders, over a deck of ten; twelve pairs of scores | 38 000 |
| `game` | never stuck and passes for good, the winner at the target, who counts first, the last card of every series paid once, what the bots exclude is not in the opponent's hand, the game ends | target 121; three shuffles (mixed, low cards with eight-card series, tens and fives); four starts a few points to a hand from the end, so that games end at the cut, on a card, on a go, on the last card and at each count of the show | 26 000 |
| `table` | is the fold the live game; do statistics, frames, rail and both analyses tell the game that was played; is the bot game's table the server's view; is the person ever left without a prompt; is the result box right; are hands secret? | games to 18 from either opening cut, with one of two shuffles, two or three deals; either side lays its lowest or highest card; two engines. With the first shuffle also one lost request and one reload anywhere, the person then laying the lowest card | 27 000 |
| `table_resumed` | expected violation: do the pegs show the score after a reload? | the same, nothing lost | |
| `streams` | presence and sleeping streams | a tab for each seat, three stream requests (one to spare for a tab that comes back early), join, repeated abandonment, one event | 2 000 000 |
| `delivery` | the abstract specification, resume cursors, delivery to connected tabs | one tab, two stream requests, two events, a crash at any moment; no symmetry | 150 000 |
| `client` | prompts in turn and on a current board, events in order, no lost prompt or end | games of up to four events, one break, one lost request, three changes of the opponent's presence, one reload, one move from another tab | 220 000 |
| `durability` | is what was answered kept; is a finished game on record, if it is to be, with its winner? | two games of two moves, between guests or with an account from the start or the join on, a registry of one, two handlers, and one kind of misfortune per behaviour: a crash, a failed save, or two failed attempts to record | 6 400 000 |
| `stores` | do both stores of accounts, and of results, answer alike; do history, statistics and both credentials agree? | two names, three addresses of which two look alike, a text that looks like a name, a clock; two games of two accounts, guests and a bot, saves failing before or after the write, a list of one game | 186 000 |
| `deploy` | what the lock excludes and what it takes to rob a run of it; failed commits are not retried, nothing in use is pruned, main is followed | launchd's run and an operator's, overlapping anywhere; three commits of healthy or sick trees, one rollback, one run cut off, one killed; up to the first robbery | 1 400 000 |
| `deploy_lock_race` | expected violation: does the lock exclude? | two runs, nobody killed | |

`stores` and `accounts` each hold two parts that share no state. In a behaviour
one part moves while the other rests at its initial state: interleaving them
would multiply the states and show nothing.

### Why the bounds are enough

* A series has at most eight cards; five of ten reach four of a kind, runs of
  five and runs broken by duplicates. What happens in a hand does not depend on
  the hands before it except through dealer and scores, which the starts vary.
* The bots' functions see a hand, a pile and two scores. The belief is over up to
  four cards and hands of one to three, with weights so uneven that a second card
  becomes certain only after the first, and with cards never kept. The deck of the
  discards has five ranks in two suits: runs, fifteens, pairs, flushes and nobs, 168
  completions of every crib, and 28 deals of six. The twelve scores have both, one
  and neither player about to go out, lie on either side of the edge of reach, and
  far from it; a walk is compared outcome by outcome where its grid has at most
  `MaxGrid` cells, for the first, a middle and the last holds of the ranking
  (`Counted`). `WinBase`, `TieScale` and `WinScale` are small so that the integers
  stay inside TLC's.
* Two deals are enough for a reader of the log to forget a reset and for the
  dealer to change; 18 puts the end in the play, at the show and at the cut. The lowest and the highest card give series with and without a go.
* Three stream requests: two of one seat beside one of the other. Two events: one
  appended between a drain and the wait that follows, while another is on its
  way. `MaxRoster` bounds the roster version at which an abandonment or a new
  connection may still start.
* Two handlers meet in every pair of their steps; with a registry of one, a
  restart leaves a game out. More than one kind of misfortune in one behaviour
  would need a failed save and a crash together, which `AnsweredIsKept` excepts
  anyway. Games and handlers are interchangeable, and the durability run uses
  symmetry on them, `streams` on stream requests, `accounts` on requests,
  `stores` on accounts and games. No run with a liveness property uses symmetry.
* Four events: a move of each seat with two events, or two moves each of one.
* Three commits: deployed, failed and newest. launchd's run and an operator's meet
  in every pair of their steps, on the lock and on the releases, and one killed
  with the lock in hand leaves it to the other. The run goes no further than a
  robbery of the lock: nothing is claimed of the releases after one, and
  `FollowsMain` excepts it (`MCDeploy`). The theorems below hold for any number.
* One letter of each kind: the two stores disagree about a text as soon as it has
  one letter that only folding equates with another.

Where the system may really stop (a finished game that nobody reloads, bounds
that are used up, a lock was robbed), the configuration turns the deadlock check off.
It is on in `game`: a game is never stuck before it is over.

### Fairness

* `CribbageGame!FairSpec`: the engine never moves by itself. Somebody keeps
  sending legal commands, which holds for bots (`driveBots` loops until it is not
  their turn) and is what "a game that is played on" means for people. Used by
  `GameEnds`.
* `SessionStreams!FairSpec`: goroutines are scheduled, an open connection
  delivers, and a stream that keeps finding the mutex taken gets it in the end
  (strong fairness of `Subscribe` and `Drain`; a Go mutex hands over to its
  longest waiter). Nobody has to play, join, connect or stay connected.
* `Client!FairSpec`: the server's stream writes, EventSource reconnects, messages
  are read, and whatever the page awaits is answered or fails. Nobody has to
  move. `MyTurnIsPrompted` and `EndIsShownToBoth` are about behaviours in which
  no request failed and the seat did not move from another tab: otherwise the
  code does lose a prompt (section 6).
* `DeployRuns!RunsFairSpec`: launchd starts its run and keeps the app alive, and
  a run that was started goes on. Weak fairness is enough: a run never waits for
  another, it leaves when it finds the lock taken.

## 4. What is proved

TLAPS proves the following for every value of the constants that satisfies the
named assumptions: any number of games, players' choices, tabs, handlers, runs,
crashes and failures, where the runs above have two or three. Every inductive
invariant was first checked by TLC on the instance of the component's run. "(no
run)" marks a theorem whose statement no run checks.

**`CribbageGameProofs`**, for every target, deck source, opening and choice of the
players: all safety properties of the run `game`, and more. Assumptions: the
target is positive, a shuffle has distinct cards in its first thirteen places, a
preset start is below the target (`New` panics otherwise), and a throw is two
different cards. `GameInv` is the inductive invariant, with one lemma per action.

| Theorem | Says | What it needs |
|---|---|---|
| `TypeCorrect`, `GameInvariant` | types; all of `GameInv` (no run) | |
| `PlayGoesOn` | `PlayNeverSticks` | after the second discard the non-dealer still holds cards, by the count of a seat's cards over hand, table and crib (`CardInv`); after a thirty-one the leader holds a card, which is `~AllDown`; when the opponent cannot follow it passes; and a pass is for good because the count only grows within a series |
| `BeliefIsSound` | `BeliefHoldsTheTruth` | `PassInv`: the pile is of played cards, its last card is its player's, and an opponent who has not passed can answer it; so a run of one seat's cards at its end of two or more means that the other passed after the first of them, and its hand has not changed since |
| `ObjectiveTurnsInTime` | `FarIsOutOfReach` for every pair of scores and either role: the bots play for the chance to win exactly where an outcome of the deal can end the game (checked as part of `DiscardsAgree`) | `PegAssumption` only: the table of peggings is finite, not empty and of natural numbers |
| `WinnerIsAtTarget` | `OnlyTheWinnerIsAtTarget` | awards are never negative, hence the lemmas that the scorers return natural numbers |
| `PoneIsCountedFirst` | `PoneCountsFirst` | which events of a command count cards: none (`Quiet`), or the non-dealer's hand and then others of a known few (`Told`) |
| `SeriesPays` | `SeriesPaysItsLastPlayer` | `CountedInv` below, so that thirty-one is paid by the scorer when the engine's count is 31 and by nothing else; and, action by action, which events of a command are points of the play, and how many |
| `ScorersAreFedRight` | `mustHandScore` never panics: four cards and a fifth as the starter at every count (no run) | `CutInv`: the card to be cut, and then the starter, is nobody's |
| `CountIsTheSum` | the count kept beside the series is the sum the scorer computes from it (no run) | `RunningCount` is a recursive function; that it exists, is unique and goes on by one card is shown by induction |
| `PlayScorersAreOne` | `PlayScoredRight`: `Score`, `Total` and the reference pay the same for any card on a series of any length (checked as part of `ScorersAgree`) | the trailing cards of a rank are the places from the first of them on, so the count, the scan and the ordered pairs give the same number; the run suffixes are nested, so what they cover is the longest; as many ranks as places between the lowest and the highest are an interval |
| `ShowScorersAreOne` | `ShowScoredRight`: the grouped score, the total and the brute-force reference agree for every hand of four cards of the deck, any fifth card as the starter, as hand and as crib (checked as part of `ScorersAgree`) | five cards hold one run at most, so the pairs moved into it are those outside it left out; a sum over ranks, taken off in whatever order, is the pairs of those ranks; consecutive ranks lie in a maximal run; and the ways to take a card of each rank of a run are the product of the counts, one rank at a time |

**`HistoryProofs`**, for logs of any length, under the same assumptions.

* `RestoredIsLive`: `RestoreIsLive`. The invariant `TellInv` says that the fold of
  the log is the live game, once with the cap of the target (`Restore`) and once
  with no cap (`ReconstructPlays`, `gamePoints`), the two alike but for the
  excess of the winner's last award (`Alike`). Both are carried at once: a lemma
  per event says what the reducer makes of it under either cap, and a lemma per
  command that its events, one after the other, lead the folded game to the live
  one.
* `AnalysisSeesTheGame` (no run): the half of `AnalysisIsOfTheGame` that is about the
  views: the reader of the log finds, for every card played, the view it was
  really played from, and refuses none. Induction over the log on prefixes that
  do not change (`SeenInv`).
* `AnalysesAreOne`: `AnalysisIsOfTheGame`, for every engine and whatever it thinks a
  choice is worth. To the half above it adds that the two loops of the analyses,
  walking one log side by side, stay in step: the same hand in hand or none, the
  same dealer, and one more deal in one whenever there is one more discard in the
  other.
* `EvaluatePageTellsTheGame`: `PageTellsTheGame`, for games of the page
  (`BotGameAssumption` below), every engine and whatever it thinks a choice is worth.
  Its invariant `PageLogInv` needs of the log what no run states:
  its shape (`Stage`, `May` below), that each event fits the game as the log
  before it folds it (`FitInv`: it lays a card the player holds, and travels with
  the count it makes), how the log opens (`OpenInv`), and where the fold without a
  target is the game itself, scores included: whenever a hand is dealt (`EvenInv`)
  and before every play (`LevelInv`), since both happen only in a game not yet won.
  Four arguments follow, one for each part of the property.
  - *Frames.* Frame and fold go on together, event by event (`Film`), the page's
    clamp at 121 against the cap of the engine.
  - *Rail.* The walk of the analysis goes on in step with the log (`Walked`): it
    holds a hand exactly from the deal to the seat's throw, so every deal of a
    finished game is graded once, from the hand and the scores it was dealt with.
    A hand's first frame is that of its deal, because every frame is made by an
    event and only a deal changes the hand's number.
  - *Plays.* A card is played once in a deal (hands only shrink until the next
    one), so the choices noted while the game was played and the plays listed
    under the deals match one to one, each with the frame its event made.
  - *Marks.* An engine's totals reach what they are out of exactly when every
    mark of the rail is clean, by induction over the deals.
* `StatisticsAddUp`: `StatsAccountForTheScore`. Along the log, which begins with a
  cut or a handicap and then a deal (`LogInv`), the tally of a seat and the
  uncapped fold grow by the same awards (`Matches`).
* `HistoryInvariant` (no run): `GameInv` and `TellInv`.

The same module holds the theorems about `Table`, for any number of lost requests
and reloads. They assume what the code fixes (`BotGameAssumption`): the page's 121
is the game's target, since `startBot` creates its games without one, and a game
made by `handleCreate` has no head start.

* `TablePlaysTheGame` (no run): every step of the server, the bot and the page is a
  step of `CribbageHistory` or leaves game and log alone, so that all that is proved
  of the engine, the log and its readers holds at the table, where the run `table`
  checks it.
* `TableInvariant` (no run): the invariant. Its parts are the game's own; the shape of
  the log, as a relation between each event and the next (`Stage`, `May`), so that
  what an event does to the page can be read off its kind; which delta of the log
  the page has come to (`PageInv`: its table is the game as the log's prefix up to
  there folds it, after a snapshot the whole log); and where the driver stands
  (`Control`), which ties each wait of `driveBot` to what the server can be doing.
* `TableShowsTheView` (`TableIsTheView`), `BoxTellsTheResult` (`FinalBoxIsTheResult`),
  `PersonIsNeverStranded` (`NeverStranded`) and `OthersHandsStaySecret`
  (`HandsStaySecret`) follow from it. For the box the log's end matters: the page
  is told of the win before it is told of the hands that were not counted. For the
  hands, each delta names only cards of the viewer or on the table, as the shape
  of the log puts them.

**`SessionStreamsProofs`**, for any number of tabs and stream requests and any
number of events per command.

* `NoWakeUpIsLost`: `NothingOwedWhenAsleep`, which is about the content of the
  roster a sleeping stream last sent, while a stream only compares versions.
  `StreamInv` (`StreamInvariant`, `StreamsTypeCorrect`, no run) says that no
  stream is ahead of the session's version, that a stream with the current
  version has sent the current roster, and that a sleeping stream has the current
  version and the whole log: a handler that changes either leaves no registered
  stream asleep.
* `PresenceIsTrue`: `PresenceIsOpenStreams`, with the counts being the numbers of
  subscribed streams per seat (`CountInv`).
* `NoEventIsTakenBack` and `DeliveryInvariant`: `SeenIsLogged`. What is on the wire
  takes a tab from what it has seen to its stream's cursor without a gap, a
  double or a swap (`TakesOn`), all of it events of the log that is promised
  (`Promised`: the saved one, until a save fails).
* `StreamsDeliver`: if no save fails (`MaxFailedSaves = 0`), `SessionStreams`
  implements `Delivery` for the log in the store; every step is mapped to a step
  or a stutter.

**`DurabilityProofs`**, for any number of games, handlers and misfortunes.

* `ResultStaysTheGames`: `ResultIsTheGames`. The property says nothing of the store,
  so it is not inductive: a restart replaces the game by its row. `EndInv` adds
  that, until a save fails, the row of a game with a result ends the same way, as
  does the row of a game about to be recorded.
* `AnswersAreKept` (`AnsweredIsKept`), `RowsOutliveCrashes` (`OnlyTheReaperForgets`),
  `OverIsOnRecord` (`FinishedIsRecorded`): from `KeptInv`. A handler inside a session
  holds its lock; a game and its row are never behind what was answered; a
  finished game with an account is on record, has a handler on its way to record
  it, has had all its attempts fail, or lost the process before its last move was
  answered (`EndOnRecord`); and a game on record has an account in its row too, until
  a save fails (`Recorded`).
* `RegistryFits` (no run): the types, in which the registry never exceeds its cap
  (`CapInv`), whatever creations race and restarts load.

**`AccountsProofs`**, for all typed text and any number of overlapping, failing
and broken-off requests.

* `LogInIsUnambiguous` (no run): everyone is found by name and by address, and nobody
  else is. It rests on lower case being stable, on a valid name having no `@`
  while an address has one, and on rows being distinct in each column.
* `ResetsEndLogins` (`ResetEndsOldLogins`) and `LinksWork` (`MailedLinksWork`), from
  `ResetsInv`: numbers given out are fresh, a login made with an old password
  belongs to a user whose reset has not finished or failed, and a token in a mail
  is in the table, expired or spent.

* `LimiterKeepsItsPromise` (`KeepsPromise`), of `RateLimiter`, which the same handlers
  call: the limiter implements `Quota` for every limit, window and set of
  clients, by a refinement mapping that reads a missing or expired window as
  closed.

**`StoresProofs`**, for the stores of accounts, all lower-case names and addresses,
times to live and numbers of rows, and for the stores of results, any number of
games, accounts, failed saves and ways a game may end.

* `StoresAgree` (`SameAnswers`) and `AccountsAreUnique` (no run): Postgres may still
  hold expired rows that the memory store has dropped on reading. Sessions and
  tokens are answered alike without condition; users are the same in both as long
  as no two accounts in Postgres have addresses that look alike (`NoLookAlikes`), for
  until then both refuse the same sign-ups; and then the same account, or none, is
  found under every text but one that only looks like an account's.
* `ResultsInvariant` (no run): what a store keeps of a game is its result, one row
  per game, in Postgres with NULL for the guests; games that ended differ in when.
* `AnswersAgree` (`PathsAgree`) and `HistoryPageAddsUp` (`HistoryAddsUp`) follow. The
  points of the page are sums over sets, which the library takes an element at a
  time in no stated order: such a sum exists and is the same in every order
  (`SumsExist`, `AnyFirst`), and a sum over the games listed, each worth at most what
  was scored in it, is at most the sum over all games (`SumsCompare`). The list is
  by place, and each game has its own (`EachHasItsPlace`). Assumptions: the target
  and the list's length are positive, NULL is no account, and in each outcome one
  seat alone reaches the target.

**`ClientProofs`**, for games of any length, any number of broken streams, lost
requests, reloads and moves from another tab.

* `PageInvariant` (no run): the queue holds exactly the events between what the page
  has applied and what it has read; the wire takes the page on from there to its
  stream's cursor (`TakesOn`), also across a reconnection that resends; and
  whoever asks the player looks at a snapshot that is not behind what is applied.
* `AskedInTurn` (`PromptedInTurn`) and `EventsAreShownInOrder` (`ShownInOrder`) follow.

**`DeployRunsProofs`**, for any number of runs, commits and kept releases.

* `LockExcludes` (no run by itself), of `DeployLock`: whichever runs contend and are
  killed, wherever, as long as no run removed a lock that another held, two never
  work at once and the lock names the run that works. `LockInv`: at most one run holds
  the lock, and from its write of the pid to its unlink the pid is there.
* `NobodyRobsAlone` (no run by itself): a lock is removed from its holder only when
  the looks of two runs at it overlapped. So a run that comes while another works,
  or after one that was killed half-way, robs nobody: until a race, a run inside
  its window is alone there, and a verdict it formed still holds when it acts.
* `LockHoldsUntilRobbed` (`LockHolds`): both, which is what the run `deploy` checks.
* `FailedStaysBehind` (`FailedIsNotRetried`), of `DeployRuns`, whose runs overlap and are
  cut off and killed anywhere: until a robbery, a commit once marked
  failed is never activated by the deployer again, although `state/failed` holds
  one commit and the next success erases it; the order of main makes that enough
  (`OrderInv`: everything condemned lies behind the commit being deployed, and a
  condemned newest commit is the one on record).
* `TheCurrentAppAnswers` (no run): the process that can answer the readiness check
  is the release being verified; it is inductive.
* `InUseStaysOnDisk` (`InUseIsOnDisk`): `DiskInv` adds that the app runs a release on
  disk and that whatever a command is about to activate is there.
* `CommandsDoNotOverlap` (no run): until a robbery, a command under way is that of the
  one run that works. Every run has its own place and locals, so this is what lets
  the other three be about one command at a time; it follows from `LockInv`.

Inductions over data (the length of a log or of a series) are done on sets of
numbers, "every natural number is in G", which the provers can instantiate, and
not with the library's induction theorems, which take a predicate. Recursive
definitions in modules with theorems are therefore recursive functions over a
length. Where a definition sums over a set with the library's fold, a closed form that
satisfies the fold's recursion shows that there is such a sum and what it is.

The SMT translation of the prover takes `DOMAIN s = 1..n` and `Len(s) = n` for the
same; of a function that is no sequence the second is not known to give the
first. All proofs were therefore checked a second time with a translation that
has the sound direction only.

## 5. What is only model-checked

* Liveness, which is outside the prover's reach: `GameEnds`, `EventsReachTabs`,
  `MyTurnIsPrompted`, `EndIsShownToBoth`, `FollowsMain`.
* That the calculator's `ScoreHand` passes a hand on as it is. The rest of
  `ScorersAgree` is proved for all cards (`PlayScorersAreOne`, `ShowScorersAreOne`),
  though not as a theorem about `MCScorers`, which only lists inputs.
* What the bots' evaluators add up (`RepliesAgree`, `DiscardsAgree` but for the
  switch of objective): that products telescope and a grid carries a distribution
  is induction over the cards of a pool or the points of a table, through folds.

The modules `Accounts` and `Client` state their types in a `TypeOK` that documents the
state and is no property of a run; the types of the components with a theorem
are part of the invariants proved.

## 6. Disagreements met while modelling

The first two are kept as runs that are expected to fail.

* **Pegs after a refresh** (`table_resumed`). After a refresh of a bot game the pegs
  stand at the start until the next show (`main.js:789`, `main.js:818`), although
  `main.js:137` calls the board the score display.
* **Deploy lock** (`deploy_lock_race`). `deploy.sh:67` calls the lock atomic and takes one
  whose pid cannot be read for a stale one. The directory is made at line 72 and
  the pid written at line 82: a second run in between removes the lock, and both
  work. Two runs that find one stale lock can do the same to each other, and a run
  that looks while the holder gives the lock up can remove the next holder's. All
  of these are overlaps of two windows of a few system calls: that nothing else
  breaks the lock is the second half of `LockHolds`, proved.
* **Ignoring case**. `auth.go:51` says of both stores that look-ups of names
  and addresses are case-insensitive. Memory folds (`auth_store_mem.go:32,51,62`),
  Postgres compares lower case (`auth_store_postgres.go:56,71,76`), and `validEmail`
  (`auth_handlers.go:61`) admits letters on which the two differ, such as s and the
  long s: in memory two such addresses are one, in Postgres they are two accounts.
  User names have ASCII letters only. `SameAnswers` says where the stores agree; the
  run `stores` has two such addresses, so that both sides of its condition happen.

The properties are worded so that they hold of the code as it is. Where a comment
says more, this is what the code does:

* **Statistics.** `stats.go:50-51` says that pegging, hand and crib points sum to
  the final score. Events carry the natural value of an award and the score
  stops at the target, so for a winner whose last award passes it the sum is
  larger. `StatsAccountForTheScore` says what does hold.
* **A cut-off deploy.** A run that ends between repointing `current` and the
  restart (lines 190-193) leaves the new commit current with the old process
  running. Later runs find nothing new (line 222), so the app is neither
  restarted nor checked, against `deploy.sh:4-5`. `FollowsMain` asks for the link
  `current` only, which the app follows the next time it starts.
* **`rollback` after an automatic one.** `state/previous` is written before the
  new release is verified (line 247) and not restored: it then names the running
  release, and `deploy.sh rollback` answers "already on" (line 275).
* **`resume` after a skipped commit.** `state/skipped` was judged against the
  release that ran then. After a rollback past it, `resume` does not follow main
  again (line 224) until another commit comes. `FollowsMain` excepts rollbacks.
* **An unrecorded result.** `handleAction` saves the finished game before it
  records the result (`server.go:560-562`); after a crash in between the game is
  restored finished, no further move is accepted, and nothing ever records it. In
  that case the last move was never answered, and it is the only case besides the
  failures of the saves and of the record: that is how `FinishedIsRecorded` is worded.
  Games between guests are not recorded at all, as `result_handlers.go:11-14` says.
* **A last move lost.** When the save of the last move fails, no later change
  saves the game (`server.go:163-165` counts on one). After a restart the last
  move can be played otherwise while the first winner stays on record.
  `ResultIsTheGames` and `AnsweredIsKept` except failed saves.
* **A reaped row comes back.** A handler that found its session before the reaper
  evicted it writes the row again after it was deleted; the game is not served
  until a restart. `AnsweredIsKept` speaks of games in the registry.
* **A reset link used twice.** Two overlapping requests with one link both
  succeed: the token is read, and deleted after the update
  (`auth_handlers.go:279-303`). `ResetEndsOldLogins` holds of both.
* **A log-in that straddles a reset.** A log-in that checked the old password before
  the reset stored the new one, and inserts its session after the reset deleted
  the user's sessions, stays valid. `ResetEndsOldLogins` excepts it (`late`).
* **A lost prompt.** A snapshot that fails when it is the player's turn stops the
  pump, and the server has nothing to send before the player moves
  (`main.js:899-903`).
* **A forgotten game.** A snapshot that fails while a page resumes drops the saved
  entry although the game goes on (`main.js:881`).
* **An unseen end.** When the opponent's stream is already closed at a
  reconnection, the roster arrives before the replayed deltas and the end stays
  in the queue (`main.js:934`). `EndIsShownToBoth` speaks of opponents who are
  there to see it too.
* **One account on both sides.** `handleJoin` lets an account take the other seat
  of its own game; then the token and the cookie open the analysis from different
  seats, against `analysis2.go:707-711`. `PathsAgree` and the sums of
  `HistoryAddsUp` speak of players of other people.

## 7. Not modelled

* **The other bots, the lab's play rungs and simulations, and the neural network**:
  pure functions from a view to a move. The rest relies on the move being legal
  only; how strong it is, is numerical. Of the evaluators that are modelled, the
  fitted numbers are constants.
* **Metrics, logging, the parsing of the tools' requests**. The post-game analyses
  are in `Analysis`, with the engines' values as constants.
* **CLI, `play.go` included, data generators, training**: batch or terminal
  programs around the engine; no state shared with the server.
* **Board, animation, pages**: drawing. `Client` and `Table` have an animation as
  one step that shows the event.
* **Backup**: one sequential pass over files whose names and ages decide.
* **Lobby listing, display names, mail transport, cookies, origin checks, hashing,
  `clientIP`**: no state that a property tells apart.
* **Encodings**: JSON on the wire, gob in the store, SQL text. What they carry is
  modelled; that they carry it faithfully is what the repository's own tests are
  for.

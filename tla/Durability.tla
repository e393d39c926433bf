----------------------------- MODULE Durability -----------------------------
(***************************************************************************)
(* Where a game lives: the registry of sessions in memory, the row each    *)
(* change writes through to the store, and the permanent result written    *)
(* when a game ends; with the handlers that change a game, the reaper that *)
(* evicts idle ones, and a process that dies and restores from the store.  *)
(*                                                                         *)
(* A handler finds its session in the registry first and locks it later;   *)
(* under the lock it changes the game, saves it, and records the result.   *)
(* Of a game's play only its length and who won is kept; of its players    *)
(* whether one of them is logged in.                                       *)
(***************************************************************************)
EXTENDS Naturals, FiniteSets

CONSTANTS Games, Handlers,
          Final,     \* the number of moves of a finished game
          Cap,       \* maxSessions
          Attempts,  \* of saveResultRetrying
          MaxCrashes, MaxFailedSaves, MaxFailedResults \* bounds on bad luck

ASSUME DurabilityAssumption ==
  /\ Final \in Nat \ {0} /\ Cap \in Nat \ {0} /\ Attempts \in Nat \ {0}
  /\ MaxCrashes \in Nat /\ MaxFailedSaves \in Nat /\ MaxFailedResults \in Nat

CONSTANTS NoOne, \* no handler; no guest in seat 1
          Gone   \* no row, no game, no result

Play == [ver : 0..Final, winner : {0, 1, Gone}, guest : Handlers \cup {NoOne},
         left : BOOLEAN,
         known : BOOLEAN] \* a seat has the id of an account
Fresh(k) == [ver |-> 0, winner |-> Gone, guest |-> NoOne, left |-> FALSE, known |-> k]

ASSUME NamesAssumption ==
  NoOne \notin Handlers /\ Gone \notin {0, 1} /\ Gone \notin Play

VARIABLES mem,      \* per game, the session in memory (registered or not)
          registry, \* the games in the registry
          idle,     \* the games untouched for longer than the ttl
          streamed, \* the games with a live stream
          lock,     \* per game, the handler inside the session's lock
          row,      \* per game, its row in the store
          dropped,  \* the games evicted by Reap, their rows not yet deleted
          result,   \* per game, the winner on record
          req,      \* per handler, its request: where it is, game, operation
          tries,    \* per handler, the failed attempts to record a result
          crashes, failedSaves, failedResults,
          acked,    \* history: per game, the longest play answered with 200
          seated,   \* history: per game, the guests answered with a token
          evicted   \* history: the games the reaper ever took

games == <<mem, registry, idle, streamed, lock>>
durable == <<row, result>>
handlers == <<req, tries>>
luck == <<crashes, failedSaves, failedResults>>
history == <<acked, seated, evicted>>
vars == <<games, durable, dropped, handlers, luck, history>>

Free == [at |-> "free", on |-> Gone, op |-> Gone]
\* What a handler is for shows once it has the lock, but for a creation.
Ops == {"create", "move", "join", "abandon", "any"}

TypeOK ==
  /\ mem \in [Games -> Play \cup {Gone}]
  /\ registry \subseteq Games /\ Cardinality(registry) <= Cap
  /\ {idle, streamed, dropped, evicted} \subseteq SUBSET Games
  /\ lock \in [Games -> Handlers \cup {NoOne}]
  /\ row \in [Games -> Play \cup {Gone}]
  /\ result \in [Games -> {0, 1, Gone}]
  /\ req \in [Handlers -> {Free} \cup
                [at : {"enter", "save", "record"}, on : Games, op : Ops]]
  /\ tries \in [Handlers -> 0..Attempts]
  /\ crashes \in 0..MaxCrashes
  /\ failedSaves \in 0..MaxFailedSaves /\ failedResults \in 0..MaxFailedResults
  /\ acked \in [Games -> 0..Final] /\ seated \in [Games -> SUBSET Handlers]

Init ==
  /\ mem = [g \in Games |-> Gone] /\ registry = {} /\ idle = {} /\ streamed = {}
  /\ lock = [g \in Games |-> NoOne]
  /\ row = [g \in Games |-> Gone] /\ dropped = {}
  /\ result = [g \in Games |-> Gone]
  /\ req = [h \in Handlers |-> Free] /\ tries = [h \in Handlers |-> 0]
  /\ crashes = 0 /\ failedSaves = 0 /\ failedResults = 0
  /\ acked = [g \in Games |-> 0] /\ seated = [g \in Games |-> {}]
  /\ evicted = {}

Over(g) == mem[g] # Gone /\ mem[g].winner # Gone
\* Nobody knows the id yet, and the ttl is far longer than a request.
BeingCreated(g) ==
  \E h \in Handlers : req[h] = [at |-> "enter", on |-> g, op |-> "create"]
Put(h, place) == req' = [req EXCEPT ![h].at = place]
Take(h, g, kind) ==
  req' = [req EXCEPT ![h] = [at |-> "enter", on |-> g, op |-> kind]]
Done(h) == req' = [req EXCEPT ![h] = Free]

-----------------------------------------------------------------------------
\* Handlers.

\* Ids are random: a game is created once, by an account or by a guest.
\* registry.add: the count is checked and the session inserted under r.mu.
Create(h, g) ==
  /\ req[h].at = "free" /\ mem[g] = Gone /\ Cardinality(registry) < Cap
  /\ registry' = registry \cup {g}
  /\ \E k \in BOOLEAN : mem' = [mem EXCEPT ![g] = Fresh(k)]
  /\ Take(h, g, "create")
  /\ UNCHANGED <<idle, streamed, lock, durable, dropped, tries, luck, history>>

\* authed, authedStream and the decoding of the body, before the lock.
Find(h, g) ==
  /\ req[h].at = "free" /\ g \in registry /\ ~BeingCreated(g)
  /\ Take(h, g, "any")
  /\ UNCHANGED <<games, durable, dropped, tries, luck, history>>

Touch(g) == idle' = idle \ {g}

\* (Mutated form: whoever joins gets the seat.)
MutSeatOpen(g) == TRUE
\* Seat 1 holds no token; a bot's seat counts as given to a guest.
SeatOpen(g) == mem[g].guest = NoOne

\* A request that leaves the game as it is: a snapshot, a stream, or a move
\* or a join that the game or the seat refuses.
Look(h, g) ==
  /\ req[h].op = "any"
  /\ \/ Touch(g) /\ streamed' \in {streamed, streamed \cup {g}}
     \/ (Over(g) \/ ~SeatOpen(g)) /\ UNCHANGED <<idle, streamed>>
  /\ Done(h)
  /\ UNCHANGED <<mem, registry, lock, durable, dropped, tries, luck, history>>

Moved(g, w) == [mem[g] EXCEPT !.ver = @ + 1,
                              !.winner = IF @ = Gone /\ mem[g].ver + 1 = Final
                                         THEN w ELSE @]

\* The last move comes after both have discarded: both seats are held.
MayMove(g) == ~Over(g) /\ (mem[g].ver + 1 = Final => ~SeatOpen(g))

\* Seat 1 is the joiner's, with the joiner's account if it has one.
Joined(g, h, k) == [mem[g] EXCEPT !.guest = h, !.known = k]

\* The change itself, under the session's lock; Save follows under it.
Change(h, g, kind) ==
  /\ req[h].op = "create" <=> kind = "create"
  /\ \/ kind = "create" /\ UNCHANGED <<mem, idle>>
     \/ kind = "move" /\ MayMove(g) /\ Touch(g)
        /\ \E w \in {0, 1} : mem' = [mem EXCEPT ![g] = Moved(g, w)]
     \/ kind = "join" /\ SeatOpen(g) /\ Touch(g)
        /\ \E k \in {mem[g].known, TRUE} : mem' = [mem EXCEPT ![g] = Joined(g, h, k)]
     \/ kind = "abandon" /\ Touch(g) /\ mem' = [mem EXCEPT ![g].left = TRUE]
  /\ lock' = [lock EXCEPT ![g] = h]
  /\ req' = [req EXCEPT ![h] = [at |-> "save", on |-> g, op |-> kind]]
  /\ UNCHANGED <<registry, streamed, durable, dropped, tries, luck, history>>

Enter(h) == /\ req[h].at = "enter" /\ lock[req[h].on] = NoOne
            /\ \/ Look(h, req[h].on)
               \/ \E kind \in Ops : Change(h, req[h].on, kind)

\* The handler answers and gives up the lock.
Answer(h, g) ==
  /\ Done(h)
  /\ lock' = [lock EXCEPT ![g] = NoOne]
  /\ tries' = [tries EXCEPT ![h] = 0]
  /\ acked' = [acked EXCEPT ![g] = IF req[h].op = "move" THEN mem[g].ver ELSE @]
  /\ seated' = [seated EXCEPT ![g] = IF req[h].op = "join" THEN @ \cup {h} ELSE @]

\* (Mutated form: the game is looked at as it was before the move.)
MutEnds(h, g) == /\ req[h].op = "move" /\ mem[g].known
                 /\ row[g] # Gone /\ row[g].winner # Gone
\* Only the move that ends the game records its result, and only if there is
\* an account to record it for.
Ends(h, g) == req[h].op = "move" /\ Over(g) /\ mem[g].known

AfterSave(h, g) ==
  IF Ends(h, g) THEN Put(h, "record") /\ UNCHANGED <<lock, tries, acked, seated>>
                ELSE Answer(h, g)

\* (Mutated forms: a game that has a row is not written again; a finished one,
\* which goes on record anyway, is not.)
MutRowOf(g) == IF row[g] = Gone THEN mem[g] ELSE row[g]
MutRowOfOver(g) == IF Over(g) THEN row[g] ELSE mem[g]
\* session.record: the whole game, every time.
RowOf(g) == mem[g]

Save(h) ==
  LET g == req[h].on IN
  /\ req[h].at = "save"
  /\ row' = [row EXCEPT ![g] = RowOf(g)]
  /\ AfterSave(h, g)
  /\ UNCHANGED <<mem, registry, idle, streamed, result, dropped, luck, evicted>>

\* persist logs the error and goes on.
SaveFails(h) ==
  LET g == req[h].on IN
  /\ req[h].at = "save" /\ failedSaves < MaxFailedSaves
  /\ failedSaves' = failedSaves + 1
  /\ AfterSave(h, g)
  /\ UNCHANGED <<mem, registry, idle, streamed, durable, dropped, crashes,
                 failedResults, evicted>>

\* SaveResult is idempotent: a game already on record stays as it is.
KeptResult(g) == IF result[g] = Gone THEN mem[g].winner ELSE result[g]

RecordResult(h) ==
  LET g == req[h].on IN
  /\ req[h].at = "record"
  /\ result' = [result EXCEPT ![g] = KeptResult(g)]
  /\ Answer(h, g)
  /\ UNCHANGED <<mem, registry, idle, streamed, row, dropped, luck, evicted>>

LastTry(h) == tries[h] + 1 = Attempts

RecordFails(h) ==
  LET g == req[h].on IN
  /\ req[h].at = "record" /\ failedResults < MaxFailedResults
  /\ failedResults' = failedResults + 1
  /\ IF LastTry(h)
     THEN Answer(h, g)
     ELSE /\ tries' = [tries EXCEPT ![h] = @ + 1]
          /\ UNCHANGED <<req, lock, acked, seated>>
  /\ UNCHANGED <<mem, registry, idle, streamed, durable, dropped, crashes,
                 failedSaves, evicted>>

-----------------------------------------------------------------------------
\* Time, streams, the reaper, and the process.

GrowIdle(g) ==
  /\ g \in registry \ idle /\ ~BeingCreated(g)
  /\ idle' = idle \cup {g}
  /\ UNCHANGED <<mem, registry, streamed, lock, durable, dropped, handlers, luck, history>>

Unsubscribe(g) ==
  /\ g \in streamed /\ lock[g] = NoOne
  /\ streamed' = streamed \ {g}
  /\ UNCHANGED <<mem, registry, idle, lock, durable, dropped, handlers, luck, history>>

Stale(g) == g \in idle \ streamed

\* registry.reap takes each session's lock to judge it.
Evict(g) ==
  /\ g \in registry /\ lock[g] = NoOne /\ Stale(g)
  /\ registry' = registry \ {g} /\ dropped' = dropped \cup {g}
  /\ evicted' = evicted \cup {g}
  /\ UNCHANGED <<mem, idle, streamed, lock, durable, handlers, luck, acked, seated>>

\* Server.Reap, once the registry is through.
DeleteRow(g) ==
  /\ g \in dropped
  /\ dropped' = dropped \ {g}
  /\ row' = [row EXCEPT ![g] = Gone]
  /\ UNCHANGED <<games, result, handlers, luck, history>>

InStore == {g \in Games : row[g] # Gone}

\* What Restore loads: every row, or as many as the cap allows, in the
\* store's order.
Loads(loaded) == /\ loaded \subseteq InStore
                 /\ Cardinality(loaded) <= Cap
                 /\ loaded = InStore \/ Cardinality(loaded) = Cap

\* sessionFromRecord: the whole session but its streams.
Revived(g) == IF row[g] = Gone THEN mem[g] ELSE row[g]

\* The process dies with every request in it; the next one restores.
Restart ==
  /\ crashes < MaxCrashes /\ crashes' = crashes + 1
  /\ \E loaded \in SUBSET Games : Loads(loaded) /\ registry' = loaded
  /\ mem' = [g \in Games |-> Revived(g)]
  /\ idle' \in {idle \cap registry', registry'}
  /\ streamed' = {} /\ dropped' = {}
  /\ lock' = [g \in Games |-> NoOne]
  /\ req' = [h \in Handlers |-> Free] /\ tries' = [h \in Handlers |-> 0]
  /\ UNCHANGED <<durable, failedSaves, failedResults, history>>

-----------------------------------------------------------------------------

HandlerStep(h) == Enter(h) \/ Save(h) \/ SaveFails(h) \/ RecordResult(h) \/ RecordFails(h)

Next ==
  \/ \E h \in Handlers : \/ \E g \in Games : Create(h, g)
                         \/ \E g \in Games : Find(h, g)
                         \/ HandlerStep(h)
  \/ \E g \in Games : \/ GrowIdle(g) \/ Unsubscribe(g)
                      \/ Evict(g) \/ DeleteRow(g)
  \/ Restart

Spec == Init /\ [][Next]_vars

-----------------------------------------------------------------------------

Busy(g) == lock[g] # NoOne \/ BeingCreated(g)

\* What the server answered is what it has, after any crash: a game it
\* serves is at least as long as any play it said yes to, and the guest it
\* gave seat 1 to still has it, alone.  Only a failed save breaks this.
AnsweredIsKept ==
  failedSaves = 0 =>
    \A g \in registry :
      /\ mem[g].ver >= acked[g]
      /\ seated[g] \subseteq {mem[g].guest}

\* A game the reaper never took is in the store, whether or not the cap
\* left it out at a restart, and no shorter than it was answered to be.
OnlyTheReaperForgets ==
  failedSaves = 0 =>
    \A g \in Games \ evicted :
      acked[g] > 0 => row[g] # Gone /\ row[g].ver >= acked[g]

\* The winner on record is the winner of the game the players are shown.
\* Not so once a last save fails: the last move is then played again.
ResultIsTheGames ==
  failedSaves = 0 =>
    \A g \in registry : result[g] # Gone /\ ~Busy(g) => mem[g].winner = result[g]

\* A finished game that an account played in is on record, and one that only
\* guests played never is.  The record may be missing because every attempt
\* to write it failed, or because the process died between the save and the
\* record: then the last move was not answered.
FinishedIsRecorded ==
  \A g \in registry :
    /\ Over(g) /\ mem[g].known /\ ~Busy(g) =>
         \/ result[g] # Gone \/ failedResults >= Attempts
         \/ crashes > 0 /\ (acked[g] < Final \/ failedSaves > 0)
    /\ result[g] # Gone /\ failedSaves = 0 => mem[g].known

=============================================================================

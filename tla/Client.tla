-------------------------------- MODULE Client --------------------------------
(***************************************************************************)
(* web/public/src/ui/main.js: one player's tab in a game against a person. *)
(*                                                                         *)
(* The page is single-threaded and asynchronous: a message of the stream   *)
(* is handled whenever the pump is suspended in an await, and the pump     *)
(* awaits an animation, a snapshot, the player's choice or the answer to a *)
(* move.  Between two awaits it runs without interruption, so a step here  *)
(* goes from one await to the next.                                        *)
(*                                                                         *)
(* The game on the server is its number of events, the seats it waits for  *)
(* and whether it is over; the last event of a finished game is game_won.  *)
(***************************************************************************)
EXTENDS Integers, Sequences, FiniteSets

CONSTANTS MaxVer,       \* events of a game
          MaxDrops,     \* broken streams
          MaxFailures,  \* requests without an answer
          MaxFlips,     \* changes of the opponent's presence
          MaxReloads,   \* reloads of the page
          MaxElsewhere  \* moves of this seat from another tab

ASSUME BoundsAssumption ==
  /\ MaxVer \in Nat \ {0, 1}
  /\ {MaxDrops, MaxFailures, MaxFlips, MaxReloads, MaxElsewhere} \subseteq Nat

VARIABLES ver, need, over,    \* the game on the server
          oppHere, oppLeft,   \* the opponent streams, has quit
          open, cursor, owed, \* the server's end of the stream
          wire,               \* written to it and not read
          page,               \* resuming, running or home
          saved,              \* the game is in the browser's storage
          lastId,             \* the EventSource's cursor
          applied, queue, bothConnected, gameOver, \* as in startMultiplayer
          pump,               \* where the pump waits
          snap,               \* the snapshot it was answered
          board,              \* the events the board shows
          told,               \* what the final overlays say
          quit,               \* the player has left the game
          drops, failures, flips, reloads, elsewhere \* counters for bounds

game == <<ver, need, over>>
opponent == <<oppHere, oppLeft>>
stream == <<open, cursor, owed, wire>>
tab == <<page, saved, lastId, applied, queue, bothConnected, gameOver, pump,
         snap, board, told, quit>>
bounds == <<drops, failures, flips, reloads, elsewhere>>
vars == <<game, opponent, stream, tab, bounds>>

Pumps == {"idle", "animate", "final", "asking", "answered", "prompt",
          "posting", "posted"}

View == [ver |-> ver, mine |-> "me" \in need, over |-> over]

NoView == [ver |-> 0, mine |-> FALSE, over |-> FALSE]

Init ==
  /\ ver = 1 /\ need = {"me", "opp"} /\ over = FALSE
  /\ oppHere = FALSE /\ oppLeft = FALSE
  /\ open = FALSE /\ cursor = 0 /\ owed = FALSE /\ wire = <<>>
  /\ page = "running" /\ saved = TRUE
  /\ lastId = 0 /\ applied = 0 /\ queue = <<>>
  /\ bothConnected = FALSE /\ gameOver = FALSE /\ pump = "idle"
  /\ snap = NoView /\ board = 0 /\ told = {} /\ quit = FALSE
  /\ drops = 0 /\ failures = 0 /\ flips = 0 /\ reloads = 0 /\ elsewhere = 0

-----------------------------------------------------------------------------
(* The server: moves, the opponent's presence, and the stream.             *)

\* A legal move of seat s: it emits one or two events, and the game goes on
\* or ends.  There is room left for a move of every seat it waits for.
Move(s) ==
  /\ s \in need
  /\ \E n \in 1..2, next \in SUBSET {"me", "opp"} :
       /\ need # {s} => next = need \ {s}
       /\ ver + n + Cardinality(next) <= MaxVer
       /\ ver' = ver + n
       /\ need' = next
       /\ over' = (next = {})

OpponentMoves == Move("opp") /\ UNCHANGED <<opponent, stream, tab, bounds>>

MoveElsewhere ==
  /\ elsewhere < MaxElsewhere
  /\ elsewhere' = elsewhere + 1
  /\ Move("me")
  /\ UNCHANGED <<opponent, stream, tab, drops, failures, flips, reloads>>

\* A changed roster is owed to the stream that is open.
OpponentComesOrGoes ==
  /\ ~oppLeft /\ flips < MaxFlips
  /\ flips' = flips + 1
  /\ oppHere' = ~oppHere
  /\ owed' = open
  /\ UNCHANGED <<game, oppLeft, open, cursor, wire, tab, drops, failures,
                 reloads, elsewhere>>

OpponentQuits ==
  /\ oppHere /\ flips < MaxFlips
  /\ flips' = flips + 1
  /\ oppLeft' = TRUE /\ oppHere' = FALSE
  /\ owed' = open
  /\ UNCHANGED <<game, open, cursor, wire, tab, drops, failures, reloads,
                 elsewhere>>

Roster == [kind |-> "players", both |-> oppHere, left |-> oppLeft]

Delta(n) == [kind |-> "delta", seq |-> n]

\* One drain of the stream: the roster if it changed, then what is new.
Drain ==
  /\ open /\ (owed \/ cursor < ver)
  /\ wire' = wire \o (IF owed THEN <<Roster>> ELSE <<>>)
                  \o [i \in 1..(ver - cursor) |-> Delta(cursor + i)]
  /\ cursor' = ver
  /\ owed' = FALSE
  /\ UNCHANGED <<game, opponent, open, tab, bounds>>

Cut == open' = FALSE /\ cursor' = 0 /\ owed' = FALSE /\ wire' = <<>>

Drop ==
  /\ open /\ drops < MaxDrops
  /\ drops' = drops + 1
  /\ Cut
  /\ UNCHANGED <<game, opponent, tab, failures, flips, reloads, elsewhere>>

\* (Mutated form: a new stream starts with what comes next.)
FromNow == ver

\* The point a stream resumes from: Last-Event-ID, or ?since.
ResumeFrom == lastId

\* The first connection of the EventSource, or the one after a break; an
\* overlay that ends the game has closed it for good.
Connect ==
  /\ page = "running" /\ ~open /\ told = {}
  /\ open' = TRUE
  /\ cursor' = ResumeFrom
  /\ owed' = TRUE
  /\ UNCHANGED <<game, opponent, wire, tab, bounds>>

-----------------------------------------------------------------------------
(* The pump.                                                               *)

Won(n) == over /\ n = ver

\* (Mutated form: the prompt does not wait for the board.)
MayPromptEarly == ~snap.over /\ snap.mine

\* maybePrompt goes on to ask the player.
MayPrompt == ~snap.over /\ applied >= snap.ver /\ snap.mine

\* The pump runs with queue q, presence b, game-over flag o and the stored
\* entry s until it awaits something or stops.
RunOn(q, b, o, s) ==
  \/ \E k \in DOMAIN q :
       /\ q[k] > applied /\ \A i \in 1..(k - 1) : q[i] <= applied
       /\ applied' = q[k]
       /\ queue' = SubSeq(q, k + 1, Len(q))
       /\ gameOver' = (o \/ Won(q[k]))
       /\ saved' = (s /\ ~Won(q[k]))
       /\ pump' = IF Won(q[k]) THEN "final" ELSE "animate"
  \/ /\ \A i \in DOMAIN q : q[i] <= applied
     /\ queue' = <<>> /\ gameOver' = o /\ saved' = s
     /\ pump' = IF o \/ ~b THEN "idle" ELSE "asking"
     /\ UNCHANGED applied

Continue == RunOn(queue, bothConnected, gameOver, saved)

\* pump() called by a handler: it starts only if it is not running and both
\* players are connected.
Start(q, b, o, s) ==
  \/ pump = "idle" /\ b /\ RunOn(q, b, o, s)
  \/ /\ pump # "idle" \/ ~b
     /\ queue' = q /\ gameOver' = o /\ saved' = s
     /\ UNCHANGED <<pump, applied>>

\* (Mutated form: what came in during the snapshot is not looked at.)
StopsAnyway == pump' = "idle" /\ UNCHANGED <<applied, queue, gameOver, saved>>

\* maybePrompt returned false: the pump stops unless more has come in.
NotPrompted ==
  \/ queue = <<>> /\ pump' = "idle" /\ UNCHANGED <<applied, queue, gameOver, saved>>
  \/ queue # <<>> /\ Continue

Running(p) == page = "running" /\ pump = p

Ends(why) == told' = told \cup {why} /\ Cut

AnimationDone ==
  /\ Running("animate")
  /\ board' = applied
  /\ Continue
  /\ UNCHANGED <<game, opponent, stream, page, lastId, bothConnected, snap,
                 told, quit, bounds>>

\* game_won: the final score is read from a snapshot, answered or not, and
\* the end is animated up to its overlay.
ShowsEnd ==
  /\ Running("final")
  /\ board' = applied
  /\ Ends("result")
  /\ pump' = "idle"
  /\ saved' = FALSE
  /\ UNCHANGED <<game, opponent, page, lastId, applied, queue, bothConnected,
                 gameOver, snap, quit, bounds>>

SnapshotServed ==
  /\ Running("asking")
  /\ snap' = View
  /\ pump' = "answered"
  /\ UNCHANGED <<game, opponent, stream, page, saved, lastId, applied, queue,
                 bothConnected, gameOver, board, told, quit, bounds>>

Fails == failures < MaxFailures /\ failures' = failures + 1

SnapshotFails ==
  /\ Running("asking") /\ Fails
  /\ NotPrompted
  /\ UNCHANGED <<game, opponent, stream, page, lastId, bothConnected, snap,
                 board, told, quit, drops, flips, reloads, elsewhere>>

\* The answer arrives: a board that has caught up is painted from it, and
\* the player is asked if it is their turn.
SnapshotArrives ==
  /\ Running("answered")
  /\ board' = IF ~gameOver /\ applied >= snap.ver THEN snap.ver ELSE board
  /\ snap' = IF ~gameOver /\ MayPrompt THEN snap ELSE NoView
  /\ \/ /\ ~gameOver /\ MayPrompt
        /\ pump' = "prompt"
        /\ UNCHANGED <<applied, queue, gameOver, saved>>
     \/ (gameOver \/ ~MayPrompt) /\ NotPrompted
  /\ UNCHANGED <<game, opponent, stream, page, lastId, bothConnected, told,
                 quit, bounds>>

\* The player chooses; an overlay takes the controls away.
Choose ==
  /\ Running("prompt") /\ told = {}
  /\ pump' = "posting"
  /\ UNCHANGED <<game, opponent, stream, page, saved, lastId, applied, queue,
                 bothConnected, gameOver, snap, board, told, quit, bounds>>

PostAccepted ==
  /\ Running("posting")
  /\ Move("me")
  /\ pump' = "posted"
  /\ UNCHANGED <<opponent, stream, page, saved, lastId, applied, queue,
                 bothConnected, gameOver, snap, board, told, quit, bounds>>

\* The move is refused, or the request or its answer is lost: the error
\* leaves the pump, which stops whatever the queue holds.
PostThrows ==
  /\ \/ Running("posting") /\ "me" \notin need /\ UNCHANGED failures
     \/ (Running("posting") \/ Running("posted")) /\ Fails
  /\ pump' = "idle"
  /\ snap' = NoView
  /\ UNCHANGED <<game, opponent, stream, page, saved, lastId, applied, queue,
                 bothConnected, gameOver, board, told, quit, drops, flips,
                 reloads, elsewhere>>

PostAnswered ==
  /\ Running("posted")
  /\ snap' = NoView
  /\ Continue
  /\ UNCHANGED <<game, opponent, stream, page, lastId, bothConnected, board,
                 told, quit, bounds>>

-----------------------------------------------------------------------------
(* Messages of the stream.                                                 *)

TakesDelta ==
  /\ page = "running" /\ wire # <<>> /\ Head(wire).kind = "delta"
  /\ wire' = Tail(wire)
  /\ lastId' = Head(wire).seq
  /\ Start(Append(queue, Head(wire).seq), bothConnected, gameOver, saved)
  /\ UNCHANGED <<game, opponent, open, cursor, owed, page, bothConnected, snap,
                 board, told, quit, bounds>>

HasLeft(r) == r.left

\* handleRoster saves the game, with the opponent's name.
SavedByRoster(o) == saved \/ ~o

TakesRoster ==
  /\ page = "running" /\ wire # <<>> /\ Head(wire).kind = "players"
  /\ LET r == Head(wire)
     IN \/ /\ HasLeft(r) /\ ~gameOver
           /\ gameOver' = TRUE /\ saved' = FALSE
           /\ Ends("left")
           /\ UNCHANGED <<bothConnected, pump, applied, queue>>
        \/ /\ ~HasLeft(r) \/ gameOver
           /\ bothConnected' = r.both
           /\ wire' = Tail(wire)
           /\ Start(queue, r.both, gameOver, SavedByRoster(gameOver))
           /\ UNCHANGED <<told, open, cursor, owed>>
  /\ UNCHANGED <<game, opponent, page, lastId, snap, board, quit, bounds>>

-----------------------------------------------------------------------------
(* The page: boot, resuming a saved game, leaving it.                      *)

\* What a new page starts with.
Fresh ==
  /\ queue' = <<>> /\ bothConnected' = FALSE /\ gameOver' = FALSE
  /\ pump' = "idle" /\ snap' = NoView /\ told' = {}
  /\ applied' = 0 /\ board' = 0 /\ lastId' = 0

Reload ==
  /\ reloads < MaxReloads
  /\ reloads' = reloads + 1
  /\ page' = IF saved THEN "resuming" ELSE "home"
  /\ Fresh /\ Cut
  /\ UNCHANGED <<game, opponent, saved, quit, drops, failures, flips, elsewhere>>

Resumes ==
  /\ page = "resuming"
  /\ \/ /\ ~over
        /\ page' = "running"
        /\ applied' = ver /\ board' = ver /\ lastId' = ver
        /\ UNCHANGED saved
     \/ /\ over
        /\ page' = "home" /\ saved' = FALSE
        /\ UNCHANGED <<applied, board, lastId>>
  /\ UNCHANGED <<game, opponent, stream, queue, bothConnected, gameOver, pump,
                 snap, told, quit, bounds>>

ResumeFails ==
  /\ page = "resuming" /\ Fails
  /\ page' = "home" /\ saved' = FALSE
  /\ UNCHANGED <<game, opponent, stream, lastId, applied, queue, bothConnected,
                 gameOver, pump, snap, board, told, quit, drops, flips,
                 reloads, elsewhere>>

\* onQuit: the server is told, once and at best; the entry is dropped.
Quit ==
  /\ page = "running"
  /\ page' = "home" /\ saved' = FALSE /\ quit' = TRUE
  /\ Fresh /\ Cut
  /\ UNCHANGED <<game, opponent, bounds>>

-----------------------------------------------------------------------------
Awaited ==
  \/ AnimationDone \/ ShowsEnd \/ SnapshotServed \/ SnapshotArrives
  \/ PostAccepted \/ PostAnswered \/ Resumes

Messages == TakesDelta \/ TakesRoster

Next ==
  \/ OpponentMoves \/ MoveElsewhere \/ OpponentComesOrGoes \/ OpponentQuits
  \/ Drain \/ Drop \/ Connect
  \/ Awaited \/ Messages
  \/ SnapshotFails \/ PostThrows \/ Choose
  \/ Reload \/ ResumeFails \/ Quit

Spec == Init /\ [][Next]_vars

\* The server drains its streams, the browser reconnects and delivers, and
\* what is awaited comes.  Nothing makes a player move or come back.
FairSpec == Spec /\ WF_vars(Drain) /\ WF_vars(Connect) /\ WF_vars(Messages)
                 /\ WF_vars(Awaited)

-----------------------------------------------------------------------------
(* Properties.                                                             *)

TypeOK ==
  /\ ver \in 1..MaxVer /\ need \subseteq {"me", "opp"} /\ over \in BOOLEAN
  /\ {oppHere, oppLeft, open, owed, saved, bothConnected, gameOver, quit} \subseteq BOOLEAN
  /\ {cursor, lastId, applied, board} \subseteq 0..ver
  /\ page \in {"resuming", "running", "home"} /\ pump \in Pumps
  /\ snap \in [ver : 0..ver, mine : BOOLEAN, over : BOOLEAN]
  /\ told \subseteq {"result", "left"}
  /\ Len(wire) <= 2 * MaxVer + MaxFlips + MaxDrops + 1
  /\ \A i \in DOMAIN queue : queue[i] \in 1..ver

\* The player is asked in turn, on a board that shows the whole of what the
\* question is about: the game still waits for this seat when the prompt
\* goes up and as long as it stays, whatever the opponent does meanwhile.
\* (Another tab that moves for the same seat may overtake it.)
PromptedInTurn ==
  pump = "prompt" /\ elsewhere = 0 =>
    "me" \in need /\ board = snap.ver /\ applied = snap.ver

\* Over breaks and resumptions of the stream, a page applies every event
\* after the ones it started with, once and in order, and its board never
\* goes back.
ShownInOrder ==
  [][page = "running" /\ page' = "running" /\ reloads' = reloads =>
       applied' \in {applied, applied + 1} /\ board' >= board]_vars

Playing == page = "running" /\ ~quit

\* No request has failed and no other tab has moved: either may stop a
\* pump for good.
Undisturbed == failures = 0 /\ elsewhere = 0

\* A player whose turn it is is asked for a move, as long as the opponent
\* is there.
MyTurnIsPrompted ==
  (Playing /\ "me" \in need) ~>
    (\/ "me" \notin need \/ pump \in {"prompt", "posting", "posted"}
     \/ ~oppHere \/ ~Playing \/ ~Undisturbed)

\* The end of a game reaches the screen of a player whose opponent is
\* still there.
EndIsShownToBoth ==
  (Playing /\ over) ~> ("result" \in told \/ ~Playing \/ ~oppHere \/ ~Undisturbed)
==============================================================================

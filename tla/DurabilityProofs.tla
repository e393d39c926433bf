-------------------------- MODULE DurabilityProofs --------------------------
(***************************************************************************)
(* Theorems about Durability, for any number of games, handlers and        *)
(* misfortunes, any length of games and any cap of the registry.           *)
(*                                                                         *)
(* None of the properties is inductive: a restart replaces every game by   *)
(* its row, and none of them says enough of the rows.  EndInv adds that a  *)
(* row of a game with a result ends the same way, and that a handler about *)
(* to record a result has saved the finished game; KeptInv that a handler  *)
(* inside a session holds its lock, and that neither a game nor its row is *)
(* behind what was answered; CapInv counts the games that are served.      *)
(***************************************************************************)
EXTENDS Durability, FiniteSetTheorems, TLAPS

OneEnding ==
  /\ \A g \in Games : result[g] # Gone =>
       /\ Over(g) /\ mem[g].winner = result[g] /\ mem[g].known
       /\ row[g] # Gone => row[g].winner = result[g]
  /\ \A h \in Handlers : req[h].at = "record" =>
       LET g == req[h].on IN
       row[g] # Gone => row[g].winner = mem[g].winner

Requests == {Free} \cup [at : {"enter", "save", "record"}, on : Games, op : Ops]

Typed ==
  /\ mem \in [Games -> Play \cup {Gone}]
  /\ row \in [Games -> Play \cup {Gone}]
  /\ result \in [Games -> {0, 1, Gone}]
  /\ req \in [Handlers -> Requests]
  /\ failedSaves \in Nat

\* A game is at its last move only when it is over, and then seat 1 is held.
Proper(p) == p # Gone => /\ p.winner = Gone => p.ver < Final
                         /\ p.winner # Gone => p.guest # NoOne

\* Whoever serves or handles a game has a game; a row of a finished game is
\* of the game in memory; a result is recorded of a game that is over, for
\* an account.
Playable ==
  /\ \A g \in Games : Proper(mem[g]) /\ Proper(row[g])
  /\ registry \subseteq Games
  /\ \A g \in Games : row[g] # Gone /\ row[g].winner # Gone =>
                     Over(g) /\ mem[g].known = row[g].known
  /\ \A g \in registry : mem[g] # Gone
  /\ \A h \in Handlers :
       /\ req[h].at # "free" => mem[req[h].on] # Gone
       /\ req[h].at = "record" => Over(req[h].on) /\ mem[req[h].on].known

EndInv == Typed /\ Playable /\ (failedSaves = 0 => OneEnding)

USE DEF handlers, games, durable, luck, history

LEMMA EndInit == Init => EndInv
BY DurabilityAssumption, NamesAssumption
   DEF Init, EndInv, Typed, Requests, Playable, Proper, OneEnding, Free

\* No request comes to the point of recording in this step.
NoNewRecord == \A h \in Handlers : req'[h].at = "record" => req[h] = req'[h]

LEMMA RequestsMove ==
  ASSUME req \in [Handlers -> Requests], NEW h \in Handlers,
         \/ \E g \in Games, kind \in Ops : Take(h, g, kind)
         \/ Done(h)
         \/ req[h].at # "free" /\ \E kind \in Ops :
              req' = [req EXCEPT ![h] = [at |-> "save", on |-> req[h].on, op |-> kind]]
  PROVE  req' \in [Handlers -> Requests] /\ NoNewRecord
BY DEF Requests, Take, Done, Put, Free, Ops, NoNewRecord

\* Steps that leave games, rows and results alone, and record nothing.
LEMMA EndKept ==
  ASSUME EndInv, UNCHANGED <<mem, row, result, failedSaves>>,
         req' \in [Handlers -> Requests], NoNewRecord,
         registry' \subseteq registry,
         \A h \in Handlers : req'[h].at # "free" => mem[req'[h].on] # Gone
  PROVE  EndInv'
BY DEF EndInv, Typed, Playable, Proper, OneEnding, Over, NoNewRecord

\* No game that is over ends otherwise, and every game stays playable.
GamesKept ==
  /\ mem' \in [Games -> Play \cup {Gone}]
  /\ \A g \in Games : /\ Over(g) => /\ mem'[g] # Gone /\ mem'[g].winner = mem[g].winner
                                   /\ mem'[g].known = mem[g].known
                      /\ mem[g] # Gone => mem'[g] # Gone
                      /\ Proper(mem'[g])

LEMMA EndChanged ==
  ASSUME EndInv, UNCHANGED <<row, result, failedSaves>>,
         req' \in [Handlers -> Requests], NoNewRecord, GamesKept,
         registry' \subseteq Games, \A g \in registry' : mem'[g] # Gone,
         \A h \in Handlers : req'[h].at # "free" => mem'[req'[h].on] # Gone
  PROVE  EndInv'
BY DEF EndInv, Typed, Playable, OneEnding, Over, NoNewRecord, Requests, Free, GamesKept

LEMMA MovedPlays ==
  ASSUME NEW g \in Games, mem[g] \in Play, mem[g].winner = Gone,
         mem[g].ver < Final, MayMove(g), NEW w \in {0, 1}
  PROVE  Moved(g, w) \in Play /\ Proper(Moved(g, w))
<1> DEFINE n == mem[g].ver + 1
           e == IF n = Final THEN w ELSE Gone
<1>1. n \in 0..Final /\ e \in {0, 1, Gone} /\ (e = Gone => n < Final)
  BY DurabilityAssumption, NamesAssumption DEF Play
<1>2. Moved(g, w) = [mem[g] EXCEPT !.ver = n, !.winner = e]
  BY DEF Moved
<1> HIDE DEF n, e
<1>3. /\ Moved(g, w) \in Play /\ Moved(g, w).winner = e /\ Moved(g, w).ver = n
      /\ Moved(g, w).guest = mem[g].guest /\ Moved(g, w).known = mem[g].known
  BY <1>1, <1>2 DEF Play
<1>4. n = Final => mem[g].guest # NoOne
  BY DEF MayMove, SeatOpen, n
<1>5. e # Gone => n = Final
  BY DEF e
<1> QED
  BY <1>1, <1>3, <1>4, <1>5 DEF Proper

LEMMA ChangeKeeps ==
  ASSUME EndInv, NEW h \in Handlers, NEW kind \in Ops,
         req[h].at = "enter", Change(h, req[h].on, kind)
  PROVE  EndInv'
<1> DEFINE g == req[h].on
<1>1. g \in Games /\ mem[g] # Gone /\ mem[g] \in Play
  BY DEF EndInv, Typed, Playable, Requests, Free
<1>2. /\ UNCHANGED <<row, result, failedSaves, registry>>
      /\ req' = [req EXCEPT ![h] = [at |-> "save", on |-> g, op |-> kind]]
  BY DEF Change
<1>3. req' \in [Handlers -> Requests] /\ NoNewRecord
  BY <1>2, RequestsMove DEF EndInv, Typed
<1>4. GamesKept
  <2>1. CASE mem' = mem
    BY <2>1 DEF GamesKept, Over, EndInv, Typed, Playable
  <2>2. CASE MayMove(g) /\ \E w \in {0, 1} : mem' = [mem EXCEPT ![g] = Moved(g, w)]
    <3>1. PICK w \in {0, 1} : mem' = [mem EXCEPT ![g] = Moved(g, w)]
      BY <2>2
    <3>2. Moved(g, w) \in Play /\ Proper(Moved(g, w))
      BY <1>1, <2>2, MovedPlays DEF MayMove, Over, EndInv, Playable, Proper
    <3> QED
      BY <1>1, <2>2, <3>1, <3>2, NamesAssumption
         DEF MayMove, GamesKept, Over, EndInv, Typed, Playable
  <2>3. ASSUME NEW p \in Play, mem' = [mem EXCEPT ![g] = p],
               p.winner = mem[g].winner, p.ver = mem[g].ver,
               p.guest = mem[g].guest \/ p.guest # NoOne,
               Over(g) => p.known = mem[g].known
        PROVE  GamesKept
    BY <1>1, <2>3, NamesAssumption DEF GamesKept, Over, EndInv, Typed, Playable, Proper
  <2>4. CASE /\ SeatOpen(g)
             /\ \E k \in {mem[g].known, TRUE} : mem' = [mem EXCEPT ![g] = Joined(g, h, k)]
    <3>1. PICK k \in {mem[g].known, TRUE} : mem' = [mem EXCEPT ![g] = Joined(g, h, k)]
      BY <2>4
    <3>2. /\ Joined(g, h, k) \in Play /\ Joined(g, h, k).winner = mem[g].winner
          /\ Joined(g, h, k).ver = mem[g].ver /\ Joined(g, h, k).guest = h
      BY <1>1 DEF Joined, Play
    <3>3. ~Over(g) /\ h # NoOne
      BY <1>1, <2>4, NamesAssumption DEF SeatOpen, Over, EndInv, Playable, Proper
    <3> QED
      BY <2>3, <3>1, <3>2, <3>3
  <2>5. CASE mem' = [mem EXCEPT ![g].left = TRUE]
    <3>1. [mem[g] EXCEPT !.left = TRUE] \in Play
      BY <1>1 DEF Play
    <3> QED
      BY <1>1, <2>3, <2>5, <3>1 DEF Play, EndInv, Typed
  <2> QED
    BY <2>1, <2>2, <2>4, <2>5 DEF Change
<1>5. registry' \subseteq Games /\ \A d \in registry' : mem'[d] # Gone
  BY <1>2, <1>4 DEF GamesKept, EndInv, Playable
<1>6. \A q \in Handlers : req'[q].at # "free" => mem'[req'[q].on] # Gone
  BY <1>1, <1>2, <1>4 DEF GamesKept, Put, EndInv, Typed, Playable, Requests, Free
<1> QED
  BY <1>2, <1>3, <1>4, <1>5, <1>6, EndChanged

LEMMA EnterKeeps == ASSUME EndInv, NEW h \in Handlers, Enter(h) PROVE EndInv'
<1> DEFINE g == req[h].on
<1>1. g \in Games /\ req[h].at = "enter"
  BY DEF Enter, EndInv, Typed, Requests, Free
<1>2. CASE Look(h, g)
  <2>1. /\ UNCHANGED <<mem, row, result, failedSaves, registry>> /\ Done(h)
    BY <1>2 DEF Look
  <2>2. req' \in [Handlers -> Requests] /\ NoNewRecord
    BY <2>1, RequestsMove DEF EndInv, Typed
  <2>3. \A q \in Handlers : req'[q].at # "free" => mem[req'[q].on] # Gone
    BY <2>1 DEF Done, Free, EndInv, Typed, Playable
  <2> QED
    BY <2>1, <2>2, <2>3, EndKept
<1> QED
  BY <1>1, <1>2, ChangeKeeps DEF Enter

\* What a save leaves behind, whether the answer or the record comes next.
LEMMA SaveKeeps == ASSUME EndInv, NEW h \in Handlers, Save(h) PROVE EndInv'
<1> DEFINE g == req[h].on
<1>1. g \in Games /\ mem[g] \in Play /\ mem[g] # Gone
  BY DEF Save, EndInv, Typed, Playable, Requests, Free
<1>2. /\ row' = [row EXCEPT ![g] = mem[g]] /\ UNCHANGED <<mem, result, registry, failedSaves>>
      /\ AfterSave(h, g) /\ req[h].at = "save"
  BY DEF Save, RowOf
<1>3. CASE ~Ends(h, g)
  <2>1. Done(h)
    BY <1>2, <1>3 DEF AfterSave, Answer
  <2>2. req' \in [Handlers -> Requests] /\ NoNewRecord
    BY <2>1, RequestsMove DEF EndInv, Typed
  <2> QED
    BY <1>1, <1>2, <2>1, <2>2
       DEF EndInv, Typed, Playable, OneEnding, Over, NoNewRecord, Done, Free, Proper, Requests
<1>4. CASE Ends(h, g)
  <2>1. req' = [req EXCEPT ![h].at = "record"] /\ Over(g)
    BY <1>2, <1>4 DEF AfterSave, Put, Ends
  <2>2. req' \in [Handlers -> Requests]
    BY <1>2, <2>1 DEF EndInv, Typed, Requests, Free
  <2>3. Typed'
    BY <1>1, <1>2, <2>2 DEF EndInv, Typed
  <2>4. Playable'
    BY <1>1, <1>2, <1>4, <2>1 DEF Ends, EndInv, Typed, Playable, Over, Proper
  <2>5. OneEnding => OneEnding'
    BY <1>1, <1>2, <2>1 DEF EndInv, Typed, OneEnding, Over
  <2> QED
    BY <1>2, <2>3, <2>4, <2>5 DEF EndInv
<1> QED
  BY <1>3, <1>4

\* The row stays behind: from here on nothing is said of the endings.
LEMMA SaveFailsKeeps == ASSUME EndInv, NEW h \in Handlers, SaveFails(h) PROVE EndInv'
<1> DEFINE g == req[h].on
<1>1. /\ UNCHANGED <<mem, row, result, registry>> /\ failedSaves' = failedSaves + 1
      /\ AfterSave(h, g) /\ req[h].at = "save"
  BY DEF SaveFails
<1>2. failedSaves' \in Nat /\ failedSaves' # 0
  BY <1>1 DEF EndInv, Typed
<1>3. CASE ~Ends(h, g)
  <2>1. Done(h)
    BY <1>1, <1>3 DEF AfterSave, Answer
  <2>2. req' \in [Handlers -> Requests] /\ NoNewRecord
    BY <2>1, RequestsMove DEF EndInv, Typed
  <2> QED
    BY <1>1, <1>2, <2>1, <2>2
       DEF EndInv, Typed, Playable, Over, NoNewRecord, Done, Free, Proper
<1>4. CASE Ends(h, g)
  <2>1. req' = [req EXCEPT ![h].at = "record"] /\ Over(g)
    BY <1>1, <1>4 DEF AfterSave, Put, Ends
  <2>2. req' \in [Handlers -> Requests]
    BY <1>1, <2>1 DEF EndInv, Typed, Requests, Free
  <2> QED
    BY <1>1, <1>2, <1>4, <2>1, <2>2
       DEF Ends, EndInv, Typed, Playable, Over, Proper, Requests, Free
<1> QED
  BY <1>3, <1>4

LEMMA RecordKeeps ==
  ASSUME EndInv, NEW h \in Handlers, RecordResult(h) \/ RecordFails(h)
  PROVE  EndInv'
<1> DEFINE g == req[h].on
<1>1. g \in Games /\ req[h].at = "record" /\ Over(g) /\ mem[g].known
  BY DEF RecordResult, RecordFails, EndInv, Typed, Playable, Requests, Free
<1>2. CASE RecordResult(h)
  <2>1. /\ result' = [result EXCEPT ![g] = KeptResult(g)]
        /\ UNCHANGED <<mem, row, registry, failedSaves>> /\ Done(h)
    BY <1>2 DEF RecordResult, Answer
  <2>2. req' \in [Handlers -> Requests] /\ NoNewRecord
    BY <2>1, RequestsMove DEF EndInv, Typed
  <2>3. /\ KeptResult(g) \in {0, 1, Gone}
        /\ failedSaves = 0 => KeptResult(g) = mem[g].winner
    BY <1>1 DEF KeptResult, Over, EndInv, Typed, OneEnding, Play
  <2> QED
    BY <1>1, <2>1, <2>2, <2>3
       DEF EndInv, Typed, Playable, OneEnding, Over, NoNewRecord, Done, Free, Proper
<1>3. CASE RecordFails(h)
  <2>1. /\ UNCHANGED <<mem, row, result, failedSaves, registry>>
        /\ Done(h) \/ UNCHANGED req
    BY <1>3 DEF RecordFails, Answer
  <2>2. req' \in [Handlers -> Requests] /\ NoNewRecord
    BY <2>1, RequestsMove DEF EndInv, Typed, NoNewRecord
  <2>3. \A q \in Handlers : req'[q].at # "free" => mem[req'[q].on] # Gone
    BY <2>1 DEF Done, Free, EndInv, Typed, Playable
  <2> QED
    BY <2>1, <2>2, <2>3, EndKept
<1> QED
  BY <1>2, <1>3

LEMMA FreshPlays ==
  ASSUME NEW k \in BOOLEAN
  PROVE  /\ Fresh(k) \in Play /\ Proper(Fresh(k)) /\ Fresh(k) # Gone
         /\ Fresh(k).ver = 0 /\ Fresh(k).winner = Gone
<1>1. 0 \in 0..Final /\ 0 < Final
  BY DurabilityAssumption
<1>2. Fresh(k) \in Play
  BY <1>1 DEF Fresh, Play
<1> QED
  BY <1>1, <1>2, NamesAssumption DEF Proper, Fresh

LEMMA CreateKeeps ==
  ASSUME EndInv, NEW h \in Handlers, NEW g \in Games, Create(h, g)
  PROVE  EndInv'
<1>0. PICK k \in BOOLEAN : mem' = [mem EXCEPT ![g] = Fresh(k)]
  BY DEF Create
<1>1. /\ mem' = [mem EXCEPT ![g] = Fresh(k)] /\ mem[g] = Gone
      /\ registry' = registry \cup {g} /\ Take(h, g, "create")
      /\ UNCHANGED <<row, result, failedSaves>>
  BY <1>0 DEF Create
<1>2. req' \in [Handlers -> Requests] /\ NoNewRecord
  BY <1>1, RequestsMove DEF EndInv, Typed, Ops
<1>3. Fresh(k) \in Play /\ Proper(Fresh(k)) /\ Fresh(k) # Gone
  BY FreshPlays
<1>4. GamesKept
  BY <1>1, <1>3 DEF GamesKept, Over, EndInv, Typed, Playable
<1>5. registry' \subseteq Games /\ \A d \in registry' : mem'[d] # Gone
  BY <1>1, <1>3 DEF EndInv, Typed, Playable
<1>6. \A q \in Handlers : req'[q].at # "free" => mem'[req'[q].on] # Gone
  BY <1>1, <1>3, <1>4 DEF Take, GamesKept, EndInv, Typed, Playable, Requests, Free
<1> QED
  BY <1>1, <1>2, <1>4, <1>5, <1>6, EndChanged

LEMMA RestartKeeps == ASSUME EndInv, Restart PROVE EndInv'
<1>1. /\ mem' = [g \in Games |-> IF row[g] = Gone THEN mem[g] ELSE row[g]]
      /\ req' = [h \in Handlers |-> Free]
      /\ UNCHANGED <<row, result, failedSaves>>
      /\ registry' \subseteq Games /\ \A g \in registry' : row[g] # Gone
  BY DEF Restart, Revived, Loads, InStore
<1>2. Typed'
  BY <1>1 DEF EndInv, Typed, Requests
<1>3. Playable'
  BY <1>1 DEF EndInv, Typed, Playable, Over, Proper, Free
<1>4. failedSaves' = 0 => OneEnding'
  BY <1>1, <1>2 DEF EndInv, Typed, Playable, OneEnding, Over, Free
<1> QED
  BY <1>1, <1>2, <1>3, <1>4 DEF EndInv

LEMMA EndStep == ASSUME EndInv, [Next]_vars PROVE EndInv'
<1>1. CASE UNCHANGED vars
  BY <1>1 DEF vars, EndInv, Typed, Playable, Proper, OneEnding, Over
<1>2. ASSUME NEW h \in Handlers, NEW g \in Games, Find(h, g)
      PROVE  EndInv'
  <2>1. /\ UNCHANGED <<mem, row, result, failedSaves, registry>>
        /\ Take(h, g, "any") /\ g \in registry
    BY <1>2 DEF Find
  <2>2. req' \in [Handlers -> Requests] /\ NoNewRecord
    BY <2>1, RequestsMove DEF EndInv, Typed, Ops
  <2>3. \A q \in Handlers : req'[q].at # "free" => mem[req'[q].on] # Gone
    BY <2>1 DEF Take, EndInv, Typed, Playable, Requests, Free
  <2> QED
    BY <2>1, <2>2, <2>3, EndKept
<1>3. ASSUME NEW h \in Handlers, SaveFails(h) PROVE EndInv'
  BY <1>3, SaveFailsKeeps
<1>4. ASSUME NEW g \in Games, GrowIdle(g) \/ Unsubscribe(g) \/ Evict(g)
      PROVE  EndInv'
  <2>1. UNCHANGED <<mem, row, result, failedSaves, req>> /\ registry' \subseteq registry
    BY <1>4 DEF GrowIdle, Unsubscribe, Evict, Touch
  <2>2. req' \in [Handlers -> Requests] /\ NoNewRecord
        /\ \A q \in Handlers : req'[q].at # "free" => mem[req'[q].on] # Gone
    BY <2>1 DEF EndInv, Typed, Playable, NoNewRecord
  <2> QED
    BY <2>1, <2>2, EndKept
<1>5. ASSUME NEW g \in Games, DeleteRow(g) PROVE EndInv'
  BY <1>5 DEF DeleteRow, EndInv, Typed, Playable, Proper, OneEnding, Over
<1> QED
  BY <1>1, <1>2, <1>3, <1>4, <1>5, EnterKeeps, SaveKeeps, RecordKeeps, CreateKeeps,
     RestartKeeps DEF Next, HandlerStep

\* Until a save fails the winner on record is the winner of the game that is
\* served, whatever dies, is evicted or is restored in between.
THEOREM ResultStaysTheGames == Spec => []ResultIsTheGames
<1>1. Init => EndInv
  BY EndInit
<1>2. EndInv /\ [Next]_vars => EndInv'
  BY EndStep
<1>3. EndInv => ResultIsTheGames
  BY DEF EndInv, Playable, OneEnding, ResultIsTheGames
<1> QED
  BY <1>1, <1>2, <1>3, PTL DEF Spec

-----------------------------------------------------------------------------
(***************************************************************************)
(* What was answered is kept.  A row may be missing for two reasons only:  *)
(* the reaper took the game, or nothing was answered of it yet; and while  *)
(* a handler is between its save and its record, the row it saved is the   *)
(* game, since it holds the lock.                                          *)
(***************************************************************************)

Inside(h) == req[h].at \in {"save", "record"}

MoreTyped ==
  /\ lock \in [Games -> Handlers \cup {NoOne}]
  /\ acked \in [Games -> Nat] /\ seated \in [Games -> SUBSET Handlers]
  /\ tries \in [Handlers -> Nat]
  /\ failedResults \in Nat /\ crashes \in Nat

\* Whoever is inside a session holds its lock.
Locked == \A h \in Handlers : Inside(h) => lock[req[h].on] = h

NotBehind(p, g) == p.ver >= acked[g] /\ seated[g] \subseteq {p.guest}

GameKept(g) ==
  /\ mem[g] # Gone => NotBehind(mem[g], g)
  /\ mem[g] = Gone => acked[g] = 0 /\ seated[g] = {} /\ row[g] = Gone
  /\ row[g] # Gone => NotBehind(row[g], g)
  /\ row[g] = Gone /\ g \notin evicted => acked[g] = 0

InsideKept(h) ==
  LET g == req[h].on IN
  /\ Inside(h) /\ req[h].op = "join" => mem[g].guest = h
  /\ req[h].at = "record" => row[g] = mem[g] \/ (row[g] = Gone /\ g \in evicted)

\* Whoever was answered the end of an account's game has it on record.
EndOnRecord(g) ==
  acked[g] >= Final /\ Over(g) /\ mem[g].known =>
    result[g] # Gone \/ failedResults >= Attempts

AnswersKept == /\ \A g \in Games : GameKept(g)
               /\ \A h \in Handlers : InsideKept(h)
               /\ \A g \in Games : EndOnRecord(g)

\* On its way to the record, from the move that ended the game.
Ending(h, g) == /\ req[h].on = g
                /\ req[h].at = "record" \/ (req[h].at = "save" /\ req[h].op = "move")

Recorded ==
  /\ crashes = 0 => \A g \in Games : Over(g) /\ mem[g].known =>
       \/ result[g] # Gone \/ failedResults >= Attempts
       \/ \E h \in Handlers : Ending(h, g)
  /\ \A h \in Handlers : tries[h] <= failedResults

KeptInv == /\ MoreTyped /\ Locked /\ dropped \subseteq evicted
           /\ failedSaves = 0 => AnswersKept
           /\ Recorded

LEMMA KeptInit == Init => KeptInv
BY DurabilityAssumption, NamesAssumption
   DEF Init, KeptInv, MoreTyped, Locked, Inside, AnswersKept, GameKept, InsideKept,
       EndOnRecord, Recorded, Over, Free

\* Steps outside every lock: no game, row or answer changes.
LEMMA KeptQuietly ==
  ASSUME KeptInv,
         UNCHANGED <<mem, lock, row, result, tries, luck, acked, seated>>,
         evicted \subseteq evicted', dropped' \subseteq evicted',
         \A h \in Handlers : Inside(h) \/ Inside(h)' => req'[h] = req[h]
  PROVE  KeptInv'
<1>1. \A h \in Handlers, g \in Games : Ending(h, g) => Ending(h, g)'
  BY DEF Ending, Inside
<1>2. Recorded'
  BY <1>1 DEF KeptInv, Recorded, Over
<1>3. Locked' /\ MoreTyped'
  BY DEF KeptInv, Locked, MoreTyped, Inside
<1>4. failedSaves' = 0 => AnswersKept'
  BY DEF KeptInv, AnswersKept, GameKept, NotBehind, InsideKept, Inside, EndOnRecord, Over
<1> QED
  BY <1>2, <1>3, <1>4 DEF KeptInv

\* Only one handler is inside a session.
LEMMA OneInside ==
  ASSUME KeptInv, NEW h \in Handlers, NEW q \in Handlers,
         Inside(h), Inside(q), req[h].on = req[q].on
  PROVE  h = q
BY DEF KeptInv, Locked

\* The handler that holds the lock answers: what it says yes to is what the
\* game has, and what the row has unless the reaper took it.
LEMMA KeptAnswer ==
  ASSUME EndInv, EndInv', KeptInv, NEW h \in Handlers, NEW g \in Games,
         Inside(h), req[h].on = g, Answer(h, g), UNCHANGED <<mem, dropped, crashes, evicted>>,
         failedSaves' = 0 => failedSaves = 0,
         failedResults' \in Nat, failedResults' >= failedResults,
         \A d \in Games : d # g => row'[d] = row[d],
         failedSaves' = 0 => row'[g] = mem[g] \/ (row'[g] = Gone /\ g \in evicted),
         \A d \in Games : result[d] # Gone => result'[d] # Gone,
         Ending(h, g) /\ Over(g) /\ mem[g].known =>
           result'[g] # Gone \/ failedResults' >= Attempts
  PROVE  KeptInv'
<1>1. /\ req' = [req EXCEPT ![h] = Free] /\ lock' = [lock EXCEPT ![g] = NoOne]
      /\ tries' = [tries EXCEPT ![h] = 0]
      /\ acked' = [acked EXCEPT ![g] = IF req[h].op = "move" THEN mem[g].ver ELSE @]
      /\ seated' = [seated EXCEPT ![g] = IF req[h].op = "join" THEN @ \cup {h} ELSE @]
  BY DEF Answer, Done
<1>2. mem[g] # Gone /\ mem[g] \in Play /\ mem[g].ver \in Nat
  BY DurabilityAssumption DEF EndInv, Typed, Playable, Inside, Play
<1>3. \A q \in Handlers : Inside(q)' => q # h /\ Inside(q) /\ req'[q] = req[q] /\ req[q].on # g
  BY <1>1, OneInside DEF Inside, Free, EndInv, Typed
<1>4. MoreTyped'
  BY <1>1, <1>2 DEF KeptInv, MoreTyped
<1>5. Locked'
  BY <1>1, <1>3 DEF KeptInv, Locked, EndInv, Typed, Requests, Inside, Free, MoreTyped
<1>6. ASSUME failedSaves' = 0 PROVE AnswersKept'
  <2>1. AnswersKept /\ GameKept(g) /\ InsideKept(h)
    BY <1>6 DEF KeptInv, AnswersKept
  <2>2. GameKept(g)'
    <3>1. acked'[g] = (IF req[h].op = "move" THEN mem[g].ver ELSE acked[g])
          /\ seated'[g] = (IF req[h].op = "join" THEN seated[g] \cup {h} ELSE seated[g])
      BY <1>1 DEF KeptInv, MoreTyped
    <3>2. NotBehind(mem[g], g)'
      BY <1>2, <2>1, <3>1 DEF GameKept, InsideKept, NotBehind
    <3>3. row'[g] # Gone => row'[g] = mem[g]
      BY <1>6
    <3> QED
      BY <1>2, <1>6, <3>2, <3>3 DEF GameKept, NotBehind
  <2>3. \A d \in Games : d # g => GameKept(d)'
    BY <1>1, <2>1 DEF AnswersKept, GameKept, NotBehind, KeptInv, MoreTyped
  <2>4. \A q \in Handlers : InsideKept(q)'
    BY <1>3, <2>1 DEF AnswersKept, InsideKept, Inside, EndInv, Typed, Requests, Free
  <2>5. ASSUME NEW d \in Games, (acked[d] >= Final)', Over(d)', mem'[d].known
        PROVE  result'[d] # Gone \/ failedResults' >= Attempts
    <3>1. Over(d) /\ mem[d].known
      BY <2>5 DEF Over
    <3>2. CASE d = g /\ req[h].op = "move"
      BY <3>1, <3>2 DEF Ending, Inside
    <3>3. CASE ~(d = g /\ req[h].op = "move")
      <4>1. acked[d] >= Final
        BY <1>1, <2>5, <3>3 DEF KeptInv, MoreTyped
      <4>2. result[d] # Gone \/ failedResults >= Attempts
        BY <2>1, <3>1, <4>1 DEF AnswersKept, EndOnRecord
      <4> QED
        BY <4>2, DurabilityAssumption DEF KeptInv, MoreTyped
    <3> QED
      BY <3>2, <3>3
  <2> QED
    BY <2>2, <2>3, <2>4, <2>5 DEF AnswersKept, EndOnRecord
<1>7. Recorded'
  <2>1. ASSUME crashes' = 0, NEW d \in Games, Over(d)', mem'[d].known
        PROVE  \/ result'[d] # Gone \/ failedResults' >= Attempts
               \/ \E q \in Handlers : Ending(q, d)'
    <3>1. Over(d) /\ mem[d].known /\ crashes = 0
      BY <2>1 DEF Over
    <3>2. CASE result[d] # Gone \/ failedResults >= Attempts
      BY <3>2, DurabilityAssumption DEF KeptInv, MoreTyped
    <3>3. ASSUME NEW q \in Handlers, Ending(q, d)
            PROVE  result'[d] # Gone \/ failedResults' >= Attempts \/ \E r \in Handlers : Ending(r, d)'
      BY <1>1, <2>1, <3>1, <3>3 DEF Ending, EndInv, Typed
    <3> QED
      BY <3>1, <3>2, <3>3 DEF KeptInv, Recorded
  <2>2. \A q \in Handlers : tries'[q] <= failedResults'
    BY <1>1 DEF KeptInv, MoreTyped, Recorded
  <2> QED
    BY <2>1, <2>2 DEF Recorded
<1> QED
  BY <1>4, <1>5, <1>6, <1>7 DEF KeptInv

\* The handler that holds the lock goes on to the record: the row it saved is
\* the game.
LEMMA KeptOnToRecord ==
  ASSUME EndInv, EndInv', KeptInv, NEW h \in Handlers, NEW g \in Games,
         req[h].at = "save", req[h].on = g, req[h].op = "move", Put(h, "record"),
         UNCHANGED <<mem, lock, tries, acked, seated, result, dropped, evicted,
                     crashes, failedResults>>,
         failedSaves' = 0 => failedSaves = 0 /\ row' = [row EXCEPT ![g] = mem[g]]
  PROVE  KeptInv'
<1>1. req' = [req EXCEPT ![h].at = "record"]
  BY DEF Put
<1>2. mem[g] # Gone
  BY DEF EndInv, Typed, Playable
<1>3. \A q \in Handlers : q # h => req'[q] = req[q]
  BY <1>1 DEF EndInv, Typed
<1>4. req'[h].at = "record" /\ req'[h].on = g /\ req'[h].op = "move" /\ Inside(h)
  BY <1>1 DEF EndInv, Typed, Requests, Free, Inside
<1>5. MoreTyped' /\ Locked'
  BY <1>3, <1>4 DEF KeptInv, MoreTyped, Locked, Inside
<1>6. ASSUME failedSaves' = 0 PROVE AnswersKept'
  <2>1. AnswersKept
    BY <1>6 DEF KeptInv
  <2>2. \A d \in Games : GameKept(d)'
    BY <1>2, <1>6, <2>1 DEF AnswersKept, GameKept, NotBehind, EndInv, Typed
  <2>3. InsideKept(h)'
    BY <1>4, <1>6 DEF InsideKept, EndInv, Typed
  <2>4. ASSUME NEW q \in Handlers, q # h PROVE InsideKept(q)'
    <3>1. Inside(q) => req[q].on # g
      BY <1>4, <2>4, OneInside
    <3> QED
      BY <1>3, <1>6, <2>1, <2>4, <3>1 DEF AnswersKept, InsideKept, Inside, EndInv, Typed, Requests, Free
  <2>5. \A d \in Games : EndOnRecord(d)'
    BY <2>1 DEF AnswersKept, EndOnRecord, Over
  <2> QED
    BY <2>2, <2>3, <2>4, <2>5 DEF AnswersKept
<1>7. Recorded'
  BY <1>3, <1>4 DEF KeptInv, Recorded, Over, Ending
<1> QED
  BY <1>5, <1>6, <1>7 DEF KeptInv

LEMMA KeptSave ==
  ASSUME EndInv, EndInv', KeptInv, NEW h \in Handlers, Save(h) \/ SaveFails(h)
  PROVE  KeptInv'
<1> DEFINE g == req[h].on
<1>1. g \in Games /\ req[h].at = "save" /\ Inside(h) /\ AfterSave(h, g)
  BY DEF Save, SaveFails, EndInv, Typed, Requests, Free, Inside
<1>2. UNCHANGED <<mem, result, dropped, evicted, crashes, failedResults>>
  BY DEF Save, SaveFails
<1>3. failedSaves' = 0 => failedSaves = 0 /\ row' = [row EXCEPT ![g] = mem[g]]
  BY DEF Save, SaveFails, RowOf, EndInv, Typed
<1>4. \A d \in Games : d # g => row'[d] = row[d]
  BY DEF Save, SaveFails, RowOf, EndInv, Typed
<1>5. failedSaves' = 0 => row'[g] = mem[g]
  BY <1>1, <1>3 DEF EndInv, Typed
<1>6. CASE Ends(h, g)
  BY <1>1, <1>2, <1>3, <1>6, KeptOnToRecord DEF AfterSave, Ends
<1>7. CASE ~Ends(h, g)
  <2>1. Answer(h, g) /\ ~(Ending(h, g) /\ Over(g) /\ mem[g].known)
    BY <1>1, <1>7 DEF AfterSave, Ends, Ending
  <2>2. failedResults' \in Nat /\ failedResults' >= failedResults
    BY <1>2 DEF KeptInv, MoreTyped
  <2> QED
    BY <1>1, <1>2, <1>3, <1>4, <1>5, <2>1, <2>2, KeptAnswer
<1> QED
  BY <1>6, <1>7

LEMMA KeptRecord ==
  ASSUME EndInv, EndInv', KeptInv, NEW h \in Handlers, RecordResult(h) \/ RecordFails(h)
  PROVE  KeptInv'
<1> DEFINE g == req[h].on
<1>1. g \in Games /\ req[h].at = "record" /\ Inside(h) /\ Over(g)
  BY DEF RecordResult, RecordFails, EndInv, Typed, Playable, Requests, Free, Inside
<1>2. UNCHANGED <<mem, row, dropped, evicted, crashes, failedSaves>>
  BY DEF RecordResult, RecordFails
<1>3. failedSaves = 0 => row[g] = mem[g] \/ (row[g] = Gone /\ g \in evicted)
  BY <1>1 DEF KeptInv, AnswersKept, InsideKept
<1>4. CASE RecordResult(h)
  <2>1. Answer(h, g) /\ failedResults' = failedResults
        /\ result' = [result EXCEPT ![g] = KeptResult(g)]
    BY <1>4 DEF RecordResult
  <2>2. /\ \A d \in Games : result[d] # Gone => result'[d] # Gone
        /\ result'[g] # Gone
    BY <1>1, <2>1 DEF KeptResult, Over, EndInv, Typed
  <2>3. failedResults \in Nat
    BY DEF KeptInv, MoreTyped
  <2> QED
    BY <1>1, <1>2, <1>3, <2>1, <2>2, <2>3, KeptAnswer
<1>5. CASE RecordFails(h)
  <2>1. result' = result /\ failedResults' = failedResults + 1
    BY <1>5 DEF RecordFails
  <2>2. tries[h] \in Nat /\ failedResults \in Nat /\ tries[h] <= failedResults
    BY DEF KeptInv, MoreTyped, Recorded
  <2>3. CASE LastTry(h)
    <3>1. Answer(h, g)
      BY <1>5, <2>3 DEF RecordFails
    <3>2. failedResults' >= Attempts
      BY <2>1, <2>2, <2>3, DurabilityAssumption DEF LastTry
    <3> QED
      BY <1>1, <1>2, <1>3, <2>1, <2>2, <3>1, <3>2, KeptAnswer
  <2>4. CASE ~LastTry(h)
    <3>1. tries' = [tries EXCEPT ![h] = @ + 1] /\ UNCHANGED <<req, lock, acked, seated>>
      BY <1>5, <2>4 DEF RecordFails
    <3>2. MoreTyped' /\ Locked'
      BY <1>2, <2>1, <2>2, <3>1 DEF KeptInv, MoreTyped, Locked, Inside
    <3>3. failedSaves' = 0 => AnswersKept'
      <4>1. failedResults >= Attempts => failedResults' >= Attempts
        BY <2>1, <2>2, DurabilityAssumption
      <4> QED
        BY <1>2, <2>1, <3>1, <4>1
           DEF KeptInv, AnswersKept, GameKept, NotBehind, InsideKept, Inside, EndOnRecord, Over
    <3>4. Recorded'
      BY <1>2, <2>1, <2>2, <3>1, DurabilityAssumption
         DEF KeptInv, MoreTyped, Recorded, Over, Ending
    <3> QED
      BY <1>2, <3>2, <3>3, <3>4 DEF KeptInv
  <2> QED
    BY <2>3, <2>4
<1> QED
  BY <1>4, <1>5

\* Whoever comes in finds nobody inside, changes the game to p, and has yet
\* to save it.  A game that is over was on record before.
LEMMA KeptEntered ==
  ASSUME EndInv, EndInv', KeptInv, NEW h \in Handlers, NEW g \in Games, NEW kind \in Ops,
         NEW p \in Play,
         req[h].at = "enter", req[h].on = g, lock[g] = NoOne, mem[g] # Gone,
         mem' = [mem EXCEPT ![g] = p], lock' = [lock EXCEPT ![g] = h],
         req' = [req EXCEPT ![h] = [at |-> "save", on |-> g, op |-> kind]],
         UNCHANGED <<durable, dropped, tries, luck, history>>,
         p.ver >= mem[g].ver,
         p.guest = mem[g].guest \/ mem[g].guest = NoOne,
         kind = "join" => p.guest = h,
         p.winner # Gone => \/ kind = "move" /\ ~Over(g)
                            \/ Over(g) /\ p.known = mem[g].known
  PROVE  KeptInv'
<1>1. \A q \in Handlers : Inside(q) => req[q].on # g /\ req'[q] = req[q]
  BY NamesAssumption DEF KeptInv, Locked, Inside, EndInv, Typed
<1>2. \A q \in Handlers : Inside(q)' /\ q # h => Inside(q) /\ req'[q] = req[q]
  BY DEF Inside, EndInv, Typed
<1>3. MoreTyped' /\ Locked'
  BY <1>1, <1>2 DEF KeptInv, MoreTyped, Locked, Inside, EndInv, Typed, Requests
<1>4. ASSUME failedSaves' = 0 PROVE AnswersKept'
  <2>1. AnswersKept
    BY <1>4 DEF KeptInv
  <2>2. NotBehind(p, g)
    <3>1. seated[g] \subseteq {mem[g].guest} /\ mem[g].ver >= acked[g]
      BY <2>1 DEF AnswersKept, GameKept, NotBehind
    <3>2. seated[g] \subseteq {p.guest}
      BY <3>1, NamesAssumption DEF KeptInv, MoreTyped
    <3>3. mem[g].ver \in Nat /\ p.ver \in Nat /\ acked[g] \in Nat
      BY DurabilityAssumption DEF EndInv, Typed, Play, KeptInv, MoreTyped
    <3> QED
      BY <3>1, <3>2, <3>3 DEF NotBehind
  <2>3. p # Gone
    BY NamesAssumption
  <2>4. \A d \in Games : GameKept(d)'
    BY <2>1, <2>2, <2>3 DEF AnswersKept, GameKept, NotBehind, EndInv, Typed
  <2>5. \A q \in Handlers : InsideKept(q)'
    <3>1. InsideKept(h)'
      BY DEF InsideKept, Inside, EndInv, Typed
    <3>2. ASSUME NEW q \in Handlers, q # h PROVE InsideKept(q)'
      BY <1>1, <1>2, <2>1, <3>2 DEF AnswersKept, InsideKept, Inside, EndInv, Typed, Requests, Free
    <3> QED
      BY <3>1, <3>2
  <2>6. ASSUME NEW d \in Games, (acked[d] >= Final)', Over(d)', mem'[d].known
        PROVE  (result[d] # Gone \/ failedResults >= Attempts)'
    <3>1. acked[d] >= Final /\ mem[d] # Gone
      BY <2>6 DEF Over, EndInv, Typed
    <3>2. Over(d)
      <4>1. mem[d].ver >= acked[d] /\ mem[d].ver \in Nat /\ acked[d] \in Nat
        BY <2>1, <3>1, DurabilityAssumption
           DEF AnswersKept, GameKept, NotBehind, EndInv, Typed, Play, KeptInv, MoreTyped
      <4> QED
        BY <3>1, <4>1, DurabilityAssumption DEF Over, EndInv, Playable, Proper
    <3>3. mem[d].known
      BY <2>6, <3>2 DEF Over, EndInv, Typed
    <3> QED
      BY <2>1, <3>1, <3>2, <3>3 DEF AnswersKept, EndOnRecord
  <2> QED
    BY <2>4, <2>5, <2>6 DEF AnswersKept, EndOnRecord
<1>5. Recorded'
  <2>1. ASSUME crashes' = 0, NEW d \in Games, Over(d)', mem'[d].known
        PROVE  \/ result'[d] # Gone \/ failedResults' >= Attempts
               \/ \E q \in Handlers : Ending(q, d)'
    <3>1. CASE d = g /\ kind = "move"
      BY <3>1 DEF Ending, EndInv, Typed
    <3>2. CASE Over(d) /\ mem[d].known /\ (d # g \/ kind # "move")
      <4>1. ASSUME NEW q \in Handlers, Ending(q, d) PROVE Ending(q, d)'
        BY <1>1, <4>1 DEF Ending, Inside
      <4> QED
        BY <2>1, <3>2, <4>1 DEF KeptInv, Recorded
    <3>3. ~(d = g /\ kind = "move") => Over(d) /\ mem[d].known
      BY <2>1 DEF Over, EndInv, Typed
    <3> QED
      BY <3>1, <3>2, <3>3
  <2> QED
    BY <2>1 DEF KeptInv, Recorded
<1> QED
  BY <1>3, <1>4, <1>5 DEF KeptInv

LEMMA KeptEnter ==
  ASSUME EndInv, EndInv', KeptInv, NEW h \in Handlers, Enter(h)
  PROVE  KeptInv'
<1> DEFINE g == req[h].on
<1>1. g \in Games /\ req[h].at = "enter" /\ lock[g] = NoOne /\ mem[g] # Gone /\ mem[g] \in Play
  BY DEF Enter, EndInv, Typed, Playable, Requests, Free
<1>2. CASE Look(h, g)
  <2>1. UNCHANGED <<mem, lock, durable, dropped, tries, luck, history>> /\ Done(h)
    BY <1>2 DEF Look
  <2>2. \A q \in Handlers : Inside(q) \/ Inside(q)' => req'[q] = req[q]
    BY <1>1, <2>1 DEF Inside, Done, Free, EndInv, Typed
  <2> QED
    BY <2>1, <2>2, KeptQuietly DEF KeptInv
<1>3. ASSUME NEW kind \in Ops, Change(h, g, kind) PROVE KeptInv'
  <2>1. /\ lock' = [lock EXCEPT ![g] = h] /\ kind \in Ops
        /\ req' = [req EXCEPT ![h] = [at |-> "save", on |-> g, op |-> kind]]
        /\ UNCHANGED <<durable, dropped, tries, luck, history>>
    BY <1>3 DEF Change
  <2>2. ASSUME NEW p \in Play, mem' = [mem EXCEPT ![g] = p], p.ver >= mem[g].ver,
               p.guest = mem[g].guest \/ mem[g].guest = NoOne,
               kind = "join" => p.guest = h,
               p.winner # Gone => \/ kind = "move" /\ ~Over(g)
                                  \/ Over(g) /\ p.known = mem[g].known
        PROVE  KeptInv'
    BY <1>1, <2>1, <2>2, KeptEntered
  <2>3. /\ mem[g].ver \in Nat /\ mem[g].ver >= mem[g].ver /\ mem[g] \in Play
        /\ mem[g].winner # Gone => Over(g)
    BY <1>1, DurabilityAssumption DEF Play, Over
  <2>4. CASE kind = "create"
    <3>1. mem' = [mem EXCEPT ![g] = mem[g]]
      BY <1>3, <2>4 DEF Change, EndInv, Typed
    <3> QED
      BY <2>2, <2>3, <2>4, <3>1
  <2>5. CASE kind = "move"
    <3>1. PICK w \in {0, 1} : mem' = [mem EXCEPT ![g] = Moved(g, w)]
      BY <1>3, <2>5 DEF Change
    <3>2. MayMove(g) /\ ~Over(g)
      BY <1>3, <2>5 DEF Change, MayMove
    <3>3. Moved(g, w) \in Play
      BY <1>1, <3>2, MovedPlays DEF Over, EndInv, Playable, Proper
    <3>4. Moved(g, w).ver = mem[g].ver + 1 /\ Moved(g, w).guest = mem[g].guest
      BY <1>1 DEF Moved, Play
    <3>5. Moved(g, w).ver >= mem[g].ver
      BY <2>3, <3>4
    <3> QED
      BY <2>2, <2>5, <3>1, <3>2, <3>3, <3>4, <3>5
  <2>6. CASE kind = "join"
    <3>1. mem[g].guest = NoOne
      BY <1>3, <2>6 DEF Change, SeatOpen
    <3>2. PICK k \in {mem[g].known, TRUE} : mem' = [mem EXCEPT ![g] = Joined(g, h, k)]
      BY <1>3, <2>6 DEF Change
    <3>3. /\ Joined(g, h, k) \in Play /\ Joined(g, h, k).ver = mem[g].ver
          /\ Joined(g, h, k).guest = h /\ Joined(g, h, k).winner = mem[g].winner
      BY <1>1 DEF Joined, Play
    <3>4. mem[g].winner = Gone
      BY <1>1, <3>1 DEF EndInv, Playable, Proper
    <3> QED
      BY <2>2, <2>3, <2>6, <3>1, <3>2, <3>3, <3>4
  <2>7. CASE kind = "abandon"
    <3> DEFINE p == [mem[g] EXCEPT !.left = TRUE]
    <3>1. mem' = [mem EXCEPT ![g] = p]
      BY <1>3, <2>7 DEF Change, EndInv, Typed
    <3>2. /\ p \in Play /\ p.ver = mem[g].ver /\ p.guest = mem[g].guest
          /\ p.winner = mem[g].winner /\ p.known = mem[g].known
      BY <1>1 DEF Play
    <3> QED
      BY <2>2, <2>3, <2>7, <3>1, <3>2
  <2> QED
    BY <1>3, <2>4, <2>5, <2>6, <2>7 DEF Change
<1> QED
  BY <1>1, <1>2, <1>3 DEF Enter

LEMMA KeptCreate ==
  ASSUME EndInv, EndInv', KeptInv, NEW h \in Handlers, NEW g \in Games, Create(h, g)
  PROVE  KeptInv'
<1>0. PICK k \in BOOLEAN : mem' = [mem EXCEPT ![g] = Fresh(k)]
  BY DEF Create
<1>1. /\ mem[g] = Gone /\ mem' = [mem EXCEPT ![g] = Fresh(k)] /\ Take(h, g, "create")
      /\ req[h].at = "free"
      /\ UNCHANGED <<lock, durable, dropped, tries, luck, history>>
  BY <1>0 DEF Create
<1>2. Fresh(k) # Gone /\ Fresh(k).ver = 0 /\ Fresh(k).winner = Gone
  BY FreshPlays
<1>3. \A q \in Handlers : Inside(q) \/ Inside(q)' => req'[q] = req[q] /\ req[q].on # g
  BY <1>1 DEF Inside, Take, EndInv, Typed, Playable
<1>4. MoreTyped' /\ Locked'
  BY <1>1, <1>3 DEF KeptInv, MoreTyped, Locked, Inside
<1>5. ASSUME failedSaves' = 0 PROVE AnswersKept'
  <2>1. AnswersKept
    BY <1>1, <1>5 DEF KeptInv
  <2>2. GameKept(g)'
    BY <1>1, <1>2, <2>1 DEF AnswersKept, GameKept, NotBehind, EndInv, Typed
  <2>3. \A d \in Games : d # g => GameKept(d)'
    BY <1>1, <2>1 DEF AnswersKept, GameKept, NotBehind, EndInv, Typed
  <2>4. \A q \in Handlers : InsideKept(q)'
    BY <1>1, <1>3, <2>1 DEF AnswersKept, InsideKept, Inside, EndInv, Typed, Requests, Free
  <2>5. \A d \in Games : EndOnRecord(d)'
    BY <1>1, <1>2, <2>1 DEF AnswersKept, EndOnRecord, Over, EndInv, Typed
  <2> QED
    BY <2>2, <2>3, <2>4, <2>5 DEF AnswersKept
<1>6. Recorded'
  <2>1. \A d \in Games : Over(d)' => Over(d) /\ mem'[d] = mem[d]
    BY <1>1, <1>2 DEF Over, EndInv, Typed
  <2>2. \A q \in Handlers, d \in Games : Ending(q, d) => Ending(q, d)'
    BY <1>1, <1>3 DEF Ending, Inside
  <2> QED
    BY <1>1, <2>1, <2>2 DEF KeptInv, Recorded
<1> QED
  BY <1>1, <1>4, <1>5, <1>6 DEF KeptInv

LEMMA KeptDelete ==
  ASSUME EndInv, KeptInv, NEW g \in Games, DeleteRow(g)
  PROVE  KeptInv'
<1>1. /\ g \in evicted /\ row' = [row EXCEPT ![g] = Gone] /\ dropped' = dropped \ {g}
      /\ UNCHANGED <<games, result, handlers, luck, history>>
  BY DEF DeleteRow, KeptInv
<1>2. MoreTyped' /\ Locked' /\ Recorded'
  BY <1>1 DEF KeptInv, MoreTyped, Locked, Inside, Recorded, Over, Ending
<1>3. ASSUME failedSaves' = 0 PROVE AnswersKept'
  <2>1. AnswersKept
    BY <1>1, <1>3 DEF KeptInv
  <2>2. \A d \in Games : GameKept(d)'
    BY <1>1, <2>1 DEF AnswersKept, GameKept, NotBehind, EndInv, Typed
  <2>3. \A q \in Handlers : InsideKept(q)'
    BY <1>1, <2>1 DEF AnswersKept, InsideKept, Inside, EndInv, Typed, Requests, Free
  <2>4. \A d \in Games : EndOnRecord(d)'
    BY <1>1, <2>1 DEF AnswersKept, EndOnRecord, Over
  <2> QED
    BY <2>2, <2>3, <2>4 DEF AnswersKept
<1> QED
  BY <1>1, <1>2, <1>3 DEF KeptInv

LEMMA KeptRestart ==
  ASSUME EndInv, EndInv', KeptInv, Restart
  PROVE  KeptInv'
<1>1. /\ mem' = [g \in Games |-> IF row[g] = Gone THEN mem[g] ELSE row[g]]
      /\ req' = [h \in Handlers |-> Free] /\ tries' = [h \in Handlers |-> 0]
      /\ lock' = [g \in Games |-> NoOne] /\ crashes' = crashes + 1 /\ dropped' = {}
      /\ UNCHANGED <<durable, failedSaves, failedResults, history>>
  BY DEF Restart, Revived
<1>2. MoreTyped' /\ Locked'
  BY <1>1 DEF KeptInv, MoreTyped, Locked, Inside, Free
<1>3. ASSUME failedSaves' = 0 PROVE AnswersKept'
  <2>1. AnswersKept
    BY <1>1, <1>3 DEF KeptInv
  <2>2. \A g \in Games : GameKept(g)'
    BY <1>1, <2>1 DEF AnswersKept, GameKept, NotBehind
  <2>3. \A h \in Handlers : InsideKept(h)'
    BY <1>1 DEF InsideKept, Inside, Free
  <2>4. ASSUME NEW g \in Games, Over(g)' PROVE Over(g) /\ mem'[g].known = mem[g].known
    BY <1>1, <2>4 DEF Over, EndInv, Playable
  <2>5. \A g \in Games : EndOnRecord(g)'
    BY <1>1, <2>1, <2>4 DEF AnswersKept, EndOnRecord
  <2> QED
    BY <2>2, <2>3, <2>5 DEF AnswersKept
<1>4. Recorded'
  BY <1>1 DEF KeptInv, MoreTyped, Recorded
<1> QED
  BY <1>1, <1>2, <1>3, <1>4 DEF KeptInv

LEMMA KeptStep == ASSUME EndInv, EndInv', KeptInv, [Next]_vars PROVE KeptInv'
<1>1. CASE UNCHANGED vars
  BY <1>1, KeptQuietly DEF vars, KeptInv
<1>2. ASSUME NEW h \in Handlers, NEW g \in Games, Find(h, g) PROVE KeptInv'
  <2>1. \A q \in Handlers : Inside(q) \/ Inside(q)' => req'[q] = req[q]
    BY <1>2 DEF Find, Take, Inside, EndInv, Typed
  <2> QED
    BY <1>2, <2>1, KeptQuietly DEF Find, KeptInv
<1>3. ASSUME NEW g \in Games, GrowIdle(g) \/ Unsubscribe(g) \/ Evict(g) PROVE KeptInv'
  BY <1>3, KeptQuietly DEF GrowIdle, Unsubscribe, Evict, KeptInv
<1> QED
  BY <1>1, <1>2, <1>3, KeptEnter, KeptSave, KeptRecord, KeptCreate, KeptDelete,
     KeptRestart DEF Next, HandlerStep

LEMMA KeptAlways == Spec => []KeptInv
<1>1. Init => EndInv /\ KeptInv
  BY EndInit, KeptInit
<1>2. EndInv /\ KeptInv /\ [Next]_vars => EndInv' /\ KeptInv'
  BY EndStep, KeptStep
<1> QED
  BY <1>1, <1>2, PTL DEF Spec

LEMMA EndAlways == Spec => []EndInv
<1>1. EndInv /\ [Next]_vars => EndInv'
  BY EndStep
<1> QED
  BY <1>1, EndInit, PTL DEF Spec

\* Whatever the server answered it still has, in every game it serves: until
\* a save fails, no crash, eviction or refused join takes an answered move or
\* a given seat back.
THEOREM AnswersAreKept == Spec => []AnsweredIsKept
<1>1. EndInv /\ KeptInv => AnsweredIsKept
  BY DEF EndInv, Playable, KeptInv, AnswersKept, GameKept, NotBehind, AnsweredIsKept
<1> QED
  BY <1>1, EndAlways, KeptAlways, PTL

\* A game with an answered move is in the store, as long as it was answered
\* to be, unless the reaper once took it.
THEOREM RowsOutliveCrashes == Spec => []OnlyTheReaperForgets
<1>1. KeptInv => OnlyTheReaperForgets
  <2> SUFFICES ASSUME KeptInv, failedSaves = 0, NEW g \in Games \ evicted, acked[g] > 0
               PROVE  row[g] # Gone /\ row[g].ver >= acked[g]
    BY DEF OnlyTheReaperForgets
  <2> QED
    BY DEF KeptInv, MoreTyped, AnswersKept, GameKept, NotBehind
<1> QED
  BY <1>1, KeptAlways, PTL

\* A finished game that an account played in, at rest, is on record: unless
\* the record failed as often as it is tried, or the process died before the
\* last move was answered.  A game between guests is not.
THEOREM OverIsOnRecord == Spec => []FinishedIsRecorded
<1>1. EndInv /\ KeptInv => FinishedIsRecorded
  <2> SUFFICES ASSUME EndInv, KeptInv, NEW g \in registry
               PROVE  /\ Over(g) /\ mem[g].known /\ ~Busy(g) =>
                           \/ result[g] # Gone \/ failedResults >= Attempts
                           \/ crashes > 0 /\ (acked[g] < Final \/ failedSaves > 0)
                      /\ result[g] # Gone /\ failedSaves = 0 => mem[g].known
    BY DEF FinishedIsRecorded
  <2>1. g \in Games
    BY DEF EndInv, Playable
  <2>2. result[g] # Gone /\ failedSaves = 0 => mem[g].known
    BY <2>1 DEF EndInv, OneEnding
  <2>3. ASSUME Over(g), mem[g].known, ~Busy(g), crashes = 0
        PROVE  result[g] # Gone \/ failedResults >= Attempts
    <3>1. lock[g] = NoOne
      BY <2>3 DEF Busy
    <3>2. \A h \in Handlers : ~Ending(h, g)
      BY <3>1, NamesAssumption DEF KeptInv, Locked, Inside, Ending
    <3> QED
      BY <2>1, <2>3, <3>2 DEF KeptInv, Recorded
  <2>4. ASSUME Over(g), mem[g].known, acked[g] >= Final, failedSaves = 0
        PROVE  result[g] # Gone \/ failedResults >= Attempts
    BY <2>1, <2>4 DEF KeptInv, AnswersKept, EndOnRecord
  <2>5. crashes \in Nat /\ acked[g] \in Nat /\ failedSaves \in Nat /\ Final \in Nat
    BY <2>1, DurabilityAssumption DEF KeptInv, MoreTyped, EndInv, Typed
  <2>6. /\ crashes = 0 \/ crashes > 0
        /\ acked[g] >= Final \/ acked[g] < Final
        /\ failedSaves = 0 \/ failedSaves > 0
    BY <2>5
  <2> QED
    BY <2>2, <2>3, <2>4, <2>6
<1> QED
  BY <1>1, EndAlways, KeptAlways, PTL

-----------------------------------------------------------------------------
(***************************************************************************)
(* The registry never holds more than the cap, and every variable stays in *)
(* its bounds.  A count needs a finite set: only so many games were ever   *)
(* created, and only those are in memory, registered or in the store.      *)
(***************************************************************************)

Created == {g \in Games : mem[g] # Gone}

Bounded ==
  /\ idle \subseteq Games /\ streamed \subseteq Games
  /\ dropped \subseteq Games /\ evicted \subseteq Games
  /\ tries \in [Handlers -> 0..(Attempts - 1)]
  /\ acked \in [Games -> 0..Final]
  /\ crashes \in 0..MaxCrashes
  /\ failedSaves \in 0..MaxFailedSaves /\ failedResults \in 0..MaxFailedResults

CapInv == /\ Bounded
          /\ \A g \in Games : row[g] # Gone => mem[g] # Gone
          /\ IsFiniteSet(Created) /\ Cardinality(registry) <= Cap

LEMMA CapInit == Init => CapInv
<1> SUFFICES ASSUME Init PROVE CapInv
  OBVIOUS
<1>1. Created = {} /\ registry = {}
  BY DEF Init, Created
<1>2. IsFiniteSet(Created) /\ Cardinality(registry) <= Cap
  BY <1>1, FS_EmptySet, DurabilityAssumption
<1>3. Bounded
  BY DurabilityAssumption DEF Init, Bounded
<1> QED
  BY <1>2, <1>3 DEF CapInv, Init

LEMMA FewerStillFit ==
  ASSUME EndInv, CapInv, registry' \subseteq registry
  PROVE  Cardinality(registry') <= Cap
<1>1. registry \subseteq Created
  BY DEF EndInv, Playable, Created
<1>2. IsFiniteSet(registry)
  BY <1>1, FS_Subset DEF CapInv
<1>3. /\ Cardinality(registry') \in Nat /\ Cardinality(registry) \in Nat
      /\ Cardinality(registry') <= Cardinality(registry)
  BY <1>2, FS_Subset, FS_CardinalityType
<1> QED
  BY <1>3, DurabilityAssumption DEF CapInv

\* A handler's steps once it has a request create no game.
LEMMA CapHandlers ==
  ASSUME EndInv, EndInv', KeptInv, CapInv, NEW h \in Handlers, HandlerStep(h)
  PROVE  CapInv'
<1> DEFINE g == req[h].on
<1>1. g \in Games /\ mem[g] # Gone
  BY DEF HandlerStep, Enter, Save, SaveFails, RecordResult, RecordFails,
         EndInv, Typed, Playable, Requests, Free
<1>2. UNCHANGED <<registry, dropped, evicted, crashes>>
  BY DEF HandlerStep, Enter, Look, Change, Save, SaveFails, RecordResult, RecordFails
<1>3. \A d \in Games : mem'[d] # Gone <=> mem[d] # Gone
  <2>1. CASE Enter(h)
    <3>1. mem' = mem \/ \E p : mem' = [mem EXCEPT ![g] = p]
      BY <2>1 DEF Enter, Look, Change
    <3>2. CASE mem' = mem
      BY <3>2
    <3>3. CASE \E kind \in Ops : Change(h, g, kind)
      <4>1. req'[h].at = "save" /\ req'[h].on = g
        BY <3>3 DEF Change, EndInv, Typed
      <4>2. mem'[g] # Gone
        BY <4>1 DEF EndInv, Playable
      <4> QED
        BY <1>1, <3>1, <4>2 DEF EndInv, Typed
    <3> QED
      BY <2>1, <3>2, <3>3 DEF Enter, Look
  <2> QED
    BY <2>1 DEF HandlerStep, Save, SaveFails, RecordResult, RecordFails
<1>4. Created' = Created
  BY <1>3 DEF Created
<1>5. \A d \in Games : row'[d] # Gone => mem'[d] # Gone
  BY <1>1, <1>3
     DEF HandlerStep, Enter, Look, Change, Save, SaveFails, RecordResult, RecordFails, RowOf,
         CapInv, EndInv, Typed
<1>6. tries' \in [Handlers -> 0..(Attempts - 1)]
  <2>1. \/ UNCHANGED tries
        \/ tries' = [tries EXCEPT ![h] = 0]
        \/ tries' = [tries EXCEPT ![h] = @ + 1] /\ tries[h] + 1 # Attempts
    BY DEF HandlerStep, Enter, Look, Change, Save, SaveFails, RecordResult, RecordFails,
           AfterSave, Answer, LastTry
  <2> QED
    BY <2>1, DurabilityAssumption DEF CapInv, Bounded
<1>7. acked' \in [Games -> 0..Final]
  <2>1. mem[g].ver \in 0..Final
    BY <1>1 DEF EndInv, Typed, Play
  <2>2. UNCHANGED acked \/ acked' = [acked EXCEPT ![g] = IF req[h].op = "move" THEN mem[g].ver ELSE @]
    BY DEF HandlerStep, Enter, Look, Change, Save, SaveFails, RecordResult, RecordFails,
           AfterSave, Answer
  <2> QED
    BY <2>1, <2>2 DEF CapInv, Bounded
<1>8. idle' \subseteq Games /\ streamed' \subseteq Games
  <2>1. idle' \subseteq idle
    BY DEF HandlerStep, Enter, Look, Change, Touch, Save, SaveFails, RecordResult, RecordFails
  <2>2. streamed' \subseteq streamed \cup {g}
    BY DEF HandlerStep, Enter, Look, Change, Save, SaveFails, RecordResult, RecordFails
  <2> QED
    BY <1>1, <2>1, <2>2 DEF CapInv, Bounded
<1>9. failedSaves' \in 0..MaxFailedSaves /\ failedResults' \in 0..MaxFailedResults
  <2>1. \/ UNCHANGED <<failedSaves, failedResults>>
        \/ /\ failedSaves < MaxFailedSaves /\ failedSaves' = failedSaves + 1
           /\ UNCHANGED failedResults
        \/ /\ failedResults < MaxFailedResults /\ failedResults' = failedResults + 1
           /\ UNCHANGED failedSaves
    BY DEF HandlerStep, Enter, Look, Change, Save, SaveFails, RecordResult, RecordFails
  <2> QED
    BY <2>1, DurabilityAssumption DEF CapInv, Bounded
<1>10. Bounded'
  BY <1>2, <1>6, <1>7, <1>8, <1>9 DEF CapInv, Bounded
<1> QED
  BY <1>2, <1>4, <1>5, <1>10 DEF CapInv

LEMMA CapCreate ==
  ASSUME EndInv, CapInv, NEW h \in Handlers, NEW g \in Games, Create(h, g)
  PROVE  CapInv'
<1>0. PICK k \in BOOLEAN : mem' = [mem EXCEPT ![g] = Fresh(k)]
  BY DEF Create
<1>1. /\ mem[g] = Gone /\ mem' = [mem EXCEPT ![g] = Fresh(k)]
      /\ Cardinality(registry) < Cap /\ registry' = registry \cup {g}
      /\ UNCHANGED <<idle, streamed, durable, dropped, tries, luck, history>>
  BY <1>0 DEF Create
<1>2. Fresh(k) # Gone /\ mem'[g] # Gone
  BY <1>1, FreshPlays DEF EndInv, Typed
<1>3. Created' = Created \cup {g}
  BY <1>1, <1>2 DEF Created, EndInv, Typed
<1>4. IsFiniteSet(Created')
  BY <1>3, FS_AddElement DEF CapInv
<1>5. registry \subseteq Created /\ IsFiniteSet(registry)
  BY FS_Subset DEF EndInv, Playable, Created, CapInv
<1>6. Cardinality(registry) \in Nat
  BY <1>5, FS_CardinalityType
<1>7. Cardinality(registry \cup {g}) \in {Cardinality(registry), Cardinality(registry) + 1}
  BY <1>5, FS_AddElement
<1>8. Cardinality(registry') <= Cap
  BY <1>1, <1>6, <1>7, DurabilityAssumption
<1>9. \A d \in Games : row'[d] # Gone => mem'[d] # Gone
  BY <1>1, <1>2 DEF CapInv, EndInv, Typed
<1> QED
  BY <1>1, <1>4, <1>8, <1>9 DEF CapInv, Bounded

LEMMA CapRestart == ASSUME EndInv, CapInv, Restart PROVE CapInv'
<1>1. /\ mem' = [g \in Games |-> IF row[g] = Gone THEN mem[g] ELSE row[g]]
      /\ tries' = [h \in Handlers |-> 0] /\ crashes < MaxCrashes /\ crashes' = crashes + 1
      /\ streamed' = {} /\ dropped' = {} /\ idle' \in {idle \cap registry', registry'}
      /\ UNCHANGED <<durable, failedSaves, failedResults, history>>
  BY DEF Restart, Revived
<1>2. registry' \subseteq Games /\ Cardinality(registry') <= Cap
  BY DEF Restart, Loads
<1>3. \A g \in Games : mem'[g] # Gone <=> mem[g] # Gone
  BY <1>1 DEF CapInv
<1>4. Created' = Created
  BY <1>3 DEF Created
<1>5. Bounded'
  BY <1>1, <1>2, DurabilityAssumption DEF CapInv, Bounded
<1> QED
  BY <1>1, <1>2, <1>3, <1>4, <1>5 DEF CapInv

LEMMA CapStep == ASSUME EndInv, EndInv', KeptInv, CapInv, [Next]_vars PROVE CapInv'
<1>1. ASSUME UNCHANGED <<mem, row, tries, luck, acked>>, registry' \subseteq registry,
             {idle', streamed', dropped', evicted'} \subseteq SUBSET Games
      PROVE  CapInv'
  BY <1>1, FewerStillFit DEF CapInv, Bounded, Created
<1>2. CASE UNCHANGED vars
  BY <1>1, <1>2 DEF vars, CapInv, Bounded
<1>3. ASSUME NEW h \in Handlers, NEW g \in Games, Find(h, g) PROVE CapInv'
  BY <1>1, <1>3 DEF Find, CapInv, Bounded
<1>4. ASSUME NEW g \in Games, GrowIdle(g) \/ Unsubscribe(g) \/ Evict(g) PROVE CapInv'
  BY <1>1, <1>4 DEF GrowIdle, Unsubscribe, Evict, CapInv, Bounded
<1>5. ASSUME NEW g \in Games, DeleteRow(g) PROVE CapInv'
  BY <1>5 DEF DeleteRow, CapInv, Bounded, Created, EndInv, Typed
<1> QED
  BY <1>2, <1>3, <1>4, <1>5, CapHandlers, CapCreate, CapRestart DEF Next

\* The type invariant, the registry's size in it: no interleaving of creations
\* and no restart serves more games than the cap.
THEOREM RegistryFits == Spec => []TypeOK
<1>1. EndInv /\ KeptInv /\ CapInv => TypeOK
  <2> SUFFICES ASSUME EndInv, KeptInv, CapInv PROVE TypeOK
    OBVIOUS
  <2>1. \A h \in Handlers : tries[h] \in 0..Attempts
    BY DurabilityAssumption DEF CapInv, Bounded
  <2>2. tries \in [Handlers -> 0..Attempts]
    BY <2>1 DEF CapInv, Bounded
  <2>3. req \in [Handlers -> {Free} \cup
                  [at : {"enter", "save", "record"}, on : Games, op : Ops]]
    BY DEF EndInv, Typed, Requests
  <2>4. registry \subseteq Games /\ Cardinality(registry) <= Cap
    BY DEF EndInv, Playable, CapInv
  <2> QED
    BY <2>2, <2>3, <2>4 DEF EndInv, Typed, KeptInv, MoreTyped, CapInv, Bounded, TypeOK
<1>2. Init => EndInv /\ KeptInv /\ CapInv
  BY EndInit, KeptInit, CapInit
<1>3. EndInv /\ KeptInv /\ CapInv /\ [Next]_vars => EndInv' /\ KeptInv' /\ CapInv'
  BY EndStep, KeptStep, CapStep
<1> QED
  BY <1>1, <1>2, <1>3, PTL DEF Spec
=============================================================================

--------------------------- MODULE SessionStreams ---------------------------
(***************************************************************************)
(* internal/server: one live session, its handlers and its event streams.  *)
(*                                                                         *)
(* Handlers run one at a time under the session's mutex; a stream is a     *)
(* goroutine that sleeps on a channel with room for one wake-up, takes the *)
(* mutex to copy what is new, and writes it to its client.  Clients lose   *)
(* their connections and come back with the number of the last event they  *)
(* got; the process dies at any moment and restarts from the store.        *)
(*                                                                         *)
(* The rules engine is abstract here: a command it accepts emits a few     *)
(* events, the bots' replies included, until the game ends, when none is   *)
(* accepted any more.  An event is its sequence number with the number of  *)
(* restarts before it: two events with one sequence number in two lives of *)
(* the process are not the same.                                           *)
(***************************************************************************)
EXTENDS Integers, Sequences, FiniteSets

CONSTANTS Tabs,     \* browser tabs that follow the game
          SeatOf,   \* the seat whose token a tab holds
          Conns,    \* stream requests that can be open on the server at once
          NoConn,   \* no connection
          BotSeats, \* the seats a bot plays
          Batches,  \* how many events an accepted command may emit
          MaxEvents, MaxRoster, MaxRestarts, MaxFailedSaves \* bounds

ASSUME TabsAssumption == Tabs # {} /\ SeatOf \in [Tabs -> {0, 1}]
ASSUME ConnsAssumption == NoConn \notin Conns
ASSUME BatchesAssumption == Batches \subseteq Nat \ {0}

VARIABLES log,       \* the engine's events
          joined,    \* seat 1 is claimed
          left,      \* the seats that have abandoned the game
          rosterVer, \* bumped on any change of the roster
          subCount,  \* live streams per seat
          saving,    \* a handler holds the mutex and has not saved yet
          saved,     \* the store's record of the session
          pc,        \* per connection: free, opening, draining or waiting
          owner,     \* the tab that opened it
          wake,      \* whether its channel holds a wake-up
          cursor,    \* the last event it has sent
          lastRoster, shown, \* version and content of the last roster sent
          wire,      \* what it has written and its tab has not read
          live,      \* per tab: its current connection
          lastId,    \* the EventSource's last event id
          seen,      \* the events the tab has taken, in order
          roster,    \* the roster it shows
          restarts, failed \* counters for the bounds

session == <<log, joined, left, rosterVer, subCount>>
streams == <<pc, owner, wake, cursor, lastRoster, shown, wire>>
tabs == <<live, lastId, seen, roster>>
bounds == <<restarts, failed>>
vars == <<session, saving, saved, streams, tabs, bounds>>

Seats == {0, 1}
-----------------------------------------------------------------------------
(* Helpers.                                                                *)

Roster ==
  [connected |-> {s \in Seats : subCount[s] > 0 \/ s \in BotSeats},
   left      |-> left,
   seated    |-> joined]

NoRoster == [connected |-> {}, left |-> {}, seated |-> FALSE]

Registered(c) == pc[c] \in {"draining", "waiting"}

\* (Mutated form: only the first stream of the map is woken.)
WokenOne == IF \E c \in Conns : Registered(c)
              THEN {CHOOSE c \in Conns : Registered(c)}
              ELSE {}

\* notify: every registered channel that has room gets a wake-up.
Woken == {c \in Conns : Registered(c)}

Notify == wake' = [c \in Conns |-> wake[c] \/ c \in Woken]

\* (Mutated form: the streams do not take the mutex.)
AnyTime == TRUE

\* The mutex is free.
Unlocked == ~saving

\* The state a record of the session keeps.
Record == [log |-> log, joined |-> joined, left |-> left]

Event(n) == <<restarts, n>>

HoldsToken(t) == SeatOf[t] = 0 \/ joined

NoOwner == CHOOSE t \in Tabs : TRUE

\* What remains of the connections C when their goroutines are gone: nothing.
Gone(C) ==
  /\ pc' = [c \in Conns |-> IF c \in C THEN "free" ELSE pc[c]]
  /\ owner' = [c \in Conns |-> IF c \in C THEN NoOwner ELSE owner[c]]
  /\ cursor' = [c \in Conns |-> IF c \in C THEN 0 ELSE cursor[c]]
  /\ lastRoster' = [c \in Conns |-> IF c \in C THEN -1 ELSE lastRoster[c]]
  /\ shown' = [c \in Conns |-> IF c \in C THEN NoRoster ELSE shown[c]]
  /\ wire' = [c \in Conns |-> IF c \in C THEN <<>> ELSE wire[c]]

Init ==
  /\ \E n \in Batches : log = [i \in 1..n |-> <<0, i>>]
  /\ joined = FALSE
  /\ left = {}
  /\ rosterVer = 0
  /\ subCount = [s \in Seats |-> 0]
  /\ saving = FALSE
  /\ saved = Record
  /\ pc = [c \in Conns |-> "free"]
  /\ owner = [c \in Conns |-> NoOwner]
  /\ wake = [c \in Conns |-> FALSE]
  /\ cursor = [c \in Conns |-> 0]
  /\ lastRoster = [c \in Conns |-> -1]
  /\ shown = [c \in Conns |-> NoRoster]
  /\ wire = [c \in Conns |-> <<>>]
  /\ live = [t \in Tabs |-> NoConn]
  /\ lastId = [t \in Tabs |-> 0]
  /\ seen = [t \in Tabs |-> <<>>]
  /\ roster = [t \in Tabs |-> NoRoster]
  /\ restarts = 0
  /\ failed = 0

-----------------------------------------------------------------------------
(* Handlers.  Each one changes the session and wakes the streams, then     *)
(* saves; the mutex is held from the first to the last.                    *)

\* handleAction: a command of a seat that a person plays.
Action ==
  /\ Unlocked
  /\ \E n \in Batches :
       /\ Len(log) + n <= MaxEvents
       /\ log' = log \o [i \in 1..n |-> Event(Len(log) + i)]
  /\ Notify
  /\ saving' = TRUE
  /\ UNCHANGED <<joined, left, rosterVer, subCount, saved, tabs, bounds,
                 pc, owner, cursor, lastRoster, shown, wire>>

\* handleJoin: the open seat is claimed once.
Join ==
  /\ Unlocked
  /\ ~joined /\ 1 \notin BotSeats
  /\ joined' = TRUE
  /\ rosterVer' = rosterVer + 1
  /\ Notify
  /\ saving' = TRUE
  /\ UNCHANGED <<log, left, subCount, saved, tabs, bounds,
                 pc, owner, cursor, lastRoster, shown, wire>>

\* handleAbandon: the seat is marked, again if it already was.
Abandon(s) ==
  /\ Unlocked
  /\ s = 0 \/ joined
  /\ rosterVer < MaxRoster
  /\ left' = left \cup {s}
  /\ rosterVer' = rosterVer + 1
  /\ Notify
  /\ saving' = TRUE
  /\ UNCHANGED <<log, joined, subCount, saved, tabs, bounds,
                 pc, owner, cursor, lastRoster, shown, wire>>

\* persist: a failed save is logged and forgotten.
Persist ==
  /\ saving
  /\ saving' = FALSE
  /\ \/ saved' = Record /\ UNCHANGED failed
     \/ failed < MaxFailedSaves /\ failed' = failed + 1 /\ UNCHANGED saved
  /\ UNCHANGED <<session, streams, tabs, restarts>>

-----------------------------------------------------------------------------
(* A stream: handleStream.                                                 *)

\* (Mutated form: a channel starts with no owed roster.)
NoRosterOwed == rosterVer

\* The roster version a new connection starts from: any roster is new to it.
RosterOwed == -1

\* (Mutated form: a connection starts at the end of the log.)
ResumeAtEnd(t) == Len(log)

\* The resume point of a tab: the last event id it got.
Resume(t) == lastId[t]

\* A tab (re)connects.
Open(t, c) ==
  /\ live[t] = NoConn /\ pc[c] = "free" /\ HoldsToken(t)
  /\ rosterVer < MaxRoster
  /\ live' = [live EXCEPT ![t] = c]
  /\ pc' = [pc EXCEPT ![c] = "opening"]
  /\ owner' = [owner EXCEPT ![c] = t]
  /\ cursor' = [cursor EXCEPT ![c] = Resume(t)]
  /\ lastRoster' = [lastRoster EXCEPT ![c] = RosterOwed]
  /\ UNCHANGED <<session, saving, saved, wake, shown, wire, lastId, seen, roster,
                 restarts, failed>>

\* subscribe: the first stream of a seat brings the seat online.
Subscribe(c) ==
  LET s == SeatOf[owner[c]]
  IN  /\ pc[c] = "opening"
      /\ Unlocked
      /\ pc' = [pc EXCEPT ![c] = "draining"]
      /\ subCount' = [subCount EXCEPT ![s] = @ + 1]
      /\ IF subCount[s] = 0
           THEN /\ rosterVer' = rosterVer + 1
                /\ wake' = [d \in Conns |-> d = c \/ wake[d] \/ d \in Woken]
           ELSE /\ wake' = [wake EXCEPT ![c] = FALSE]
                /\ UNCHANGED rosterVer
      /\ UNCHANGED <<log, joined, left, saving, saved, tabs, bounds,
                     owner, cursor, lastRoster, shown, wire>>

\* A cursor ahead of the log is taken for its end.
Cursor(c) == IF cursor[c] > Len(log) THEN Len(log) ELSE cursor[c]

RosterItem == [seq |-> 0, roster |-> Roster]
EventItem(n) == [seq |-> n, event |-> log[n]]

\* send: what is new is copied under the mutex, then written in order.  What
\* a connection its tab has given up writes is lost.
Drain(c) ==
  LET new    == [i \in 1..(Len(log) - Cursor(c)) |-> EventItem(Cursor(c) + i)]
      owed   == lastRoster[c] # rosterVer
      items  == IF owed THEN <<RosterItem>> \o new ELSE new
  IN  /\ pc[c] = "draining"
      /\ Unlocked
      /\ cursor' = [cursor EXCEPT ![c] = IF Cursor(c) < Len(log) THEN Len(log) ELSE Cursor(c)]
      /\ lastRoster' = [lastRoster EXCEPT ![c] = rosterVer]
      /\ shown' = [shown EXCEPT ![c] = IF owed THEN Roster ELSE @]
      /\ wire' = [wire EXCEPT ![c] = IF live[owner[c]] = c THEN @ \o items ELSE <<>>]
      /\ pc' = [pc EXCEPT ![c] = "waiting"]
      /\ UNCHANGED <<session, saving, saved, tabs, bounds, owner, wake>>

WakeUp(c) ==
  /\ pc[c] = "waiting"
  /\ wake[c]
  /\ wake' = [wake EXCEPT ![c] = FALSE]
  /\ pc' = [pc EXCEPT ![c] = "draining"]
  /\ UNCHANGED <<session, saving, saved, tabs, bounds,
                 owner, cursor, lastRoster, shown, wire>>

\* (Mutated form: a stream that goes takes its seat offline.)
NoneRemains(s) == 0

\* The streams a seat has left when one goes.
Remaining(s) == subCount[s] - 1

\* The server notices that the client is gone (the request's context, a failed
\* write or heartbeat) and unsubscribes.
Leave(c) ==
  LET s == SeatOf[owner[c]]
  IN  /\ pc[c] = "waiting"
      /\ live[owner[c]] # c
      /\ Unlocked
      /\ Gone({c})
      /\ subCount' = [subCount EXCEPT ![s] = Remaining(s)]
      /\ IF Remaining(s) = 0
           THEN /\ rosterVer' = rosterVer + 1
                /\ wake' = [d \in Conns |-> d # c /\ (wake[d] \/ d \in Woken)]
           ELSE /\ wake' = [wake EXCEPT ![c] = FALSE]
                /\ UNCHANGED rosterVer
      /\ UNCHANGED <<log, joined, left, saving, saved, tabs, bounds>>

-----------------------------------------------------------------------------
(* A tab.                                                                  *)

\* Each game event is taken once, keyed by its number.
IsNew(t, seq) == seq > Len(seen[t])

\* The next delta arrives.
Receive(t) ==
  /\ live[t] # NoConn
  /\ wire[live[t]] # <<>>
  /\ LET c == live[t]
         d == Head(wire[c])
     IN  /\ wire' = [wire EXCEPT ![c] = Tail(@)]
         /\ IF d.seq = 0
              THEN roster' = [roster EXCEPT ![t] = d.roster] /\ UNCHANGED <<lastId, seen>>
              ELSE /\ lastId' = [lastId EXCEPT ![t] = d.seq]
                   /\ seen' = IF IsNew(t, d.seq)
                                THEN [seen EXCEPT ![t] = Append(@, d.event)]
                                ELSE seen
                   /\ UNCHANGED roster
  /\ UNCHANGED <<session, saving, saved, pc, owner, wake, cursor, lastRoster, shown,
                 live, bounds>>

\* The connection breaks; what was on its way is lost.
Drop(t) ==
  /\ live[t] # NoConn
  /\ live' = [live EXCEPT ![t] = NoConn]
  /\ wire' = [wire EXCEPT ![live[t]] = <<>>]
  /\ UNCHANGED <<session, saving, saved, pc, owner, wake, cursor, lastRoster, shown,
                 lastId, seen, roster, bounds>>

\* The page is reloaded: it paints the board from a snapshot and will stream
\* from the snapshot's version.
Reload(t) ==
  /\ live[t] = NoConn /\ HoldsToken(t)
  /\ Unlocked
  /\ seen[t] # log
  /\ seen' = [seen EXCEPT ![t] = log]
  /\ lastId' = [lastId EXCEPT ![t] = Len(log)]
  /\ UNCHANGED <<session, saving, saved, streams, live, roster, bounds>>

-----------------------------------------------------------------------------
\* The process dies, whatever it was doing, and starts again from the store.
Restart ==
  /\ restarts < MaxRestarts
  /\ restarts' = restarts + 1
  /\ log' = saved.log
  /\ joined' = saved.joined /\ left' = saved.left
  /\ rosterVer' = 0
  /\ subCount' = [s \in Seats |-> 0]
  /\ saving' = FALSE
  /\ Gone(Conns)
  /\ wake' = [c \in Conns |-> FALSE]
  /\ live' = [t \in Tabs |-> NoConn]
  /\ UNCHANGED <<saved, lastId, seen, roster, failed>>

Next ==
  \/ Action \/ Join \/ Persist \/ Restart
  \/ \E s \in Seats : Abandon(s)
  \/ \E t \in Tabs, c \in Conns : Open(t, c)
  \/ \E c \in Conns : Subscribe(c) \/ Drain(c) \/ WakeUp(c) \/ Leave(c)
  \/ \E t \in Tabs : Receive(t) \/ Drop(t) \/ Reload(t)

Spec == Init /\ [][Next]_vars

(***************************************************************************)
(* The server's goroutines are scheduled, an open connection delivers, and *)
(* a goroutine that keeps finding the mutex taken gets it in the end (Go's *)
(* mutexes hand over to the longest waiter).  Nobody has to play, join,    *)
(* connect or stay connected.                                              *)
(***************************************************************************)
Fairness ==
  /\ WF_vars(Persist)
  /\ \A c \in Conns : SF_vars(Subscribe(c)) /\ SF_vars(Drain(c)) /\ WF_vars(WakeUp(c))
  /\ \A t \in Tabs : WF_vars(Receive(t))

FairSpec == Spec /\ Fairness
-----------------------------------------------------------------------------
(* Properties.                                                             *)

Rosters == [connected : SUBSET Seats, left : SUBSET Seats, seated : BOOLEAN]

Events == Nat \X Nat

Items == [seq : {0}, roster : Rosters] \cup [seq : Nat \ {0}, event : Events]

(***************************************************************************)
(* The types of the session's, the streams' and the tabs' state.           *)
(***************************************************************************)
TypeOK ==
  /\ log \in Seq(Events)
  /\ joined \in BOOLEAN
  /\ left \in SUBSET Seats
  /\ rosterVer \in Nat
  /\ subCount \in [Seats -> Int]
  /\ saving \in BOOLEAN
  /\ saved \in [log : Seq(Events), joined : BOOLEAN, left : SUBSET Seats]
  /\ pc \in [Conns -> {"free", "opening", "draining", "waiting"}]
  /\ owner \in [Conns -> Tabs]
  /\ wake \in [Conns -> BOOLEAN]
  /\ cursor \in [Conns -> Nat]
  /\ lastRoster \in [Conns -> Nat \cup {-1}]
  /\ shown \in [Conns -> Rosters]
  /\ wire \in [Conns -> Seq(Items)]
  /\ live \in [Tabs -> Conns \cup {NoConn}]
  /\ lastId \in [Tabs -> Nat]
  /\ seen \in [Tabs -> Seq(Events)]
  /\ roster \in [Tabs -> Rosters]
  /\ restarts \in Nat
  /\ failed \in Nat

(***************************************************************************)
(* No wake-up is lost: a stream that sleeps with an empty channel has sent *)
(* every event and the roster as it is now, although notify drops a        *)
(* wake-up when the channel is full and a stream looks at the session only *)
(* after it has emptied its channel.                                       *)
(***************************************************************************)
NothingOwedWhenAsleep ==
  \A c \in Conns :
    pc[c] = "waiting" /\ ~wake[c] => cursor[c] = Len(log) /\ shown[c] = Roster

(***************************************************************************)
(* Why: a stream's roster version says which roster it sent, never one     *)
(* that is still to come, and every stream that is registered and not      *)
(* awake has been through the session since its last change.               *)
(***************************************************************************)
VersionsArePast == \A c \in Conns : lastRoster[c] <= rosterVer

VersionTellsRoster ==
  \A c \in Conns : lastRoster[c] = rosterVer => shown[c] = Roster

AsleepIsCaughtUp ==
  \A c \in Conns :
    pc[c] = "waiting" /\ ~wake[c] => cursor[c] = Len(log) /\ lastRoster[c] = rosterVer

StreamInv ==
  /\ TypeOK
  /\ VersionsArePast
  /\ VersionTellsRoster
  /\ AsleepIsCaughtUp

(***************************************************************************)
(* A seat is shown as connected exactly while a stream of it is open on    *)
(* the server, however connections overlap when a tab comes back before    *)
(* its old connection has been noticed dead.                               *)
(***************************************************************************)
PresenceIsOpenStreams ==
  \A s \in Seats :
    subCount[s] = Cardinality({c \in Conns : Registered(c) /\ SeatOf[owner[c]] = s})

(***************************************************************************)
(* Unless a save has failed, a restart at any moment - also between a      *)
(* handler's change and its save - takes back nothing a tab has seen, and  *)
(* no tab misses, doubles or reorders an event over reconnections; without *)
(* a restart a failed save does no harm at all.                            *)
(***************************************************************************)
SeenIsLogged ==
  failed = 0 \/ restarts = 0 =>
    \A t \in Tabs : /\ Len(seen[t]) <= Len(log)
                    /\ seen[t] = SubSeq(log, 1, Len(seen[t]))

(***************************************************************************)
(* An event reaches every tab that stays connected.                        *)
(***************************************************************************)
EventsReachTabs ==
  \A t \in Tabs : \A n \in 1..MaxEvents :
    (live[t] # NoConn /\ Len(log) >= n)
      ~> (Len(seen[t]) >= n \/ live[t] = NoConn)

(***************************************************************************)
(* While saves succeed, the session implements the promise of Delivery for *)
(* the log that is in the store: it only grows, and every tab has applied  *)
(* a beginning of it, in order - never an event that a crash between a     *)
(* handler's change and its save could take back.                          *)
(***************************************************************************)
Abstract == INSTANCE Delivery WITH log <- saved.log
Delivers == Abstract!Spec
=============================================================================

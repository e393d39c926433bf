------------------------ MODULE SessionStreamsProofs ------------------------
(***************************************************************************)
(* Theorems about SessionStreams, for any number of tabs and connections,  *)
(* any events a command may emit and any bounds: what sleeping streams     *)
(* have sent, presence, and that the streams deliver the saved log.        *)
(***************************************************************************)
EXTENDS SessionStreams, FiniteSetTheorems, TLAPS

(***************************************************************************)
(* What roster() builds is a roster.                                       *)
(***************************************************************************)
LEMMA RosterType ==
  ASSUME left \in SUBSET Seats, joined \in BOOLEAN
  PROVE  Roster \in Rosters
BY DEF Roster, Rosters, Seats

LEMMA NoRosterType == NoRoster \in Rosters
BY DEF NoRoster, Rosters, Seats

LEMMA NoOwnerType == NoOwner \in Tabs
BY TabsAssumption DEF NoOwner

(***************************************************************************)
(* The record that persist saves has the type of a saved record.           *)
(***************************************************************************)
LEMMA RecordType ==
  ASSUME TypeOK
  PROVE  Record \in [log : Seq(Events), joined : BOOLEAN, left : SUBSET Seats]
BY DEF TypeOK, Record

LEMMA InitTypeOK == Init => TypeOK
<1>. SUFFICES ASSUME Init PROVE TypeOK
  OBVIOUS
<1>1. log \in Seq(Events)
  <2>1. PICK n \in Batches : log = [i \in 1..n |-> <<0, i>>]
    BY DEF Init
  <2>2. n \in Nat
    BY <2>1, BatchesAssumption
  <2>. QED BY <2>1, <2>2 DEF Events
<1>2. joined \in BOOLEAN /\ left \in SUBSET Seats /\ rosterVer \in Nat
  BY DEF Init
<1>3. subCount \in [Seats -> Int]
  BY DEF Init, Seats
<1>4. saved \in [log : Seq(Events), joined : BOOLEAN, left : SUBSET Seats]
  BY <1>1, <1>2 DEF Init, Record
<1>5. /\ pc \in [Conns -> {"free", "opening", "draining", "waiting"}]
      /\ wake \in [Conns -> BOOLEAN]
      /\ cursor \in [Conns -> Nat]
      /\ lastRoster \in [Conns -> Nat \cup {-1}]
  BY DEF Init
<1>6. /\ owner \in [Conns -> Tabs]
      /\ shown \in [Conns -> Rosters]
      /\ roster \in [Tabs -> Rosters]
  BY NoOwnerType, NoRosterType DEF Init
<1>7. wire \in [Conns -> Seq(Items)] /\ seen \in [Tabs -> Seq(Events)]
  <2>1. <<>> \in Seq(Items) /\ <<>> \in Seq(Events)
    OBVIOUS
  <2>. QED BY <2>1 DEF Init
<1>8. /\ live \in [Tabs -> Conns \cup {NoConn}]
      /\ lastId \in [Tabs -> Nat]
      /\ saving \in BOOLEAN
      /\ restarts \in Nat
      /\ failed \in Nat
  BY DEF Init
<1>. QED BY <1>1, <1>2, <1>3, <1>4, <1>5, <1>6, <1>7, <1>8 DEF TypeOK

(***************************************************************************)
(* What one drain copies can be written.                                   *)
(***************************************************************************)
LEMMA DrainedType ==
  ASSUME TypeOK, NEW c \in Conns
  PROVE  /\ Cursor(c) \in Nat /\ Cursor(c) <= Len(log)
         /\ [i \in 1..(Len(log) - Cursor(c)) |-> EventItem(Cursor(c) + i)] \in Seq(Items)
         /\ RosterItem \in Items
<1>1. log \in Seq(Events) /\ cursor[c] \in Nat
  BY DEF TypeOK
<1>2. Cursor(c) \in Nat /\ Cursor(c) <= Len(log)
  BY <1>1 DEF Cursor
<1>. DEFINE k == Cursor(c)
<1>. HIDE DEF k
<1>3. k \in Nat /\ k <= Len(log)
  BY <1>2 DEF k
<1>4. \A i \in 1..(Len(log) - k) : EventItem(k + i) \in Items
  <2>. TAKE i \in 1..(Len(log) - k)
  <2>1. k + i \in Nat \ {0} /\ k + i \in 1..Len(log)
    BY <1>1, <1>3
  <2>2. log[k + i] \in Events
    BY <1>1, <2>1
  <2>. QED BY <2>1, <2>2 DEF EventItem, Items
<1>5. Len(log) - k \in Nat
  BY <1>1, <1>3
<1>6. [i \in 1..(Len(log) - k) |-> EventItem(k + i)] \in Seq(Items)
  BY <1>4, <1>5
<1>7. RosterItem \in Items
  BY RosterType DEF RosterItem, Items, TypeOK
<1>. QED BY <1>2, <1>6, <1>7 DEF k

LEMMA GoneType ==
  ASSUME TypeOK, NEW C \in SUBSET Conns, Gone(C)
  PROVE  /\ pc' \in [Conns -> {"free", "opening", "draining", "waiting"}]
         /\ owner' \in [Conns -> Tabs]
         /\ cursor' \in [Conns -> Nat]
         /\ lastRoster' \in [Conns -> Nat \cup {-1}]
         /\ shown' \in [Conns -> Rosters]
         /\ wire' \in [Conns -> Seq(Items)]
<1>1. <<>> \in Seq(Items)
  OBVIOUS
<1>2. pc' \in [Conns -> {"free", "opening", "draining", "waiting"}]
  BY DEF Gone, TypeOK
<1>3. owner' \in [Conns -> Tabs]
  BY NoOwnerType DEF Gone, TypeOK
<1>4. cursor' \in [Conns -> Nat] /\ lastRoster' \in [Conns -> Nat \cup {-1}]
  BY DEF Gone, TypeOK
<1>5. shown' \in [Conns -> Rosters]
  BY NoRosterType DEF Gone, TypeOK
<1>6. wire' \in [Conns -> Seq(Items)]
  BY <1>1 DEF Gone, TypeOK
<1>. QED BY <1>2, <1>3, <1>4, <1>5, <1>6

LEMMA NextTypeOK ==
  ASSUME TypeOK, Next
  PROVE  TypeOK'
<1>1. CASE Action
  <2>1. PICK n \in Batches : log' = log \o [i \in 1..n |-> Event(Len(log) + i)]
    BY <1>1 DEF Action
  <2>2. n \in Nat /\ Len(log) \in Nat
    BY <2>1, BatchesAssumption DEF TypeOK
  <2>3. \A i \in 1..n : Event(Len(log) + i) \in Events
    BY <2>2 DEF Event, Events, TypeOK
  <2>4. [i \in 1..n |-> Event(Len(log) + i)] \in Seq(Events)
    BY <2>2, <2>3
  <2>5. log' \in Seq(Events)
    BY <2>1, <2>4 DEF TypeOK
  <2>6. wake' \in [Conns -> BOOLEAN]
    BY <1>1 DEF Action, Notify, TypeOK
  <2>. QED BY <1>1, <2>5, <2>6 DEF Action, TypeOK, tabs, bounds
<1>2. CASE Join
  <2>1. wake' \in [Conns -> BOOLEAN]
    BY <1>2 DEF Join, Notify, TypeOK
  <2>. QED BY <1>2, <2>1 DEF Join, TypeOK, tabs, bounds
<1>3. CASE Persist
  <2>1. saved' \in [log : Seq(Events), joined : BOOLEAN, left : SUBSET Seats]
    BY <1>3, RecordType DEF Persist, TypeOK
  <2>2. failed' \in Nat
    BY <1>3 DEF Persist, TypeOK
  <2>. QED BY <1>3, <2>1, <2>2 DEF Persist, TypeOK, session, streams, tabs
<1>4. CASE Restart
  <2>1. saved.log \in Seq(Events) /\ saved.joined \in BOOLEAN /\ saved.left \in SUBSET Seats
    BY DEF TypeOK
  <2>2. wake' \in [Conns -> BOOLEAN] /\ subCount' \in [Seats -> Int]
    BY <1>4 DEF Restart
  <2>3. live' \in [Tabs -> Conns \cup {NoConn}]
    BY <1>4 DEF Restart
  <2>4. Gone(Conns)
    BY <1>4 DEF Restart
  <2>5. /\ pc' \in [Conns -> {"free", "opening", "draining", "waiting"}]
          /\ owner' \in [Conns -> Tabs]
          /\ cursor' \in [Conns -> Nat]
          /\ lastRoster' \in [Conns -> Nat \cup {-1}]
          /\ shown' \in [Conns -> Rosters]
          /\ wire' \in [Conns -> Seq(Items)]
    BY <2>4, GoneType
  <2>6. /\ log' \in Seq(Events) /\ joined' \in BOOLEAN /\ left' \in SUBSET Seats
        /\ rosterVer' \in Nat /\ saving' \in BOOLEAN /\ restarts' \in Nat
    <3>1. log' = saved.log /\ joined' = saved.joined /\ left' = saved.left
      BY <1>4 DEF Restart
    <3>2. rosterVer' = 0 /\ saving' = FALSE /\ restarts' = restarts + 1
      BY <1>4 DEF Restart
    <3>3. restarts' \in Nat /\ rosterVer' \in Nat
      BY <3>2 DEF TypeOK
    <3>4. saving' \in BOOLEAN
      BY <3>2
    <3>. QED BY <2>1, <3>1, <3>3, <3>4
  <2>7. UNCHANGED <<saved, lastId, seen, roster, failed>>
    BY <1>4 DEF Restart
  <2>. QED BY <2>2, <2>3, <2>5, <2>6, <2>7 DEF TypeOK
<1>5. ASSUME NEW s \in Seats, Abandon(s)
      PROVE  TypeOK'
  <2>1. wake' \in [Conns -> BOOLEAN]
    BY <1>5 DEF Abandon, Notify, TypeOK
  <2>2. left' \in SUBSET Seats
    BY <1>5 DEF Abandon, TypeOK
  <2>. QED BY <1>5, <2>1, <2>2 DEF Abandon, TypeOK, tabs, bounds
<1>6. ASSUME NEW t \in Tabs, NEW c \in Conns, Open(t, c)
      PROVE  TypeOK'
  <2>1. cursor' \in [Conns -> Nat] /\ lastRoster' \in [Conns -> Nat \cup {-1}]
    BY <1>6 DEF Open, TypeOK, Resume, RosterOwed
  <2>2. live' \in [Tabs -> Conns \cup {NoConn}] /\ owner' \in [Conns -> Tabs]
    BY <1>6 DEF Open, TypeOK
  <2>3. pc' \in [Conns -> {"free", "opening", "draining", "waiting"}]
    BY <1>6 DEF Open, TypeOK
  <2>. QED BY <1>6, <2>1, <2>2, <2>3 DEF Open, TypeOK, session
<1>7. ASSUME NEW c \in Conns, Subscribe(c)
      PROVE  TypeOK'
  <2>. DEFINE s == SeatOf[owner[c]]
  <2>1. wake' \in [Conns -> BOOLEAN] /\ rosterVer' \in Nat
    <3>1. CASE subCount[s] = 0
      <4>1. /\ rosterVer' = rosterVer + 1
            /\ wake' = [d \in Conns |-> d = c \/ wake[d] \/ d \in Woken]
        BY <1>7, <3>1 DEF Subscribe
      <4>. QED BY <4>1 DEF TypeOK
    <3>2. CASE subCount[s] # 0
      <4>1. rosterVer' = rosterVer /\ wake' = [wake EXCEPT ![c] = FALSE]
        BY <1>7, <3>2 DEF Subscribe
      <4>. QED BY <4>1 DEF TypeOK
    <3>. QED BY <3>1, <3>2
  <2>2. subCount' \in [Seats -> Int]
    <3>1. s \in Seats
      BY TabsAssumption DEF TypeOK, Seats
    <3>2. subCount' = [subCount EXCEPT ![s] = @ + 1]
      BY <1>7 DEF Subscribe
    <3>. QED BY <3>1, <3>2 DEF TypeOK
  <2>3. pc' \in [Conns -> {"free", "opening", "draining", "waiting"}]
    BY <1>7 DEF Subscribe, TypeOK
  <2>. QED BY <1>7, <2>1, <2>2, <2>3 DEF Subscribe, TypeOK, tabs, bounds
<1>8. ASSUME NEW c \in Conns, Drain(c)
      PROVE  TypeOK'
  <2>. DEFINE new == [i \in 1..(Len(log) - Cursor(c)) |-> EventItem(Cursor(c) + i)]
              items == IF lastRoster[c] # rosterVer THEN <<RosterItem>> \o new ELSE new
  <2>1. new \in Seq(Items) /\ RosterItem \in Items /\ Cursor(c) \in Nat
    BY DrainedType
  <2>2. wire' = [wire EXCEPT ![c] = IF live[owner[c]] = c THEN @ \o items ELSE <<>>]
    BY <1>8 DEF Drain
  <2>. HIDE DEF new
  <2>3. items \in Seq(Items)
    BY <2>1
  <2>. HIDE DEF items
  <2>4. wire' \in [Conns -> Seq(Items)]
    <3>1. wire[c] \o items \in Seq(Items) /\ <<>> \in Seq(Items)
      BY <2>3 DEF TypeOK
    <3>. QED BY <2>2, <3>1 DEF TypeOK
  <2>5. Len(log) \in Nat
    BY DEF TypeOK
  <2>6. cursor' \in [Conns -> Nat] /\ lastRoster' \in [Conns -> Nat \cup {-1}]
    BY <1>8, <2>1, <2>5 DEF Drain, TypeOK
  <2>7. shown' \in [Conns -> Rosters]
    BY <1>8, RosterType DEF Drain, TypeOK
  <2>8. pc' \in [Conns -> {"free", "opening", "draining", "waiting"}]
    BY <1>8 DEF Drain, TypeOK
  <2>. QED BY <1>8, <2>4, <2>6, <2>7, <2>8 DEF Drain, TypeOK, session, tabs, bounds
<1>9. ASSUME NEW c \in Conns, WakeUp(c)
      PROVE  TypeOK'
  BY <1>9 DEF WakeUp, TypeOK, session, tabs, bounds
<1>10. ASSUME NEW c \in Conns, Leave(c)
       PROVE  TypeOK'
  <2>. DEFINE s == SeatOf[owner[c]]
  <2>1. wake' \in [Conns -> BOOLEAN] /\ rosterVer' \in Nat
    <3>1. CASE Remaining(s) = 0
      <4>1. /\ rosterVer' = rosterVer + 1
            /\ wake' = [d \in Conns |-> d # c /\ (wake[d] \/ d \in Woken)]
        BY <1>10, <3>1 DEF Leave
      <4>. QED BY <4>1 DEF TypeOK
    <3>2. CASE Remaining(s) # 0
      <4>1. rosterVer' = rosterVer /\ wake' = [wake EXCEPT ![c] = FALSE]
        BY <1>10, <3>2 DEF Leave
      <4>. QED BY <4>1 DEF TypeOK
    <3>. QED BY <3>1, <3>2
  <2>2. subCount' \in [Seats -> Int]
    <3>1. s \in Seats
      BY TabsAssumption DEF TypeOK, Seats
    <3>2. subCount' = [subCount EXCEPT ![s] = subCount[s] - 1]
      BY <1>10 DEF Leave, Remaining
    <3>. QED BY <3>1, <3>2 DEF TypeOK
  <2>3. Gone({c})
    BY <1>10 DEF Leave
  <2>4. /\ pc' \in [Conns -> {"free", "opening", "draining", "waiting"}]
          /\ owner' \in [Conns -> Tabs]
          /\ cursor' \in [Conns -> Nat]
          /\ lastRoster' \in [Conns -> Nat \cup {-1}]
          /\ shown' \in [Conns -> Rosters]
          /\ wire' \in [Conns -> Seq(Items)]
    BY <2>3, GoneType
  <2>5. UNCHANGED <<log, joined, left, saving, saved, tabs, bounds>>
    BY <1>10 DEF Leave
  <2>. QED BY <2>1, <2>2, <2>4, <2>5 DEF TypeOK, tabs, bounds
<1>11. ASSUME NEW t \in Tabs, Receive(t)
       PROVE  TypeOK'
  <2>. DEFINE c == live[t]
              d == Head(wire[c])
  <2>1. c \in Conns /\ wire[c] \in Seq(Items) /\ wire[c] # <<>>
    BY <1>11 DEF Receive, TypeOK
  <2>2. d \in Items /\ Tail(wire[c]) \in Seq(Items)
    BY <2>1
  <2>3. wire' = [wire EXCEPT ![c] = Tail(@)]
    BY <1>11 DEF Receive
  <2>. HIDE DEF c
  <2>4. wire' \in [Conns -> Seq(Items)]
    BY <2>1, <2>2, <2>3 DEF TypeOK
  <2>5. CASE d.seq = 0
    <3>1. roster' = [roster EXCEPT ![t] = d.roster] /\ UNCHANGED <<lastId, seen>>
      BY <1>11, <2>5 DEF Receive, c
    <3>2. d.roster \in Rosters
      BY <2>2, <2>5 DEF Items
    <3>3. roster' \in [Tabs -> Rosters]
      BY <3>1, <3>2 DEF TypeOK
    <3>. QED BY <1>11, <2>4, <3>1, <3>3 DEF Receive, TypeOK, session, bounds
  <2>6. CASE d.seq # 0
    <3>1. /\ lastId' = [lastId EXCEPT ![t] = d.seq]
          /\ seen' = IF IsNew(t, d.seq)
                       THEN [seen EXCEPT ![t] = Append(@, d.event)] ELSE seen
          /\ UNCHANGED roster
      BY <1>11, <2>6 DEF Receive, c
    <3>2. d.seq \in Nat /\ d.event \in Events
      BY <2>2, <2>6 DEF Items
    <3>3. Append(seen[t], d.event) \in Seq(Events)
      BY <3>2 DEF TypeOK
    <3>4. lastId' \in [Tabs -> Nat] /\ seen' \in [Tabs -> Seq(Events)]
      BY <3>1, <3>2, <3>3 DEF TypeOK
    <3>. QED BY <1>11, <2>4, <3>1, <3>4 DEF Receive, TypeOK, session, bounds
  <2>. QED BY <2>5, <2>6
<1>12. ASSUME NEW t \in Tabs, Drop(t)
       PROVE  TypeOK'
  <2>1. wire' \in [Conns -> Seq(Items)]
    <3>1. <<>> \in Seq(Items)
      OBVIOUS
    <3>. QED BY <1>12, <3>1 DEF Drop, TypeOK
  <2>2. live' \in [Tabs -> Conns \cup {NoConn}]
    BY <1>12 DEF Drop, TypeOK
  <2>. QED BY <1>12, <2>1, <2>2 DEF Drop, TypeOK, session, bounds
<1>13. ASSUME NEW t \in Tabs, Reload(t)
       PROVE  TypeOK'
  <2>1. seen' \in [Tabs -> Seq(Events)] /\ lastId' \in [Tabs -> Nat]
    BY <1>13 DEF Reload, TypeOK
  <2>. QED BY <1>13, <2>1 DEF Reload, TypeOK, session, streams, bounds
<1>. QED BY <1>1, <1>2, <1>3, <1>4, <1>5, <1>6, <1>7, <1>8, <1>9, <1>10, <1>11, <1>12, <1>13
         DEF Next

(***************************************************************************)
(* notify leaves no registered stream asleep, so none sleeps on what its   *)
(* caller changed.                                                         *)
(***************************************************************************)
LEMMA NotifyLeavesNoneAsleep ==
  ASSUME Notify, UNCHANGED pc
  PROVE  AsleepIsCaughtUp'
BY DEF Notify, Woken, Registered, AsleepIsCaughtUp

LEMMA VersionFacts ==
  ASSUME StreamInv
  PROVE  /\ rosterVer \in Nat
         /\ \A c \in Conns : lastRoster[c] \in Int /\ lastRoster[c] <= rosterVer
<1>1. rosterVer \in Nat
  BY DEF StreamInv, TypeOK
<1>2. ASSUME NEW c \in Conns
      PROVE  lastRoster[c] \in Int /\ lastRoster[c] <= rosterVer
  <2>1. lastRoster[c] \in Nat \cup {-1}
    BY DEF StreamInv, TypeOK
  <2>2. lastRoster[c] <= rosterVer
    BY DEF StreamInv, VersionsArePast
  <2>. QED BY <2>1, <2>2
<1>. QED BY <1>1, <1>2

(***************************************************************************)
(* A change of the roster's version makes every roster sent so far an old  *)
(* one.                                                                    *)
(***************************************************************************)
LEMMA NewVersionIsOwed ==
  ASSUME StreamInv, rosterVer' = rosterVer + 1, UNCHANGED lastRoster
  PROVE  VersionsArePast' /\ VersionTellsRoster'
<1>1. \A c \in Conns : lastRoster'[c] <= rosterVer' /\ lastRoster'[c] # rosterVer'
  BY VersionFacts
<1>. QED BY <1>1 DEF VersionsArePast, VersionTellsRoster

(***************************************************************************)
(* Steps that leave the roster, its version and the streams' view of both  *)
(* alone.                                                                  *)
(***************************************************************************)
LEMMA SameRoster ==
  ASSUME StreamInv, Roster' = Roster, UNCHANGED <<rosterVer, lastRoster, shown>>
  PROVE  VersionsArePast' /\ VersionTellsRoster'
BY DEF StreamInv, VersionsArePast, VersionTellsRoster

LEMMA SameStreams ==
  ASSUME StreamInv, UNCHANGED <<session, pc, wake, cursor, lastRoster, shown>>
  PROVE  VersionsArePast' /\ VersionTellsRoster' /\ AsleepIsCaughtUp'
<1>1. Roster' = Roster /\ rosterVer' = rosterVer /\ log' = log
  BY DEF session, Roster
<1>. QED BY <1>1 DEF StreamInv, VersionsArePast, VersionTellsRoster, AsleepIsCaughtUp

(***************************************************************************)
(* A second stream of a seat changes nothing that the roster shows; nor    *)
(* does the end of one that is not the last.                               *)
(***************************************************************************)
LEMMA SecondStreamSameRoster ==
  ASSUME subCount \in [Seats -> Int], NEW s \in Seats, UNCHANGED <<left, joined>>,
         \/ subCount[s] # 0 /\ subCount' = [subCount EXCEPT ![s] = @ + 1]
         \/ subCount[s] # 1 /\ subCount' = [subCount EXCEPT ![s] = @ - 1]
  PROVE  Roster' = Roster
<1>1. \A z \in Seats : subCount'[z] > 0 <=> subCount[z] > 0
  OBVIOUS
<1>. QED BY <1>1 DEF Roster

LEMMA GoneIsOwedAll ==
  ASSUME TypeOK, NEW C \in SUBSET Conns, Gone(C), NEW c \in Conns
  PROVE  /\ c \in C => pc'[c] = "free" /\ lastRoster'[c] = -1
         /\ c \notin C => /\ pc'[c] = pc[c] /\ cursor'[c] = cursor[c]
                          /\ lastRoster'[c] = lastRoster[c] /\ shown'[c] = shown[c]
BY DEF Gone

LEMMA NextStreamInv ==
  ASSUME StreamInv, Next
  PROVE  VersionsArePast' /\ VersionTellsRoster' /\ AsleepIsCaughtUp'
<1>. USE DEF StreamInv
<1>1. CASE Action
  <2>1. Roster' = Roster
    BY <1>1 DEF Action, Roster
  <2>. QED BY <1>1, <2>1, SameRoster, NotifyLeavesNoneAsleep DEF Action
<1>2. CASE Join
  BY <1>2, NewVersionIsOwed, NotifyLeavesNoneAsleep DEF Join
<1>3. CASE Persist
  BY <1>3, SameStreams DEF Persist, streams
<1>4. CASE Restart
  <2>1. \A c \in Conns : pc'[c] = "free" /\ lastRoster'[c] = -1
    BY <1>4, GoneIsOwedAll DEF Restart
  <2>2. rosterVer' = 0
    BY <1>4 DEF Restart
  <2>. QED BY <2>1, <2>2 DEF VersionsArePast, VersionTellsRoster, AsleepIsCaughtUp
<1>5. ASSUME NEW s \in Seats, Abandon(s)
      PROVE  VersionsArePast' /\ VersionTellsRoster' /\ AsleepIsCaughtUp'
  BY <1>5, NewVersionIsOwed, NotifyLeavesNoneAsleep DEF Abandon
<1>6. ASSUME NEW t \in Tabs, NEW c \in Conns, Open(t, c)
      PROVE  VersionsArePast' /\ VersionTellsRoster' /\ AsleepIsCaughtUp'
  <2>1. /\ UNCHANGED <<session, wake, shown>>
        /\ pc' = [pc EXCEPT ![c] = "opening"]
        /\ cursor' = [cursor EXCEPT ![c] = Resume(t)]
        /\ lastRoster' = [lastRoster EXCEPT ![c] = -1]
    BY <1>6 DEF Open, RosterOwed
  <2>2. Roster' = Roster /\ rosterVer' = rosterVer /\ log' = log
    BY <2>1 DEF session, Roster
  <2>3. -1 # rosterVer /\ -1 <= rosterVer
    BY DEF TypeOK
  <2>. QED BY <2>1, <2>2, <2>3
           DEF VersionsArePast, VersionTellsRoster, AsleepIsCaughtUp, TypeOK
<1>7. ASSUME NEW c \in Conns, Subscribe(c)
      PROVE  VersionsArePast' /\ VersionTellsRoster' /\ AsleepIsCaughtUp'
  <2>. DEFINE s == SeatOf[owner[c]]
  <2>1. /\ pc[c] = "opening" /\ pc' = [pc EXCEPT ![c] = "draining"]
        /\ subCount' = [subCount EXCEPT ![s] = @ + 1]
        /\ UNCHANGED <<log, joined, left, cursor, lastRoster, shown>>
    BY <1>7 DEF Subscribe
  <2>2. s \in Seats
    BY TabsAssumption DEF TypeOK, Seats
  <2>3. CASE subCount[s] = 0
    <3>1. /\ rosterVer' = rosterVer + 1
          /\ wake' = [d \in Conns |-> d = c \/ wake[d] \/ d \in Woken]
      BY <1>7, <2>3 DEF Subscribe
    <3>2. \A d \in Conns : pc'[d] = "waiting" => wake'[d]
      BY <2>1, <3>1 DEF Woken, Registered, TypeOK
    <3>3. AsleepIsCaughtUp'
      BY <3>2 DEF AsleepIsCaughtUp
    <3>. QED BY <2>1, <3>1, <3>3, NewVersionIsOwed
  <2>4. CASE subCount[s] # 0
    <3>1. rosterVer' = rosterVer /\ wake' = [wake EXCEPT ![c] = FALSE]
      BY <1>7, <2>4 DEF Subscribe
    <3>. HIDE DEF s
    <3>2. Roster' = Roster
      BY <2>1, <2>2, <2>4, SecondStreamSameRoster DEF TypeOK
    <3>3. AsleepIsCaughtUp'
      BY <2>1, <3>1 DEF AsleepIsCaughtUp, TypeOK
    <3>. QED BY <2>1, <3>1, <3>2, <3>3, SameRoster
  <2>. QED BY <2>3, <2>4
<1>8. ASSUME NEW c \in Conns, Drain(c)
      PROVE  VersionsArePast' /\ VersionTellsRoster' /\ AsleepIsCaughtUp'
  <2>1. /\ cursor' = [cursor EXCEPT ![c] = IF Cursor(c) < Len(log) THEN Len(log) ELSE Cursor(c)]
        /\ lastRoster' = [lastRoster EXCEPT ![c] = rosterVer]
        /\ shown' = [shown EXCEPT ![c] = IF lastRoster[c] # rosterVer THEN Roster ELSE @]
        /\ pc' = [pc EXCEPT ![c] = "waiting"]
        /\ UNCHANGED <<session, wake>>
    BY <1>8 DEF Drain
  <2>2. Roster' = Roster /\ rosterVer' = rosterVer /\ log' = log
    BY <2>1 DEF session, Roster
  <2>3. cursor'[c] = Len(log)
    <3>0. log \in Seq(Events)
      BY DEF TypeOK
    <3>1. Len(log) \in Nat /\ Cursor(c) \in Nat /\ Cursor(c) <= Len(log)
      <4>1. Len(log) \in Nat
        BY <3>0
      <4>2. Cursor(c) \in Nat /\ Cursor(c) <= Len(log)
        BY DrainedType, Zenon
      <4>. QED BY <4>1, <4>2
    <3>2. cursor'[c] = IF Cursor(c) < Len(log) THEN Len(log) ELSE Cursor(c)
      BY <2>1 DEF TypeOK
    <3>3. CASE Cursor(c) < Len(log)
      BY <3>2, <3>3
    <3>4. CASE ~(Cursor(c) < Len(log))
      <4>1. cursor'[c] = Cursor(c)
        BY <3>2, <3>4
      <4>2. \A a, b \in Nat : a <= b /\ ~(a < b) => a = b
        OBVIOUS
      <4>3. Cursor(c) = Len(log)
        BY <3>1, <3>4, <4>2, Zenon
      <4>. QED BY <4>1, <4>3
    <3>. QED BY <3>3, <3>4
  <2>4. shown'[c] = Roster
    BY <2>1 DEF VersionTellsRoster, TypeOK
  <2>5. VersionsArePast'
    BY <2>1, <2>2 DEF VersionsArePast, TypeOK
  <2>6. VersionTellsRoster'
    BY <2>1, <2>2, <2>4 DEF VersionTellsRoster, TypeOK
  <2>7. AsleepIsCaughtUp'
    BY <2>1, <2>2, <2>3 DEF AsleepIsCaughtUp, TypeOK
  <2>. QED BY <2>5, <2>6, <2>7
<1>9. ASSUME NEW c \in Conns, WakeUp(c)
      PROVE  VersionsArePast' /\ VersionTellsRoster' /\ AsleepIsCaughtUp'
  <2>1. /\ wake' = [wake EXCEPT ![c] = FALSE] /\ pc' = [pc EXCEPT ![c] = "draining"]
        /\ UNCHANGED <<session, cursor, lastRoster, shown>>
    BY <1>9 DEF WakeUp
  <2>2. Roster' = Roster /\ rosterVer' = rosterVer /\ log' = log
    BY <2>1 DEF session, Roster
  <2>3. AsleepIsCaughtUp'
    BY <2>1, <2>2 DEF AsleepIsCaughtUp, TypeOK
  <2>. QED BY <2>1, <2>2, <2>3, SameRoster
<1>10. ASSUME NEW c \in Conns, Leave(c)
       PROVE  VersionsArePast' /\ VersionTellsRoster' /\ AsleepIsCaughtUp'
  <2>. DEFINE s == SeatOf[owner[c]]
  <2>1. /\ subCount' = [subCount EXCEPT ![s] = subCount[s] - 1]
        /\ Gone({c})
        /\ UNCHANGED <<log, joined, left>>
    BY <1>10 DEF Leave, Remaining
  <2>2. s \in Seats
    BY TabsAssumption DEF TypeOK, Seats
  <2>3. /\ pc'[c] = "free" /\ lastRoster'[c] = -1
        /\ \A d \in Conns \ {c} :
              /\ pc'[d] = pc[d] /\ cursor'[d] = cursor[d]
              /\ lastRoster'[d] = lastRoster[d] /\ shown'[d] = shown[d]
    BY <2>1, GoneIsOwedAll
  <2>. HIDE DEF s
  <2>4. CASE Remaining(s) = 0
    <3>1. /\ rosterVer' = rosterVer + 1
          /\ wake' = [d \in Conns |-> d # c /\ (wake[d] \/ d \in Woken)]
      BY <1>10, <2>4 DEF Leave, s
    <3>2. \A d \in Conns : pc'[d] = "waiting" => wake'[d]
      BY <2>3, <3>1 DEF Woken, Registered
    <3>4. VersionsArePast' /\ VersionTellsRoster'
      <4>1. \A d \in Conns : lastRoster'[d] <= rosterVer' /\ lastRoster'[d] # rosterVer'
        <5>1. -1 <= rosterVer + 1 /\ -1 # rosterVer + 1
          BY VersionFacts
        <5>2. \A d \in Conns \ {c} : lastRoster[d] <= rosterVer + 1 /\ lastRoster[d] # rosterVer + 1
          BY VersionFacts
        <5>. QED BY <2>3, <3>1, <5>1, <5>2
      <4>. QED BY <4>1 DEF VersionsArePast, VersionTellsRoster
    <3>. QED BY <3>2, <3>4 DEF AsleepIsCaughtUp
  <2>5. CASE Remaining(s) # 0
    <3>1. rosterVer' = rosterVer /\ wake' = [wake EXCEPT ![c] = FALSE]
      BY <1>10, <2>5 DEF Leave, s
    <3>2. Roster' = Roster
      <4>1. subCount \in [Seats -> Int]
        BY DEF TypeOK
      <4>2. subCount[s] # 1
        BY <2>2, <2>5, <4>1 DEF Remaining
      <4>. QED BY <2>1, <2>2, <4>1, <4>2, SecondStreamSameRoster
    <3>3. VersionsArePast' /\ VersionTellsRoster'
      <4>1. -1 <= rosterVer /\ -1 # rosterVer
        BY VersionFacts
      <4>. QED BY <2>3, <3>1, <3>2, <4>1 DEF VersionsArePast, VersionTellsRoster
    <3>4. AsleepIsCaughtUp'
      BY <2>1, <2>3, <3>1 DEF AsleepIsCaughtUp, TypeOK
    <3>. QED BY <3>3, <3>4
  <2>. QED BY <2>4, <2>5
<1>11. ASSUME NEW t \in Tabs, Receive(t)
       PROVE  VersionsArePast' /\ VersionTellsRoster' /\ AsleepIsCaughtUp'
  BY <1>11, SameStreams DEF Receive
<1>12. ASSUME NEW t \in Tabs, Drop(t)
       PROVE  VersionsArePast' /\ VersionTellsRoster' /\ AsleepIsCaughtUp'
  BY <1>12, SameStreams DEF Drop
<1>13. ASSUME NEW t \in Tabs, Reload(t)
       PROVE  VersionsArePast' /\ VersionTellsRoster' /\ AsleepIsCaughtUp'
  BY <1>13, SameStreams DEF Reload, streams
<1>. QED BY <1>1, <1>2, <1>3, <1>4, <1>5, <1>6, <1>7, <1>8, <1>9, <1>10, <1>11, <1>12, <1>13
         DEF Next

(***************************************************************************)
(* The stream invariant holds in every reachable state: a stream's roster  *)
(* version tells which roster it sent, and a stream that sleeps has been   *)
(* through the session since its last change.                              *)
(***************************************************************************)
THEOREM StreamInvariant == Spec => []StreamInv
<1>1. Init => StreamInv
  <2>. SUFFICES ASSUME Init PROVE StreamInv
    OBVIOUS
  <2>1. VersionsArePast /\ VersionTellsRoster /\ AsleepIsCaughtUp
    BY DEF Init, VersionsArePast, VersionTellsRoster, AsleepIsCaughtUp
  <2>. QED BY <2>1, InitTypeOK DEF StreamInv
<1>2. StreamInv /\ [Next]_vars => StreamInv'
  <2>. SUFFICES ASSUME StreamInv, [Next]_vars PROVE StreamInv'
    OBVIOUS
  <2>1. CASE Next
    BY <2>1, NextTypeOK, NextStreamInv DEF StreamInv
  <2>2. CASE UNCHANGED vars
    <3>1. TypeOK'
      BY <2>2 DEF StreamInv, TypeOK, vars, session, streams, tabs, bounds
    <3>2. VersionsArePast' /\ VersionTellsRoster' /\ AsleepIsCaughtUp'
      BY <2>2, SameStreams DEF vars, streams
    <3>. QED BY <3>1, <3>2 DEF StreamInv
  <2>. QED BY <2>1, <2>2
<1>. QED BY <1>1, <1>2, PTL DEF Spec

(***************************************************************************)
(* The state of the session, its streams and its tabs keeps its types.     *)
(***************************************************************************)
THEOREM StreamsTypeCorrect == Spec => []TypeOK
<1>1. StreamInv => TypeOK
  BY DEF StreamInv
<1>. QED BY <1>1, StreamInvariant, PTL

(***************************************************************************)
(* No wake-up is lost: a stream that sleeps on an empty channel has sent   *)
(* every event and the roster as it is.                                    *)
(***************************************************************************)
THEOREM NoWakeUpIsLost == Spec => []NothingOwedWhenAsleep
<1>1. StreamInv => NothingOwedWhenAsleep
  BY DEF StreamInv, AsleepIsCaughtUp, VersionTellsRoster, NothingOwedWhenAsleep
<1>. QED BY <1>1, StreamInvariant, PTL

-----------------------------------------------------------------------------
(***************************************************************************)
(* Presence.  A stream is registered and counted in one step and leaves    *)
(* and is no longer counted in one step; the invariant says of every seat  *)
(* that its streams are finitely many and that they are counted right.     *)
(***************************************************************************)

StreamsOf(s) == {c \in Conns : Registered(c) /\ SeatOf[owner[c]] = s}

CountInv ==
  \A s \in Seats : /\ IsFiniteSet(StreamsOf(s))
                   /\ subCount[s] = Cardinality(StreamsOf(s))

LEMMA SameStreamsSameCount ==
  ASSUME CountInv, UNCHANGED subCount, \A s \in Seats : StreamsOf(s)' = StreamsOf(s)
  PROVE  CountInv'
BY DEF CountInv

LEMMA NextCountInv ==
  ASSUME TypeOK, CountInv, [Next]_vars
  PROVE  CountInv'
<1>. USE DEF StreamsOf, Registered
<1>1. CASE UNCHANGED vars
  BY <1>1 DEF vars, session, streams, CountInv
<1>2. CASE \/ Action \/ Join \/ Persist \/ \E s \in Seats : Abandon(s)
           \/ \E t \in Tabs : Receive(t) \/ Drop(t) \/ Reload(t)
  <2>1. UNCHANGED <<pc, owner, subCount>>
    BY <1>2 DEF Action, Join, Persist, Abandon, Receive, Drop, Reload, session, streams
  <2>. QED BY <2>1, SameStreamsSameCount
<1>3. CASE Restart
  <2>1. \A s \in Seats : StreamsOf(s)' = {} /\ subCount'[s] = 0
    BY <1>3 DEF Restart, Gone
  <2>. QED BY <2>1, FS_EmptySet DEF CountInv
<1>4. ASSUME NEW t \in Tabs, NEW c \in Conns, Open(t, c) PROVE CountInv'
  <2>1. /\ pc[c] = "free" /\ UNCHANGED subCount
        /\ pc' = [pc EXCEPT ![c] = "opening"] /\ owner' = [owner EXCEPT ![c] = t]
    BY <1>4 DEF Open, session
  <2>2. \A d \in Conns \ {c} : pc'[d] = pc[d] /\ owner'[d] = owner[d]
    BY <2>1 DEF TypeOK
  <2>3. ~ Registered(c) /\ ~ Registered(c)'
    BY <2>1 DEF TypeOK
  <2>4. \A s \in Seats : StreamsOf(s)' = StreamsOf(s)
    BY <2>2, <2>3
  <2>. QED BY <2>1, <2>4, SameStreamsSameCount
<1>5. ASSUME NEW c \in Conns, Drain(c) \/ WakeUp(c) PROVE CountInv'
  <2>1. /\ UNCHANGED <<owner, subCount>> /\ Registered(c)
        /\ \E p \in {"draining", "waiting"} : pc' = [pc EXCEPT ![c] = p]
    BY <1>5 DEF Drain, WakeUp, session
  <2>2. \A d \in Conns : Registered(d)' = Registered(d)
    BY <2>1 DEF TypeOK
  <2>3. \A s \in Seats : StreamsOf(s)' = StreamsOf(s)
    BY <2>1, <2>2
  <2>. QED BY <2>1, <2>3, SameStreamsSameCount
<1>6. ASSUME NEW c \in Conns, Subscribe(c) PROVE CountInv'
  <2>2. PICK s \in Seats : s = SeatOf[owner[c]]
    BY TabsAssumption DEF TypeOK, Seats
  <2>1. /\ pc[c] = "opening" /\ pc' = [pc EXCEPT ![c] = "draining"]
        /\ subCount' = [subCount EXCEPT ![s] = @ + 1] /\ UNCHANGED owner
    BY <1>6, <2>2 DEF Subscribe
  <2>3. /\ \A d \in Conns \ {c} : Registered(d)' = Registered(d)
        /\ ~ Registered(c) /\ Registered(c)'
    BY <2>1 DEF TypeOK
  <2>4. StreamsOf(s)' = StreamsOf(s) \cup {c} /\ c \notin StreamsOf(s)
    BY <2>1, <2>2, <2>3
  <2>5. \A z \in Seats \ {s} : StreamsOf(z)' = StreamsOf(z)
    BY <2>1, <2>2, <2>3
  <2>. HIDE DEF StreamsOf
  <2>6. /\ IsFiniteSet(StreamsOf(s)')
        /\ Cardinality(StreamsOf(s)') = Cardinality(StreamsOf(s)) + 1
    <3>1. IsFiniteSet(StreamsOf(s))
      BY DEF CountInv
    <3>2. /\ IsFiniteSet(StreamsOf(s) \cup {c})
          /\ Cardinality(StreamsOf(s) \cup {c}) = Cardinality(StreamsOf(s)) + 1
      BY <2>4, <3>1, FS_AddElement
    <3>. QED BY <2>4, <3>2
  <2>7. subCount'[s] = subCount[s] + 1 /\ \A z \in Seats \ {s} : subCount'[z] = subCount[z]
    BY <2>1, <2>2 DEF TypeOK
  <2>8. ASSUME NEW z \in Seats
        PROVE  IsFiniteSet(StreamsOf(z)') /\ subCount'[z] = Cardinality(StreamsOf(z)')
    BY <2>2, <2>5, <2>6, <2>7 DEF CountInv
  <2>. QED BY <2>8 DEF CountInv
<1>7. ASSUME NEW c \in Conns, Leave(c) PROVE CountInv'
  <2>2. PICK s \in Seats : s = SeatOf[owner[c]]
    BY TabsAssumption DEF TypeOK, Seats
  <2>1. /\ pc[c] = "waiting" /\ Gone({c})
        /\ subCount' = [subCount EXCEPT ![s] = @ - 1]
    BY <1>7, <2>2 DEF Leave, Remaining
  <2>3. pc'[c] = "free" /\ \A d \in Conns \ {c} : pc'[d] = pc[d] /\ owner'[d] = owner[d]
    BY <2>1 DEF Gone
  <2>4. StreamsOf(s)' = StreamsOf(s) \ {c} /\ c \in StreamsOf(s)
    BY <2>1, <2>2, <2>3
  <2>5. \A z \in Seats \ {s} : StreamsOf(z)' = StreamsOf(z)
    BY <2>1, <2>2, <2>3
  <2>. HIDE DEF StreamsOf
  <2>6. /\ IsFiniteSet(StreamsOf(s)')
        /\ Cardinality(StreamsOf(s)') = Cardinality(StreamsOf(s)) - 1
    BY <2>2, <2>4, FS_RemoveElement DEF CountInv
  <2>7. subCount'[s] = subCount[s] - 1 /\ \A z \in Seats \ {s} : subCount'[z] = subCount[z]
    BY <2>1, <2>2 DEF TypeOK
  <2>8. ASSUME NEW z \in Seats
        PROVE  IsFiniteSet(StreamsOf(z)') /\ subCount'[z] = Cardinality(StreamsOf(z)')
    BY <2>2, <2>5, <2>6, <2>7 DEF CountInv
  <2>. QED BY <2>8 DEF CountInv
<1>. QED BY <1>1, <1>2, <1>3, <1>4, <1>5, <1>6, <1>7 DEF Next

(***************************************************************************)
(* A seat is shown as connected exactly while a stream of it is open, for  *)
(* any number of tabs per seat and connections per tab.                    *)
(***************************************************************************)
THEOREM PresenceIsTrue == Spec => []PresenceIsOpenStreams
<1>1. Init => CountInv
  <2>. SUFFICES ASSUME Init PROVE CountInv
    OBVIOUS
  <2>1. \A s \in Seats : StreamsOf(s) = {} /\ subCount[s] = 0
    BY DEF Init, StreamsOf, Registered
  <2>. QED BY <2>1, FS_EmptySet DEF CountInv
<1>2. TypeOK /\ CountInv /\ [Next]_vars => CountInv'
  BY NextCountInv
<1>3. CountInv => PresenceIsOpenStreams
  BY DEF CountInv, PresenceIsOpenStreams, StreamsOf
<1>. QED BY <1>1, <1>2, <1>3, StreamsTypeCorrect, PTL DEF Spec

-----------------------------------------------------------------------------
(***************************************************************************)
(* Delivery.  What a tab can count on is the log in the store, while no    *)
(* save has failed, and the log itself after that, until a restart.  The   *)
(* invariant: a tab has taken a beginning of that log and its last event   *)
(* id says how much; what is on the wire of its connection takes it on to  *)
(* the connection's cursor, event by event, with rosters in between.       *)
(***************************************************************************)

NoHarm == failed = 0 \/ restarts = 0
Promised == IF failed = 0 THEN saved.log ELSE log

\* The wire w takes a tab that has the first a events of s on to the b first.
TakesOn(w, a, b, s) ==
  /\ a <= b /\ b <= Len(s)
  /\ \A i \in 1..Len(w) :
       w[i].seq # 0 => a < w[i].seq /\ w[i].seq <= b /\ w[i].event = s[w[i].seq]
  /\ \A i, j \in 1..Len(w) :
       i < j /\ w[i].seq # 0 /\ w[j].seq # 0 => w[i].seq < w[j].seq
  /\ \A n \in (a + 1)..b : \E i \in 1..Len(w) : w[i].seq = n

SavedIsPast ==
  failed = 0 =>
    Abstract!IsBeginning(saved.log, log) /\ (saving \/ saved.log = log)

\* What t has taken, and what is on its wire.
OnItsWay(t) ==
  /\ lastId[t] = Len(seen[t])
  /\ Abstract!IsBeginning(seen[t], Promised)
  /\ live[t] # NoConn =>
       TakesOn(wire[live[t]], lastId[t], cursor[live[t]], Promised)

\* A tab's connection is its own; a free one has nothing on its wire.
LiveIsOwned ==
  \A t \in Tabs : live[t] # NoConn => owner[live[t]] = t /\ pc[live[t]] # "free"
FreeIsSilent == \A c \in Conns : pc[c] = "free" => wire[c] = <<>>

WireInv ==
  /\ LiveIsOwned /\ FreeIsSilent
  /\ NoHarm => SavedIsPast /\ \A t \in Tabs : OnItsWay(t)

(***************************************************************************)
(* Beginnings: of itself, of what is appended to, and of what it is a      *)
(* beginning's beginning of; as a SubSeq.                                  *)
(***************************************************************************)
LEMMA BeginsItself ==
  ASSUME NEW s \in Seq(Events) PROVE Abstract!IsBeginning(s, s)
BY DEF Abstract!IsBeginning

LEMMA BeginsWhatIsAppended ==
  ASSUME NEW s \in Seq(Events), NEW t \in Seq(Events)
  PROVE  Abstract!IsBeginning(s, s \o t)
BY DEF Abstract!IsBeginning

LEMMA BeginsOn ==
  ASSUME NEW s \in Seq(Events), NEW t \in Seq(Events), NEW u \in Seq(Events),
         Abstract!IsBeginning(s, t), Abstract!IsBeginning(t, u)
  PROVE  Abstract!IsBeginning(s, u)
<1>1. Len(s) \in Nat /\ Len(t) \in Nat /\ Len(u) \in Nat
  OBVIOUS
<1>. QED BY <1>1 DEF Abstract!IsBeginning

LEMMA BeginningIsSubSeq ==
  ASSUME NEW s \in Seq(Events), NEW t \in Seq(Events), Abstract!IsBeginning(s, t)
  PROVE  Len(s) <= Len(t) /\ s = SubSeq(t, 1, Len(s))
<1>1. Len(s) \in Nat /\ Len(t) \in Nat /\ Len(s) <= Len(t)
  BY DEF Abstract!IsBeginning
<1>2. /\ SubSeq(t, 1, Len(s)) \in Seq(Events) /\ Len(SubSeq(t, 1, Len(s))) = Len(s)
      /\ \A i \in 1..Len(s) : SubSeq(t, 1, Len(s))[i] = t[i]
  BY <1>1
<1>3. \A i \in 1..Len(s) : s[i] = t[i]
  BY DEF Abstract!IsBeginning
<1>. QED BY <1>1, <1>2, <1>3

\* One event more of t.
LEMMA BeginningGrows ==
  ASSUME NEW s \in Seq(Events), NEW t \in Seq(Events), Abstract!IsBeginning(s, t),
         Len(s) < Len(t)
  PROVE  /\ Abstract!IsBeginning(Append(s, t[Len(s) + 1]), t)
         /\ Append(s, t[Len(s) + 1]) = SubSeq(t, 1, Len(s) + 1)
<1>. DEFINE u == Append(s, t[Len(s) + 1])
<1>1. Len(s) \in Nat /\ Len(t) \in Nat /\ Len(s) + 1 \in 1..Len(t)
  OBVIOUS
<1>2. t[Len(s) + 1] \in Events
  BY <1>1
<1>3. /\ u \in Seq(Events) /\ Len(u) = Len(s) + 1
      /\ u[Len(s) + 1] = t[Len(s) + 1] /\ \A i \in 1..Len(s) : u[i] = s[i]
  BY <1>1, <1>2
<1>. HIDE DEF u
<1>4. Abstract!IsBeginning(u, t)
  BY <1>1, <1>3 DEF Abstract!IsBeginning
<1>5. u = SubSeq(t, 1, Len(u))
  BY <1>3, <1>4, BeginningIsSubSeq
<1>. QED BY <1>3, <1>4, <1>5 DEF u

(***************************************************************************)
(* Wires: an empty one takes nobody further; what is written after it, and *)
(* what is read from it.                                                   *)
(***************************************************************************)
LEMMA EmptyWire ==
  ASSUME NEW a \in Nat, NEW s \in Seq(Events), a <= Len(s)
  PROVE  TakesOn(<<>>, a, a, s)
BY DEF TakesOn

LEMMA LongerLog ==
  ASSUME NEW w \in Seq(Items), NEW a \in Nat, NEW b \in Nat,
         NEW s \in Seq(Events), NEW t \in Seq(Events),
         TakesOn(w, a, b, s), Abstract!IsBeginning(s, t)
  PROVE  TakesOn(w, a, b, t)
<1>1. Len(s) \in Nat /\ Len(t) \in Nat /\ Len(s) <= Len(t) /\ b <= Len(t)
  BY DEF TakesOn, Abstract!IsBeginning
<1>2. ASSUME NEW i \in 1..Len(w), w[i].seq # 0
      PROVE  a < w[i].seq /\ w[i].seq <= b /\ w[i].event = t[w[i].seq]
  <2>1. w[i] \in Items
    OBVIOUS
  <2>2. w[i].seq \in Nat
    BY <2>1 DEF Items
  <2>3. w[i].seq \in 1..Len(s)
    BY <1>1, <1>2, <2>2 DEF TakesOn
  <2>. QED BY <1>2, <2>3 DEF TakesOn, Abstract!IsBeginning
<1>. QED BY <1>1, <1>2 DEF TakesOn

LEMMA ItemNumber == ASSUME NEW d \in Items PROVE d.seq \in Nat
BY DEF Items

\* Two wires, one after the other.
LEMMA WiresJoin ==
  ASSUME NEW w \in Seq(Items), NEW x \in Seq(Items),
         NEW a \in Nat, NEW b \in Nat, NEW c \in Nat, NEW s \in Seq(Events),
         TakesOn(w, a, b, s), TakesOn(x, b, c, s)
  PROVE  TakesOn(w \o x, a, c, s)
<1>. DEFINE y == w \o x
<1>1. /\ Len(w) \in Nat /\ Len(x) \in Nat /\ Len(s) \in Nat
      /\ y \in Seq(Items) /\ Len(y) = Len(w) + Len(x)
      /\ \A i \in 1..Len(w) : y[i] = w[i]
      /\ \A i \in 1..Len(x) : y[Len(w) + i] = x[i]
  OBVIOUS
<1>2. \A i \in 1..Len(y) : \/ i \in 1..Len(w)
                           \/ i - Len(w) \in 1..Len(x) /\ y[i] = x[i - Len(w)]
  BY <1>1
<1>3. \A i \in 1..Len(y) : y[i].seq \in Nat
  BY <1>1, ItemNumber
<1>. HIDE DEF y
<1>4. a <= b /\ b <= c /\ c <= Len(s)
  BY DEF TakesOn
<1>5. ASSUME NEW i \in 1..Len(y), y[i].seq # 0
      PROVE  a < y[i].seq /\ y[i].seq <= c /\ y[i].event = s[y[i].seq]
  <2>1. CASE i \in 1..Len(w)
    <3>1. a < y[i].seq /\ y[i].seq <= b /\ y[i].event = s[y[i].seq]
      BY <1>1, <1>5, <2>1 DEF TakesOn
    <3>. QED BY <1>3, <1>4, <3>1
  <2>2. CASE i - Len(w) \in 1..Len(x) /\ y[i] = x[i - Len(w)]
    <3>1. b < y[i].seq /\ y[i].seq <= c /\ y[i].event = s[y[i].seq]
      BY <1>5, <2>2 DEF TakesOn
    <3>. QED BY <1>3, <1>4, <3>1
  <2>. QED BY <1>2, <2>1, <2>2
<1>6. ASSUME NEW i \in 1..Len(y), NEW j \in 1..Len(y),
             i < j, y[i].seq # 0, y[j].seq # 0
      PROVE  y[i].seq < y[j].seq
  <2>1. CASE j \in 1..Len(w)
    <3>1. i \in 1..Len(w)
      BY <1>1, <1>6, <2>1
    <3>. QED BY <1>1, <1>6, <2>1, <3>1 DEF TakesOn
  <2>2. CASE i \in 1..Len(w) /\ j - Len(w) \in 1..Len(x) /\ y[j] = x[j - Len(w)]
    <3>1. y[i].seq <= b /\ b < y[j].seq
      BY <1>1, <1>6, <2>2 DEF TakesOn
    <3>. QED BY <1>3, <3>1
  <2>3. CASE /\ i - Len(w) \in 1..Len(x) /\ y[i] = x[i - Len(w)]
             /\ j - Len(w) \in 1..Len(x) /\ y[j] = x[j - Len(w)]
    <3>1. i - Len(w) < j - Len(w)
      BY <1>1, <1>6
    <3>. QED BY <1>6, <2>3, <3>1 DEF TakesOn
  <2>. QED BY <1>2, <2>1, <2>2, <2>3
<1>7. ASSUME NEW n \in (a + 1)..c
      PROVE  \E i \in 1..Len(y) : y[i].seq = n
  <2>1. CASE n \in (a + 1)..b
    <3>1. PICK i \in 1..Len(w) : w[i].seq = n
      BY <2>1 DEF TakesOn
    <3>. QED BY <1>1, <3>1
  <2>2. CASE n \in (b + 1)..c
    <3>1. PICK i \in 1..Len(x) : x[i].seq = n
      BY <2>2 DEF TakesOn
    <3>2. Len(w) + i \in 1..Len(y) /\ y[Len(w) + i] = x[i]
      BY <1>1
    <3>. QED BY <3>1, <3>2
  <2>. QED BY <2>1, <2>2
<1>8. TakesOn(y, a, c, s)
  BY <1>4, <1>5, <1>6, <1>7 DEF TakesOn
<1>. QED BY <1>8 DEF y

\* A roster takes nobody further.
LEMMA RosterOnly ==
  ASSUME NEW r \in Items, r.seq = 0, NEW b \in Nat, NEW s \in Seq(Events), b <= Len(s)
  PROVE  TakesOn(<<r>>, b, b, s)
<1>1. Len(<<r>>) = 1 /\ <<r>>[1] = r
  OBVIOUS
<1>. QED BY <1>1 DEF TakesOn

\* What a drain copies takes a tab to the end of the log.
LEMMA CopyTakesOn ==
  ASSUME NEW b \in Nat, NEW s \in Seq(Events), b <= Len(s),
         NEW x \in Seq(Items), Len(x) = Len(s) - b,
         \A i \in 1..Len(x) : x[i] = [seq |-> b + i, event |-> s[b + i]]
  PROVE  TakesOn(x, b, Len(s), s)
<1>1. Len(s) \in Nat
  OBVIOUS
<1>2. ASSUME NEW i \in 1..Len(x)
      PROVE  /\ x[i].seq = b + i /\ x[i].event = s[b + i]
             /\ b < b + i /\ b + i <= Len(s)
  <2>1. x[i] = [seq |-> b + i, event |-> s[b + i]]
    OBVIOUS
  <2>2. x[i].seq = b + i /\ x[i].event = s[b + i]
    BY <2>1
  <2>3. i \in Nat /\ i >= 1 /\ i <= Len(s) - b
    BY <1>1
  <2>. QED BY <1>1, <2>2, <2>3
<1>3. ASSUME NEW i \in 1..Len(x), x[i].seq # 0
      PROVE  b < x[i].seq /\ x[i].seq <= Len(s) /\ x[i].event = s[x[i].seq]
  BY <1>2
<1>4. ASSUME NEW i \in 1..Len(x), NEW j \in 1..Len(x), i < j
      PROVE  x[i].seq < x[j].seq
  BY <1>2, <1>4
<1>5. ASSUME NEW n \in (b + 1)..Len(s)
      PROVE  \E i \in 1..Len(x) : x[i].seq = n
  <2>1. n - b \in 1..Len(x) /\ b + (n - b) = n
    BY <1>1
  <2>. QED BY <1>2, <2>1
<1>6. b <= Len(s) /\ Len(s) <= Len(s)
  BY <1>1
<1>. QED BY <1>3, <1>4, <1>5, <1>6 DEF TakesOn

LEMMA WireRead ==
  ASSUME NEW w \in Seq(Items), w # <<>>,
         NEW a \in Nat, NEW b \in Nat, NEW s \in Seq(Events), TakesOn(w, a, b, s)
  PROVE  /\ Head(w).seq = 0 => TakesOn(Tail(w), a, b, s)
         /\ Head(w).seq # 0 => /\ Head(w).seq = a + 1 /\ a < Len(s)
                               /\ Head(w).event = s[a + 1]
                               /\ TakesOn(Tail(w), a + 1, b, s)
<1>. DEFINE x == Tail(w)
<1>1. /\ Len(w) \in Nat \ {0} /\ Len(s) \in Nat
      /\ x \in Seq(Items) /\ Len(x) = Len(w) - 1
      /\ \A i \in 1..Len(x) : x[i] = w[i + 1] /\ i + 1 \in 1..Len(w)
      /\ \A i \in 1..Len(w) : i # 1 => i - 1 \in 1..Len(x) /\ x[i - 1] = w[i]
      /\ Head(w) = w[1] /\ 1 \in 1..Len(w)
  OBVIOUS
<1>2. \A i \in 1..Len(w) : w[i].seq \in Nat
  BY ItemNumber
<1>. HIDE DEF x
<1>3. a <= b /\ b <= Len(s)
  BY DEF TakesOn
<1>4. \A i \in 1..Len(x) : x[i].seq # 0 =>
         a < x[i].seq /\ x[i].seq <= b /\ x[i].event = s[x[i].seq]
  BY <1>1 DEF TakesOn
<1>5. ASSUME NEW i \in 1..Len(x), NEW j \in 1..Len(x),
             i < j, x[i].seq # 0, x[j].seq # 0
      PROVE  x[i].seq < x[j].seq
  BY <1>1, <1>5 DEF TakesOn
<1>6. CASE Head(w).seq = 0
  <2>1. ASSUME NEW n \in (a + 1)..b PROVE \E i \in 1..Len(x) : x[i].seq = n
    <3>1. PICK i \in 1..Len(w) : w[i].seq = n
      BY DEF TakesOn
    <3>2. i # 1
      BY <1>1, <1>6, <3>1
    <3>. QED BY <1>1, <3>1, <3>2
  <2>2. TakesOn(x, a, b, s)
    BY <1>3, <1>4, <1>5, <2>1 DEF TakesOn
  <2>. QED BY <1>6, <2>2 DEF x
<1>7. CASE Head(w).seq # 0
  <2>1. /\ a < w[1].seq /\ w[1].seq <= b /\ w[1].event = s[w[1].seq]
        /\ w[1].seq \in Nat /\ w[1].seq # 0
    BY <1>1, <1>2, <1>7 DEF TakesOn
  <2>2. PICK k \in 1..Len(w) : w[k].seq = a + 1
    <3>1. a + 1 \in (a + 1)..b
      BY <2>1
    <3>. QED BY <3>1 DEF TakesOn
  <2>3. k # 1 => w[1].seq < w[k].seq
    BY <1>1, <2>1, <2>2 DEF TakesOn
  <2>4. w[1].seq = a + 1
    BY <2>1, <2>2, <2>3
  <2>5. ASSUME NEW i \in 1..Len(x), x[i].seq # 0
        PROVE  a + 1 < x[i].seq
    <3>1. w[1].seq < w[i + 1].seq
      BY <1>1, <2>1, <2>5 DEF TakesOn
    <3>. QED BY <1>1, <2>4, <3>1
  <2>6. ASSUME NEW n \in (a + 2)..b PROVE \E i \in 1..Len(x) : x[i].seq = n
    <3>0. n \in (a + 1)..b
      OBVIOUS
    <3>1. PICK i \in 1..Len(w) : w[i].seq = n
      BY <3>0 DEF TakesOn
    <3>2. i # 1
      BY <2>4, <3>1
    <3>. QED BY <1>1, <3>1, <3>2
  <2>7. a + 1 <= b /\ (a + 1) + 1 = a + 2
    BY <2>1
  <2>8. TakesOn(x, a + 1, b, s)
    BY <1>3, <1>4, <1>5, <2>5, <2>6, <2>7 DEF TakesOn
  <2>. QED BY <1>1, <1>3, <2>1, <2>4, <2>8 DEF x
<1>. QED BY <1>6, <1>7

(***************************************************************************)
(* The steps.  The wires are the connections' and each connection is one   *)
(* tab's.                                                                  *)
(***************************************************************************)
LEMMA NextLive ==
  ASSUME TypeOK, LiveIsOwned, FreeIsSilent, [Next]_vars
  PROVE  LiveIsOwned' /\ FreeIsSilent'
<1>. USE DEF LiveIsOwned, FreeIsSilent
<1>1. CASE UNCHANGED vars
  BY <1>1 DEF vars, streams, tabs
<1>2. CASE \/ Action \/ Join \/ Persist \/ \E s \in Seats : Abandon(s)
           \/ \E t \in Tabs : Reload(t)
  BY <1>2 DEF Action, Join, Persist, Abandon, Reload, streams, tabs
<1>3. CASE Restart
  BY <1>3 DEF Restart, Gone
<1>4. ASSUME NEW t \in Tabs, NEW c \in Conns, Open(t, c)
      PROVE  LiveIsOwned' /\ FreeIsSilent'
  BY <1>4 DEF Open, TypeOK
<1>5. ASSUME NEW c \in Conns, Subscribe(c) \/ WakeUp(c)
      PROVE  LiveIsOwned' /\ FreeIsSilent'
  <2>1. /\ UNCHANGED <<live, owner, wire>> /\ pc[c] # "free"
        /\ pc' = [pc EXCEPT ![c] = "draining"]
    BY <1>5 DEF Subscribe, WakeUp, tabs
  <2>. QED BY <2>1 DEF TypeOK
<1>6. ASSUME NEW c \in Conns, Drain(c)
      PROVE  LiveIsOwned' /\ FreeIsSilent'
  <2>1. /\ UNCHANGED <<live, owner>> /\ pc[c] # "free"
        /\ pc' = [pc EXCEPT ![c] = "waiting"]
        /\ \A d \in Conns \ {c} : wire'[d] = wire[d]
    BY <1>6 DEF Drain, tabs, TypeOK
  <2>. QED BY <2>1 DEF TypeOK
<1>7. ASSUME NEW c \in Conns, Leave(c)
      PROVE  LiveIsOwned' /\ FreeIsSilent'
  <2>1. UNCHANGED live /\ live[owner[c]] # c /\ Gone({c})
    BY <1>7 DEF Leave, tabs
  <2>2. /\ wire'[c] = <<>>
        /\ \A d \in Conns \ {c} : /\ pc'[d] = pc[d] /\ owner'[d] = owner[d]
                                  /\ wire'[d] = wire[d]
    BY <2>1 DEF Gone
  <2>3. \A t \in Tabs : live[t] # c
    BY <2>1, ConnsAssumption
  <2>4. \A t \in Tabs : live[t] # NoConn => live[t] \in Conns \ {c}
    BY <2>3 DEF TypeOK
  <2>5. LiveIsOwned'
    BY <2>1, <2>2, <2>4
  <2>. QED BY <2>2, <2>5
<1>8. ASSUME NEW t \in Tabs, Receive(t)
      PROVE  LiveIsOwned' /\ FreeIsSilent'
  <2>1. /\ UNCHANGED <<live, owner, pc>>
        /\ live[t] # NoConn
        /\ wire' = [wire EXCEPT ![live[t]] = Tail(@)]
    BY <1>8 DEF Receive
  <2>2. \A d \in Conns : d # live[t] => wire'[d] = wire[d]
    BY <2>1 DEF TypeOK
  <2>. QED BY <2>1, <2>2
<1>9. ASSUME NEW t \in Tabs, Drop(t)
      PROVE  LiveIsOwned' /\ FreeIsSilent'
  <2>1. /\ UNCHANGED <<owner, pc>>
        /\ live' = [live EXCEPT ![t] = NoConn]
        /\ wire' = [wire EXCEPT ![live[t]] = <<>>]
    BY <1>9 DEF Drop
  <2>. QED BY <2>1 DEF TypeOK
<1>. QED BY <1>1, <1>2, <1>3, <1>4, <1>5, <1>6, <1>7, <1>8, <1>9 DEF Next

LEMMA PromisedType == ASSUME TypeOK PROVE Promised \in Seq(Events)
BY DEF TypeOK, Promised

\* While the mutex is free, what is promised is the log.
LEMMA PromisedIsLog == ASSUME SavedIsPast, Unlocked PROVE Promised = log
BY DEF SavedIsPast, Unlocked, Promised

\* A step that does nothing to a tab or its wire; the promise may grow.
LEMMA StillOnItsWay ==
  ASSUME TypeOK, TypeOK', NEW t \in Tabs, OnItsWay(t),
         Abstract!IsBeginning(Promised, Promised'),
         lastId'[t] = lastId[t], seen'[t] = seen[t],
         \/ live'[t] = NoConn
         \/ /\ live'[t] = live[t]
            /\ wire'[live[t]] = wire[live[t]] /\ cursor'[live[t]] = cursor[live[t]]
  PROVE  OnItsWay(t)'
<1>1. Promised \in Seq(Events) /\ Promised' \in Seq(Events)
  BY DEF TypeOK, Promised
<1>2. lastId[t] \in Nat /\ seen[t] \in Seq(Events)
  BY DEF TypeOK
<1>3. lastId'[t] = Len(seen'[t]) /\ Abstract!IsBeginning(seen'[t], Promised')
  BY <1>1, <1>2, BeginsOn DEF OnItsWay
<1>4. ASSUME live'[t] # NoConn
      PROVE  TakesOn(wire'[live'[t]], lastId'[t], cursor'[live'[t]], Promised')
  <2>1. live[t] \in Conns /\ live'[t] = live[t] /\ live[t] # NoConn
    BY <1>4, ConnsAssumption DEF TypeOK
  <2>2. wire[live[t]] \in Seq(Items) /\ cursor[live[t]] \in Nat
    BY <2>1 DEF TypeOK
  <2>3. TakesOn(wire[live[t]], lastId[t], cursor[live[t]], Promised)
    BY <2>1 DEF OnItsWay
  <2>4. TakesOn(wire[live[t]], lastId[t], cursor[live[t]], Promised')
    BY <1>1, <1>2, <2>2, <2>3, LongerLog
  <2>. QED BY <2>1, <2>4
<1>. QED BY <1>3, <1>4 DEF OnItsWay

LEMMA NextWireInv ==
  ASSUME TypeOK, TypeOK', WireInv, [Next]_vars, NoHarm'
  PROVE  SavedIsPast' /\ \A t \in Tabs : OnItsWay(t)'
<1>1. /\ NoHarm /\ LiveIsOwned /\ FreeIsSilent /\ SavedIsPast
      /\ \A t \in Tabs : OnItsWay(t)
  <2>1. CASE Next
    <3>1. failed' = failed \/ failed' = failed + 1
      BY <2>1 DEF Next, Action, Join, Persist, Restart, Abandon, Open, Subscribe,
         Drain, WakeUp, Leave, Receive, Drop, Reload, bounds
    <3>2. restarts' = restarts \/ restarts' = restarts + 1
      BY <2>1 DEF Next, Action, Join, Persist, Restart, Abandon, Open, Subscribe,
         Drain, WakeUp, Leave, Receive, Drop, Reload, bounds
    <3>. QED BY <3>1, <3>2 DEF NoHarm, WireInv, TypeOK
  <2>. QED BY <2>1 DEF NoHarm, WireInv, vars, bounds
<1>2. /\ Promised \in Seq(Events) /\ log \in Seq(Events)
      /\ Promised' \in Seq(Events) /\ log' \in Seq(Events)
      /\ saved.log \in Seq(Events) /\ Len(log) \in Nat
  BY DEF TypeOK, Promised
<1>. DEFINE Kept(t) ==
       /\ lastId'[t] = lastId[t] /\ seen'[t] = seen[t]
       /\ \/ live'[t] = NoConn
          \/ /\ live'[t] = live[t]
             /\ live[t] \in Conns => /\ wire'[live[t]] = wire[live[t]]
                                     /\ cursor'[live[t]] = cursor[live[t]]
<1>3. ASSUME NEW t \in Tabs, Kept(t), Abstract!IsBeginning(Promised, Promised')
      PROVE  OnItsWay(t)'
  <2>1. live[t] \in Conns \/ live[t] = NoConn
    BY DEF TypeOK
  <2>. QED BY <1>1, <1>3, <2>1, StillOnItsWay
<1>. HIDE DEF Kept
<1>4. Promised' = Promised => Abstract!IsBeginning(Promised, Promised')
  BY <1>2, BeginsItself
<1>5. ASSUME log' = log, saved' = saved, failed' = failed,
             saving' = saving \/ saving' = TRUE
      PROVE  SavedIsPast' /\ Promised' = Promised
  BY <1>1, <1>5 DEF SavedIsPast, Promised
<1>6. CASE UNCHANGED vars
  <2>1. UNCHANGED <<log, saved, failed, saving>>
    BY <1>6 DEF vars, session, bounds
  <2>2. \A t \in Tabs : Kept(t)
    BY <1>6 DEF vars, streams, tabs, Kept
  <2>. QED BY <1>3, <1>4, <1>5, <2>1, <2>2
<1>7. CASE Action
  <2>1. PICK n \in Batches : log' = log \o [i \in 1..n |-> Event(Len(log) + i)]
    BY <1>7 DEF Action
  <2>2. [i \in 1..n |-> Event(Len(log) + i)] \in Seq(Events)
    <3>1. n \in Nat
      BY BatchesAssumption
    <3>2. \A i \in 1..n : Event(Len(log) + i) \in Events
      BY <1>2, <3>1 DEF Event, Events, TypeOK
    <3>. QED BY <3>1, <3>2
  <2>3. Abstract!IsBeginning(log, log')
    BY <1>2, <2>1, <2>2, BeginsWhatIsAppended
  <2>4. Unlocked /\ saving' = TRUE /\ UNCHANGED <<saved, failed>>
    BY <1>7 DEF Action, bounds
  <2>5. Promised = log
    BY <1>1, <2>4, PromisedIsLog
  <2>6. SavedIsPast'
    BY <1>1, <2>3, <2>4 DEF SavedIsPast, Unlocked
  <2>7. Abstract!IsBeginning(Promised, Promised')
    BY <1>2, <1>4, <2>3, <2>4, <2>5 DEF Promised
  <2>8. \A t \in Tabs : Kept(t)
    BY <1>7 DEF Action, tabs, Kept
  <2>. QED BY <1>3, <2>6, <2>7, <2>8
<1>8. CASE Join \/ \E s \in Seats : Abandon(s)
  <2>1. UNCHANGED <<log, saved, failed>> /\ saving' = TRUE
    BY <1>8 DEF Join, Abandon, bounds
  <2>2. \A t \in Tabs : Kept(t)
    BY <1>8 DEF Join, Abandon, tabs, Kept
  <2>. QED BY <1>3, <1>4, <1>5, <2>1, <2>2
<1>9. CASE Persist
  <2>1. UNCHANGED log /\ \A t \in Tabs : Kept(t)
    BY <1>9 DEF Persist, session, streams, tabs, Kept
  <2>2. \/ saved'.log = log /\ failed' = failed
        \/ failed' = failed + 1
    BY <1>9 DEF Persist, Record
  <2>3. Promised' = log /\ SavedIsPast'
    BY <1>2, <2>1, <2>2, BeginsItself DEF Promised, SavedIsPast, TypeOK
  <2>4. Abstract!IsBeginning(Promised, Promised')
    BY <1>1, <1>2, <2>3, BeginsItself DEF Promised, SavedIsPast
  <2>. QED BY <1>3, <2>1, <2>3, <2>4
<1>10. CASE Restart
  <2>1. /\ log' = saved.log /\ UNCHANGED <<saved, failed>>
        /\ restarts' = restarts + 1
    BY <1>10 DEF Restart
  <2>2. failed = 0
    BY <2>1 DEF NoHarm, TypeOK
  <2>3. SavedIsPast' /\ Promised' = Promised
    BY <1>2, <2>1, <2>2, BeginsItself DEF SavedIsPast, Promised
  <2>4. \A t \in Tabs : Kept(t)
    BY <1>10 DEF Restart, Kept
  <2>. QED BY <1>3, <1>4, <2>3, <2>4
<1>11. ASSUME NEW t \in Tabs, NEW c \in Conns, Open(t, c)
       PROVE  SavedIsPast' /\ \A u \in Tabs : OnItsWay(u)'
  <2>1. /\ live[t] = NoConn /\ pc[c] = "free"
        /\ UNCHANGED <<log, saving, saved, failed, wire, lastId, seen>>
        /\ live' = [live EXCEPT ![t] = c]
        /\ cursor' = [cursor EXCEPT ![c] = lastId[t]]
    BY <1>11 DEF Open, Resume, session
  <2>2. SavedIsPast' /\ Promised' = Promised
    BY <1>5, <2>1
  <2>3. ASSUME NEW u \in Tabs, u # t PROVE Kept(u)
    <3>1. live[u] # c
      BY <1>1, <2>1, ConnsAssumption DEF LiveIsOwned
    <3>. QED BY <2>1, <2>3, <3>1 DEF Kept, TypeOK
  <2>4. OnItsWay(t)'
    <3>1. /\ live'[t] = c /\ cursor'[c] = lastId[t] /\ wire'[c] = <<>>
          /\ lastId'[t] = lastId[t] /\ seen'[t] = seen[t]
      BY <1>1, <2>1 DEF FreeIsSilent, TypeOK
    <3>2. lastId[t] \in Nat /\ lastId[t] = Len(seen[t]) /\ lastId[t] <= Len(Promised)
      BY <1>1 DEF OnItsWay, Abstract!IsBeginning, TypeOK
    <3>3. TakesOn(<<>>, lastId[t], lastId[t], Promised)
      BY <1>2, <3>2, EmptyWire
    <3>. QED BY <1>1, <2>2, <3>1, <3>2, <3>3 DEF OnItsWay
  <2>. QED BY <1>3, <1>4, <2>2, <2>3, <2>4
<1>12. ASSUME NEW c \in Conns, Subscribe(c) \/ WakeUp(c)
       PROVE  SavedIsPast' /\ \A u \in Tabs : OnItsWay(u)'
  <2>1. UNCHANGED <<log, saved, failed, saving>> /\ \A u \in Tabs : Kept(u)
    BY <1>12 DEF Subscribe, WakeUp, session, tabs, bounds, Kept
  <2>. QED BY <1>3, <1>4, <1>5, <2>1
<1>13. ASSUME NEW c \in Conns, Leave(c)
       PROVE  SavedIsPast' /\ \A u \in Tabs : OnItsWay(u)'
  <2>1. /\ UNCHANGED <<log, saved, failed, saving, live, lastId, seen>>
        /\ Gone({c}) /\ live[owner[c]] # c
    BY <1>13 DEF Leave, tabs, bounds
  <2>2. ASSUME NEW u \in Tabs PROVE Kept(u)
    <3>1. live[u] # c
      BY <1>1, <2>1, ConnsAssumption DEF LiveIsOwned
    <3>. QED BY <2>1, <3>1 DEF Kept, Gone
  <2>. QED BY <1>3, <1>4, <1>5, <2>1, <2>2
<1>14. ASSUME NEW t \in Tabs, Drop(t)
       PROVE  SavedIsPast' /\ \A u \in Tabs : OnItsWay(u)'
  <2>1. /\ UNCHANGED <<log, saved, failed, saving, cursor, lastId, seen>>
        /\ live[t] # NoConn
        /\ live' = [live EXCEPT ![t] = NoConn]
        /\ wire' = [wire EXCEPT ![live[t]] = <<>>]
    BY <1>14 DEF Drop, session, bounds
  <2>2. ASSUME NEW u \in Tabs PROVE Kept(u)
    <3>1. u # t => live[u] # live[t]
      BY <1>1, <2>1 DEF LiveIsOwned
    <3>. QED BY <2>1, <3>1 DEF Kept, TypeOK
  <2>. QED BY <1>3, <1>4, <1>5, <2>1, <2>2
<1>15. ASSUME NEW t \in Tabs, Reload(t)
       PROVE  SavedIsPast' /\ \A u \in Tabs : OnItsWay(u)'
  <2>1. /\ UNCHANGED <<log, saved, failed, saving, cursor, wire, live>>
        /\ live[t] = NoConn /\ Unlocked
        /\ seen' = [seen EXCEPT ![t] = log]
        /\ lastId' = [lastId EXCEPT ![t] = Len(log)]
    BY <1>15 DEF Reload, session, streams, bounds
  <2>2. SavedIsPast' /\ Promised' = Promised /\ Promised = log
    BY <1>1, <1>5, <2>1, PromisedIsLog
  <2>3. ASSUME NEW u \in Tabs, u # t PROVE Kept(u)
    BY <2>1, <2>3 DEF Kept, TypeOK
  <2>4. OnItsWay(t)'
    BY <1>2, <2>1, <2>2, BeginsItself DEF OnItsWay, TypeOK
  <2>. QED BY <1>3, <1>4, <2>2, <2>3, <2>4
<1>16. ASSUME NEW c \in Conns, Drain(c)
       PROVE  SavedIsPast' /\ \A u \in Tabs : OnItsWay(u)'
  <2>. DEFINE new == [i \in 1..(Len(log) - Cursor(c)) |-> EventItem(Cursor(c) + i)]
              items == IF lastRoster[c] # rosterVer THEN <<RosterItem>> \o new ELSE new
  <2>1. /\ UNCHANGED <<log, saved, failed, saving, live, lastId, seen>>
        /\ Unlocked
        /\ cursor' = [cursor EXCEPT ![c] = IF Cursor(c) < Len(log) THEN Len(log) ELSE Cursor(c)]
        /\ wire' = [wire EXCEPT ![c] = IF live[owner[c]] = c THEN @ \o items ELSE <<>>]
    BY <1>16 DEF Drain, session, tabs, bounds
  <2>2. SavedIsPast' /\ Promised' = Promised /\ Promised = log
    BY <1>1, <1>5, <2>1, PromisedIsLog
  <2>3. ASSUME NEW u \in Tabs, live[u] # c PROVE Kept(u)
    BY <2>1, <2>3 DEF Kept, TypeOK
  <2>4. ASSUME NEW t \in Tabs, live[t] = c PROVE OnItsWay(t)'
    <3>. DEFINE a == lastId[t]
                b == cursor[c]
    <3>1. owner[c] = t /\ live[owner[c]] = c /\ c # NoConn
      BY <1>1, <2>4, ConnsAssumption DEF LiveIsOwned
    <3>2. /\ a \in Nat /\ b \in Nat /\ wire[c] \in Seq(Items) /\ b <= Len(log)
          /\ TakesOn(wire[c], a, b, log)
      <4>1. TakesOn(wire[c], a, b, log)
        BY <1>1, <2>2, <2>4, <3>1 DEF OnItsWay
      <4>2. b <= Len(log)
        BY <4>1 DEF TakesOn
      <4>. QED BY <4>1, <4>2 DEF TypeOK
    <3>3. Cursor(c) = b
      BY <1>2, <3>2 DEF Cursor
    <3>4. cursor'[c] = Len(log)
      BY <1>2, <2>1, <3>2, <3>3 DEF TypeOK
    <3>5. wire'[c] = wire[c] \o items
      BY <2>1, <3>1 DEF TypeOK
    <3>6. new \in Seq(Items) /\ RosterItem \in Items
      BY DrainedType
    <3>7. TakesOn(new, b, Len(log), log)
      <4>1. Len(new) = Len(log) - b
            /\ \A i \in 1..Len(new) : new[i] = [seq |-> b + i, event |-> log[b + i]]
        BY <1>2, <3>2, <3>3 DEF EventItem
      <4>. HIDE DEF new, a, b
      <4>. QED BY <1>2, <3>2, <3>6, <4>1, CopyTakesOn
    <3>. HIDE DEF new, a, b
    <3>8. items \in Seq(Items) /\ TakesOn(items, b, Len(log), log)
      <4>1. <<RosterItem>> \in Seq(Items) /\ <<RosterItem>> \o new \in Seq(Items)
        BY <3>6
      <4>2. TakesOn(<<RosterItem>>, b, b, log)
        BY <1>2, <3>2, <3>6, RosterOnly DEF RosterItem
      <4>3. TakesOn(<<RosterItem>> \o new, b, Len(log), log)
        BY <1>2, <3>2, <3>6, <3>7, <4>1, <4>2, WiresJoin
      <4>. QED BY <3>6, <3>7, <4>1, <4>3
    <3>. HIDE DEF items
    <3>9. TakesOn(wire[c] \o items, a, Len(log), log)
      BY <1>2, <3>2, <3>8, WiresJoin
    <3>10. TakesOn(wire'[c], lastId'[t], cursor'[c], Promised') /\ live'[t] = c
      BY <2>1, <2>2, <2>4, <3>4, <3>5, <3>9 DEF a
    <3>11. lastId'[t] = Len(seen'[t]) /\ Abstract!IsBeginning(seen'[t], Promised')
      BY <1>1, <2>1, <2>2 DEF OnItsWay
    <3>. QED BY <3>10, <3>11 DEF OnItsWay
  <2>. QED BY <1>3, <1>4, <2>2, <2>3, <2>4
<1>17. ASSUME NEW t \in Tabs, Receive(t)
       PROVE  SavedIsPast' /\ \A u \in Tabs : OnItsWay(u)'
  <2>1. PICK c \in Conns : c = live[t] /\ c # NoConn
    BY <1>17 DEF Receive, TypeOK
  <2>2. /\ UNCHANGED <<log, saved, failed, saving, live, cursor>>
        /\ wire[c] # <<>> /\ wire' = [wire EXCEPT ![c] = Tail(@)]
    BY <1>17, <2>1 DEF Receive, session, bounds
  <2>3. SavedIsPast' /\ Promised' = Promised
    BY <1>5, <2>2
  <2>4. /\ lastId[t] \in Nat /\ cursor[c] \in Nat /\ wire[c] \in Seq(Items)
        /\ seen[t] \in Seq(Events) /\ lastId[t] = Len(seen[t])
        /\ Abstract!IsBeginning(seen[t], Promised)
        /\ TakesOn(wire[c], lastId[t], cursor[c], Promised)
    BY <1>1, <2>1 DEF OnItsWay, TypeOK
  <2>5. wire'[c] = Tail(wire[c]) /\ live'[t] = c
    BY <2>1, <2>2 DEF TypeOK
  <2>6. \A u \in Tabs : u # t => seen'[u] = seen[u] /\ lastId'[u] = lastId[u]
    BY <1>17 DEF Receive, TypeOK
  <2>7. ASSUME NEW u \in Tabs, u # t PROVE Kept(u)
    <3>1. live[u] # c
      BY <1>1, <2>1, <2>7 DEF LiveIsOwned
    <3>. QED BY <2>2, <2>6, <2>7, <3>1 DEF Kept, TypeOK
  <2>8. CASE Head(wire[c]).seq = 0
    <3>1. UNCHANGED <<lastId, seen>>
      BY <1>17, <2>1, <2>8 DEF Receive
    <3>2. TakesOn(Tail(wire[c]), lastId[t], cursor[c], Promised)
      BY <1>2, <2>2, <2>4, <2>8, WireRead
    <3>3. OnItsWay(t)'
      BY <2>2, <2>3, <2>4, <2>5, <3>1, <3>2 DEF OnItsWay
    <3>. QED BY <1>3, <1>4, <2>3, <2>7, <3>3
  <2>9. CASE Head(wire[c]).seq # 0
    <3>. DEFINE d == Head(wire[c])
                n == Len(seen[t])
    <3>1. /\ d.seq = n + 1 /\ n < Len(Promised) /\ d.event = Promised[n + 1]
          /\ TakesOn(Tail(wire[c]), n + 1, cursor[c], Promised)
      BY <1>2, <2>2, <2>4, <2>9, WireRead
    <3>2. IsNew(t, d.seq)
      BY <2>4, <3>1 DEF IsNew
    <3>3. /\ lastId' = [lastId EXCEPT ![t] = d.seq]
          /\ seen' = [seen EXCEPT ![t] = Append(@, d.event)]
      BY <1>17, <2>1, <2>9, <3>2 DEF Receive
    <3>4. lastId'[t] = n + 1 /\ seen'[t] = Append(seen[t], Promised[n + 1])
      BY <3>1, <3>3 DEF TypeOK
    <3>5. Abstract!IsBeginning(Append(seen[t], Promised[n + 1]), Promised)
      BY <1>2, <2>4, <3>1, BeginningGrows
    <3>6. Len(seen'[t]) = n + 1
      BY <2>4, <3>4
    <3>. HIDE DEF d, n
    <3>7. OnItsWay(t)'
      BY <2>2, <2>3, <2>5, <3>1, <3>4, <3>5, <3>6 DEF OnItsWay
    <3>. QED BY <1>3, <1>4, <2>3, <2>7, <3>7
  <2>. QED BY <2>8, <2>9
<1>. QED BY <1>6, <1>7, <1>8, <1>9, <1>10, <1>11, <1>12, <1>13, <1>14, <1>15, <1>16, <1>17
         DEF Next

LEMMA InitWireInv == Init => WireInv
<1>. SUFFICES ASSUME Init PROVE WireInv
  OBVIOUS
<1>1. TypeOK
  BY InitTypeOK
<1>2. LiveIsOwned /\ FreeIsSilent
  BY DEF Init, LiveIsOwned, FreeIsSilent
<1>3. log \in Seq(Events) /\ saved.log = log
  BY <1>1 DEF Init, Record, TypeOK
<1>4. SavedIsPast
  BY <1>3, BeginsItself DEF SavedIsPast
<1>5. ASSUME NEW t \in Tabs PROVE OnItsWay(t)
  <2>1. lastId[t] = 0 /\ seen[t] = <<>> /\ live[t] = NoConn
    BY DEF Init
  <2>2. Abstract!IsBeginning(<<>>, Promised)
    BY <1>1, PromisedType DEF Abstract!IsBeginning
  <2>. QED BY <2>1, <2>2 DEF OnItsWay
<1>. QED BY <1>2, <1>4, <1>5 DEF WireInv

(***************************************************************************)
(* What every tab has taken and what is on the way to it fit together.     *)
(***************************************************************************)
THEOREM DeliveryInvariant == Spec => []WireInv
<1>1. TypeOK /\ TypeOK' /\ WireInv /\ [Next]_vars => WireInv'
  BY NextLive, NextWireInv DEF WireInv
<1>. QED BY <1>1, InitWireInv, StreamsTypeCorrect, PTL DEF Spec

(***************************************************************************)
(* No tab misses, doubles or reorders an event over any number of          *)
(* reconnections, and no restart takes back what a tab has seen, unless a  *)
(* save had failed before it.                                              *)
(***************************************************************************)
THEOREM NoEventIsTakenBack == Spec => []SeenIsLogged
<1>1. TypeOK /\ WireInv => SeenIsLogged
  <2>. SUFFICES ASSUME TypeOK, WireInv, NoHarm, NEW t \in Tabs
                PROVE  /\ Len(seen[t]) <= Len(log)
                       /\ seen[t] = SubSeq(log, 1, Len(seen[t]))
    BY DEF SeenIsLogged, NoHarm
  <2>1. /\ seen[t] \in Seq(Events) /\ log \in Seq(Events) /\ saved.log \in Seq(Events)
        /\ Promised \in Seq(Events)
    BY DEF TypeOK, Promised
  <2>2. Abstract!IsBeginning(seen[t], Promised)
    BY DEF WireInv, OnItsWay
  <2>3. Abstract!IsBeginning(Promised, log)
    BY <2>1, BeginsItself DEF WireInv, SavedIsPast, Promised
  <2>4. Abstract!IsBeginning(seen[t], log)
    BY <2>1, <2>2, <2>3, BeginsOn
  <2>. QED BY <2>1, <2>4, BeginningIsSubSeq
<1>. QED BY <1>1, DeliveryInvariant, StreamsTypeCorrect, PTL

(***************************************************************************)
(* While no save fails, every step of the session is one of Delivery or    *)
(* changes nothing it speaks of.                                           *)
(***************************************************************************)
LEMMA NextDelivers ==
  ASSUME TypeOK, TypeOK', WireInv, failed = 0, [Next]_vars
  PROVE  [Abstract!Next]_<<saved.log, seen>>
<1>1. SavedIsPast /\ Promised = saved.log /\ \A t \in Tabs : OnItsWay(t)
  BY DEF WireInv, NoHarm, Promised
<1>2. saved.log \in Seq(Events) /\ log \in Seq(Events) /\ Len(saved.log) \in Nat
  BY DEF TypeOK
<1>3. CASE UNCHANGED vars
  BY <1>3 DEF vars, tabs
<1>4. CASE \/ Action \/ Join \/ Restart \/ \E s \in Seats : Abandon(s)
           \/ \E t \in Tabs, c \in Conns : Open(t, c)
           \/ \E c \in Conns : Subscribe(c) \/ Drain(c) \/ WakeUp(c) \/ Leave(c)
           \/ \E t \in Tabs : Drop(t)
  BY <1>4 DEF Action, Join, Restart, Abandon, Open, Subscribe, Drain, WakeUp, Leave,
     Drop, tabs
<1>5. CASE Persist
  <2>1. UNCHANGED seen /\ (saved'.log = log \/ saved'.log = saved.log)
    BY <1>5 DEF Persist, tabs, Record
  <2>2. Abstract!IsBeginning(saved.log, log)
    BY <1>1 DEF SavedIsPast
  <2>. QED BY <2>1, <2>2 DEF Abstract!Next, Abstract!Publish
<1>6. ASSUME NEW t \in Tabs, Reload(t)
      PROVE  Abstract!Apply(t)
  <2>1. Unlocked /\ UNCHANGED saved /\ seen' = [seen EXCEPT ![t] = log]
    BY <1>6 DEF Reload
  <2>2. saved.log = log /\ Abstract!IsBeginning(seen[t], saved.log)
    BY <1>1, <2>1 DEF SavedIsPast, Unlocked, OnItsWay
  <2>3. log = SubSeq(log, 1, Len(log))
    BY <1>2, BeginsItself, BeginningIsSubSeq
  <2>4. Len(log) \in Len(seen[t])..Len(saved.log)
    BY <1>2, <2>2 DEF Abstract!IsBeginning, TypeOK
  <2>. QED BY <2>1, <2>2, <2>3, <2>4 DEF Abstract!Apply
<1>7. ASSUME NEW t \in Tabs, Receive(t)
      PROVE  Abstract!Apply(t) \/ UNCHANGED <<saved.log, seen>>
  <2>1. PICK c \in Conns : c = live[t] /\ c # NoConn
    BY <1>7 DEF Receive, TypeOK
  <2>2. UNCHANGED saved /\ wire[c] # <<>>
    BY <1>7, <2>1 DEF Receive
  <2>3. /\ lastId[t] \in Nat /\ cursor[c] \in Nat /\ wire[c] \in Seq(Items)
        /\ seen[t] \in Seq(Events) /\ lastId[t] = Len(seen[t])
        /\ Abstract!IsBeginning(seen[t], saved.log)
        /\ TakesOn(wire[c], lastId[t], cursor[c], saved.log)
    BY <1>1, <2>1 DEF OnItsWay, TypeOK
  <2>4. CASE Head(wire[c]).seq = 0
    BY <1>7, <2>1, <2>2, <2>4 DEF Receive
  <2>5. CASE Head(wire[c]).seq # 0
    <3>. DEFINE d == Head(wire[c])
                n == Len(seen[t])
    <3>1. d.seq = n + 1 /\ n < Len(saved.log) /\ d.event = saved.log[n + 1]
      BY <1>2, <2>2, <2>3, <2>5, WireRead
    <3>2. IsNew(t, d.seq)
      BY <2>3, <3>1 DEF IsNew
    <3>3. seen' = [seen EXCEPT ![t] = Append(@, d.event)]
      BY <1>7, <2>1, <2>5, <3>2 DEF Receive
    <3>4. Append(seen[t], saved.log[n + 1]) = SubSeq(saved.log, 1, n + 1)
      BY <1>2, <2>3, <3>1, BeginningGrows
    <3>5. seen' = [seen EXCEPT ![t] = SubSeq(saved.log, 1, n + 1)]
      BY <3>1, <3>3, <3>4
    <3>6. n + 1 \in n..Len(saved.log)
      BY <1>2, <2>3, <3>1
    <3>. QED BY <2>2, <2>3, <3>5, <3>6 DEF Abstract!Apply
  <2>. QED BY <2>4, <2>5
<1>. QED BY <1>3, <1>4, <1>5, <1>6, <1>7 DEF Next, Abstract!Next

(***************************************************************************)
(* The refinement: while saves succeed, the session with its streams and   *)
(* its restarts is an implementation of Delivery for the log in the store. *)
(***************************************************************************)
THEOREM StreamsDeliver == MaxFailedSaves = 0 => (Spec => Delivers)
<1>. SUFFICES ASSUME MaxFailedSaves = 0 PROVE Spec => Delivers
  OBVIOUS
<1>1. Init => failed = 0
  BY DEF Init
<1>2. failed = 0 /\ [Next]_vars => (failed = 0)'
  <2>1. CASE Persist
    BY <2>1 DEF Persist
  <2>2. CASE UNCHANGED vars
    BY <2>2 DEF vars, bounds
  <2>3. CASE Next /\ ~ Persist
    BY <2>3 DEF Next, Action, Join, Restart, Abandon, Open, Subscribe, Drain,
       WakeUp, Leave, Receive, Drop, Reload, bounds
  <2>. QED BY <2>1, <2>2, <2>3
<1>3. Init => Abstract!Init
  BY DEF Init, Abstract!Init
<1>4. TypeOK /\ TypeOK' /\ WireInv /\ failed = 0 /\ [Next]_vars
        => [Abstract!Next]_<<saved.log, seen>>
  BY NextDelivers
<1>. QED BY <1>1, <1>2, <1>3, <1>4, DeliveryInvariant, StreamsTypeCorrect, PTL
         DEF Spec, Delivers, Abstract!Spec
=============================================================================

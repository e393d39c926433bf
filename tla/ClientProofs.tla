----------------------------- MODULE ClientProofs -----------------------------
(***************************************************************************)
(* Theorems about Client, for games of any length, any number of broken    *)
(* streams, lost requests, reloads and moves from another tab.             *)
(*                                                                         *)
(* The invariant says that the queue holds the events between what the     *)
(* page has applied and what it has read from the stream, that the wire    *)
(* takes it from there to the stream's cursor, and that whoever asks the   *)
(* player looks at a snapshot that is not behind what is applied.          *)
(***************************************************************************)
EXTENDS Client, TLAPS

Messages1 == [kind : {"players"}, both : BOOLEAN, left : BOOLEAN]
Messages2 == [kind : {"delta"}, seq : Nat \ {0}]
Items == Messages1 \cup Messages2

\* The number of a delta; a roster has none.
Num(m) == IF m.kind = "delta" THEN m.seq ELSE 0

\* The events after the first a, up to number b.
Line(a, b) == [i \in 1..(b - a) |-> a + i]

\* The wire w takes a page that has read the first a events on to the b first.
TakesOn(w, a, b) ==
  /\ a <= b
  /\ \A i \in 1..Len(w) : Num(w[i]) # 0 => a < Num(w[i]) /\ Num(w[i]) <= b
  /\ \A i, j \in 1..Len(w) :
       i < j /\ Num(w[i]) # 0 /\ Num(w[j]) # 0 => Num(w[i]) < Num(w[j])
  /\ \A n \in (a + 1)..b : \E i \in 1..Len(w) : Num(w[i]) = n

Typed ==
  /\ ver \in Nat /\ need \in SUBSET {"me", "opp"} /\ over \in BOOLEAN
  /\ oppHere \in BOOLEAN /\ oppLeft \in BOOLEAN
  /\ open \in BOOLEAN /\ cursor \in Nat /\ wire \in Seq(Items)
  /\ lastId \in Nat /\ applied \in Nat /\ board \in Nat
  /\ page \in {"resuming", "running", "home"} /\ pump \in Pumps
  /\ snap \in [ver : Nat, mine : BOOLEAN, over : BOOLEAN]
  /\ elsewhere \in Nat

InLine ==
  /\ board <= applied /\ applied <= lastId /\ lastId <= ver /\ cursor <= ver
  /\ snap.ver <= ver
  /\ queue = Line(applied, lastId)
  /\ IF open THEN TakesOn(wire, lastId, cursor) ELSE wire = <<>>
  /\ page # "running" => ~open /\ pump = "idle" /\ applied = lastId

Asked ==
  /\ pump \in {"answered", "prompt"} /\ snap.mine /\ elsewhere = 0 => "me" \in need
  /\ pump = "answered" => applied <= snap.ver
  /\ pump = "prompt" => snap.mine /\ applied = snap.ver /\ board = snap.ver

ClientInv == Typed /\ InLine /\ Asked

USE DEF game, opponent, stream, tab, bounds

(***************************************************************************)
(* Wires: what is written after one, and what is read from it.             *)
(***************************************************************************)
LEMMA ItemNumber ==
  ASSUME NEW m \in Items
  PROVE  /\ Num(m) \in Nat
         /\ m.kind = "delta" => Num(m) = m.seq /\ m.seq # 0
         /\ m.kind = "players" => Num(m) = 0
         /\ m.kind \in {"delta", "players"}
BY DEF Items, Messages1, Messages2, Num

LEMMA EmptyWire == ASSUME NEW a \in Nat PROVE TakesOn(<<>>, a, a)
BY DEF TakesOn

\* Two wires, one after the other.
LEMMA WiresJoin ==
  ASSUME NEW w \in Seq(Items), NEW x \in Seq(Items),
         NEW a \in Nat, NEW b \in Nat, NEW c \in Nat,
         TakesOn(w, a, b), TakesOn(x, b, c)
  PROVE  TakesOn(w \o x, a, c)
<1>. DEFINE y == w \o x
<1>1. /\ Len(w) \in Nat /\ Len(x) \in Nat
      /\ y \in Seq(Items) /\ Len(y) = Len(w) + Len(x)
      /\ \A i \in 1..Len(w) : y[i] = w[i]
      /\ \A i \in 1..Len(x) : y[Len(w) + i] = x[i]
  OBVIOUS
<1>2. \A i \in 1..Len(y) : \/ i \in 1..Len(w)
                           \/ i - Len(w) \in 1..Len(x) /\ y[i] = x[i - Len(w)]
  BY <1>1
<1>3. \A i \in 1..Len(y) : Num(y[i]) \in Nat
  BY <1>1, ItemNumber
<1>. HIDE DEF y
<1>4. a <= b /\ b <= c
  BY DEF TakesOn
<1>5. ASSUME NEW i \in 1..Len(y), Num(y[i]) # 0
      PROVE  a < Num(y[i]) /\ Num(y[i]) <= c
  <2>1. CASE i \in 1..Len(w)
    <3>1. a < Num(y[i]) /\ Num(y[i]) <= b
      BY <1>1, <1>5, <2>1 DEF TakesOn
    <3>. QED BY <1>3, <1>4, <3>1
  <2>2. CASE i - Len(w) \in 1..Len(x) /\ y[i] = x[i - Len(w)]
    <3>1. b < Num(y[i]) /\ Num(y[i]) <= c
      BY <1>5, <2>2 DEF TakesOn
    <3>. QED BY <1>3, <1>4, <3>1
  <2>. QED BY <1>2, <2>1, <2>2
<1>6. ASSUME NEW i \in 1..Len(y), NEW j \in 1..Len(y),
             i < j, Num(y[i]) # 0, Num(y[j]) # 0
      PROVE  Num(y[i]) < Num(y[j])
  <2>1. CASE j \in 1..Len(w)
    <3>1. i \in 1..Len(w)
      BY <1>1, <1>6, <2>1
    <3>. QED BY <1>1, <1>6, <2>1, <3>1 DEF TakesOn
  <2>2. CASE i \in 1..Len(w) /\ j - Len(w) \in 1..Len(x) /\ y[j] = x[j - Len(w)]
    <3>1. Num(y[i]) <= b /\ b < Num(y[j])
      BY <1>1, <1>6, <2>2 DEF TakesOn
    <3>. QED BY <1>3, <3>1
  <2>3. CASE /\ i - Len(w) \in 1..Len(x) /\ y[i] = x[i - Len(w)]
             /\ j - Len(w) \in 1..Len(x) /\ y[j] = x[j - Len(w)]
    <3>1. i - Len(w) < j - Len(w)
      BY <1>1, <1>6
    <3>. QED BY <1>6, <2>3, <3>1 DEF TakesOn
  <2>. QED BY <1>2, <2>1, <2>2, <2>3
<1>7. ASSUME NEW n \in (a + 1)..c
      PROVE  \E i \in 1..Len(y) : Num(y[i]) = n
  <2>1. CASE n \in (a + 1)..b
    <3>1. PICK i \in 1..Len(w) : Num(w[i]) = n
      BY <2>1 DEF TakesOn
    <3>. QED BY <1>1, <3>1
  <2>2. CASE n \in (b + 1)..c
    <3>1. PICK i \in 1..Len(x) : Num(x[i]) = n
      BY <2>2 DEF TakesOn
    <3>2. Len(w) + i \in 1..Len(y) /\ y[Len(w) + i] = x[i]
      BY <1>1
    <3>. QED BY <3>1, <3>2
  <2>. QED BY <2>1, <2>2
<1>8. TakesOn(y, a, c)
  BY <1>4, <1>5, <1>6, <1>7 DEF TakesOn
<1>. QED BY <1>8 DEF y

\* A roster takes nobody further.
LEMMA RosterOnly ==
  ASSUME Typed, NEW b \in Nat
  PROVE  <<Roster>> \in Seq(Items) /\ TakesOn(<<Roster>>, b, b)
<1>1. Roster \in Items /\ Num(Roster) = 0
  BY DEF Roster, Items, Messages1, Num, Typed
<1>2. Len(<<Roster>>) = 1 /\ <<Roster>>[1] = Roster /\ <<Roster>> \in Seq(Items)
  BY <1>1
<1>. QED BY <1>1, <1>2 DEF TakesOn

\* What a drain copies takes a page to the last event.
LEMMA CopyTakesOn ==
  ASSUME NEW b \in Nat, NEW v \in Nat, b <= v
  PROVE  /\ [i \in 1..(v - b) |-> Delta(b + i)] \in Seq(Items)
         /\ TakesOn([i \in 1..(v - b) |-> Delta(b + i)], b, v)
<1>. DEFINE x == [i \in 1..(v - b) |-> Delta(b + i)]
<1>1. \A i \in 1..(v - b) : /\ x[i] \in Items /\ Num(x[i]) = b + i
                            /\ b < b + i /\ b + i <= v
  BY DEF Delta, Items, Messages2, Num
<1>2. v - b \in Nat /\ x \in Seq(Items) /\ Len(x) = v - b
  BY <1>1
<1>. HIDE DEF x
<1>3. ASSUME NEW n \in (b + 1)..v PROVE \E i \in 1..Len(x) : Num(x[i]) = n
  <2>1. n - b \in 1..Len(x) /\ b + (n - b) = n
    BY <1>2
  <2>. QED BY <1>1, <1>2, <2>1
<1>4. \A i \in 1..Len(x) : b < Num(x[i]) /\ Num(x[i]) <= v
  BY <1>1, <1>2
<1>5. ASSUME NEW i \in 1..Len(x), NEW j \in 1..Len(x), i < j
      PROVE  Num(x[i]) < Num(x[j])
  BY <1>1, <1>2, <1>5
<1>6. TakesOn(x, b, v)
  BY <1>3, <1>4, <1>5 DEF TakesOn
<1>. QED BY <1>2, <1>6 DEF x

LEMMA WireRead ==
  ASSUME NEW w \in Seq(Items), w # <<>>, NEW a \in Nat, NEW b \in Nat, TakesOn(w, a, b)
  PROVE  /\ Tail(w) \in Seq(Items) /\ Head(w) \in Items
         /\ Head(w).kind = "players" => TakesOn(Tail(w), a, b)
         /\ Head(w).kind = "delta" => /\ Head(w).seq = a + 1 /\ a + 1 <= b
                                      /\ TakesOn(Tail(w), a + 1, b)
<1>. DEFINE x == Tail(w)
<1>1. /\ Len(w) \in Nat \ {0} /\ Head(w) \in Items
      /\ x \in Seq(Items) /\ Len(x) = Len(w) - 1
      /\ \A i \in 1..Len(x) : x[i] = w[i + 1] /\ i + 1 \in 1..Len(w)
      /\ \A i \in 1..Len(w) : i # 1 => i - 1 \in 1..Len(x) /\ x[i - 1] = w[i]
      /\ Head(w) = w[1] /\ 1 \in 1..Len(w)
  OBVIOUS
<1>2. \A i \in 1..Len(w) : Num(w[i]) \in Nat
  BY ItemNumber
<1>. HIDE DEF x
<1>3. a <= b
  BY DEF TakesOn
<1>4. \A i \in 1..Len(x) : Num(x[i]) # 0 => a < Num(x[i]) /\ Num(x[i]) <= b
  BY <1>1 DEF TakesOn
<1>5. ASSUME NEW i \in 1..Len(x), NEW j \in 1..Len(x),
             i < j, Num(x[i]) # 0, Num(x[j]) # 0
      PROVE  Num(x[i]) < Num(x[j])
  BY <1>1, <1>5 DEF TakesOn
<1>6. CASE Head(w).kind = "players"
  <2>1. Num(w[1]) = 0
    BY <1>1, <1>6, ItemNumber
  <2>2. ASSUME NEW n \in (a + 1)..b PROVE \E i \in 1..Len(x) : Num(x[i]) = n
    <3>1. PICK i \in 1..Len(w) : Num(w[i]) = n
      BY DEF TakesOn
    <3>2. i # 1
      BY <2>1, <3>1
    <3>. QED BY <1>1, <3>1, <3>2
  <2>3. TakesOn(x, a, b)
    BY <1>3, <1>4, <1>5, <2>2 DEF TakesOn
  <2>. QED BY <1>1, <1>6, <2>3 DEF x
<1>7. CASE Head(w).kind = "delta"
  <2>1. Num(w[1]) = Head(w).seq /\ Num(w[1]) # 0 /\ Num(w[1]) \in Nat
    BY <1>1, <1>7, ItemNumber
  <2>2. a < Num(w[1]) /\ Num(w[1]) <= b
    BY <1>1, <2>1 DEF TakesOn
  <2>3. PICK k \in 1..Len(w) : Num(w[k]) = a + 1
    <3>1. a + 1 \in (a + 1)..b
      BY <2>1, <2>2
    <3>. QED BY <3>1 DEF TakesOn
  <2>4. k = 1
    <3>. SUFFICES ASSUME k # 1 PROVE FALSE
      OBVIOUS
    <3>1. 1 < k /\ Num(w[k]) # 0
      BY <2>3
    <3>2. Num(w[1]) < Num(w[k])
      BY <1>1, <2>1, <3>1 DEF TakesOn
    <3>. QED BY <2>1, <2>2, <2>3, <3>2
  <2>5. Num(w[1]) = a + 1 /\ a + 1 <= b
    BY <2>2, <2>3, <2>4
  <2>6. ASSUME NEW i \in 1..Len(x), Num(x[i]) # 0
        PROVE  a + 1 < Num(x[i]) /\ Num(x[i]) <= b
    <3>1. i + 1 \in 1..Len(w) /\ x[i] = w[i + 1] /\ 1 < i + 1
      BY <1>1
    <3>2. Num(w[1]) < Num(w[i + 1])
      BY <1>1, <2>1, <2>6, <3>1 DEF TakesOn
    <3>. QED BY <1>4, <2>5, <2>6, <3>1, <3>2
  <2>7. ASSUME NEW n \in ((a + 1) + 1)..b PROVE \E i \in 1..Len(x) : Num(x[i]) = n
    <3>1. n \in (a + 1)..b
      OBVIOUS
    <3>2. PICK i \in 1..Len(w) : Num(w[i]) = n
      BY <3>1 DEF TakesOn
    <3>3. i # 1
      BY <2>5, <3>2
    <3>. QED BY <1>1, <3>2, <3>3
  <2>8. TakesOn(x, a + 1, b)
    BY <2>5, <2>6, <2>7, <1>5 DEF TakesOn
  <2>. QED BY <1>1, <1>7, <2>1, <2>5, <2>8 DEF x
<1>. QED BY <1>1, <1>6, <1>7, ItemNumber DEF x

(***************************************************************************)
(* The pump: what a run of it makes of a queue in line.                    *)
(***************************************************************************)
LEMMA LineGrows ==
  ASSUME NEW a \in Nat, NEW l \in Nat, a <= l
  PROVE  Append(Line(a, l), l + 1) = Line(a, l + 1)
<1>. DEFINE x == Line(a, l)
            y == Append(x, l + 1)
<1>1. l - a \in Nat /\ (l + 1) - a = (l - a) + 1 /\ a + ((l - a) + 1) = l + 1
  OBVIOUS
<1>2. x \in Seq(Nat) /\ Len(x) = l - a /\ \A i \in 1..(l - a) : x[i] = a + i
  BY <1>1 DEF Line
<1>. HIDE DEF x
<1>3. /\ y \in Seq(Nat) /\ Len(y) = (l - a) + 1
      /\ \A i \in 1..(l - a) : y[i] = a + i
      /\ y[(l - a) + 1] = l + 1
  BY <1>1, <1>2
<1>. HIDE DEF y
<1>4. y = [i \in 1..((l - a) + 1) |-> a + i]
  <2>1. y = [i \in 1..((l - a) + 1) |-> y[i]]
    BY <1>3
  <2>2. \A i \in 1..((l - a) + 1) : y[i] = a + i
    BY <1>1, <1>3
  <2>. QED BY <2>1, <2>2
<1>5. y = Line(a, l + 1)
  BY <1>1, <1>4 DEF Line
<1>. QED BY <1>5 DEF y, x

\* At most the next event is applied, and the queue stays in line; the pump
\* does not come to ask the player by itself.
LEMMA RunOnInLine ==
  ASSUME Typed, NEW l \in Nat, applied <= l, NEW b, NEW o, NEW s,
         RunOn(Line(applied, l), b, o, s)
  PROVE  /\ applied' \in {applied, applied + 1} /\ applied' <= l
         /\ queue' = Line(applied', l)
         /\ pump' \in {"final", "animate", "idle", "asking"}
<1>. DEFINE q == Line(applied, l)
<1>1. /\ applied \in Nat /\ l - applied \in Nat /\ q \in Seq(Nat)
      /\ Len(q) = l - applied /\ DOMAIN q = 1..(l - applied)
      /\ \A i \in 1..(l - applied) : q[i] = applied + i
  BY DEF Typed, Line
<1>. HIDE DEF q
<1>2. CASE \E k \in DOMAIN q :
             /\ q[k] > applied /\ \A i \in 1..(k - 1) : q[i] <= applied
             /\ applied' = q[k]
             /\ queue' = SubSeq(q, k + 1, Len(q))
             /\ pump' = IF Won(q[k]) THEN "final" ELSE "animate"
  <2>1. PICK k \in DOMAIN q :
             /\ q[k] > applied /\ \A i \in 1..(k - 1) : q[i] <= applied
             /\ applied' = q[k]
             /\ queue' = SubSeq(q, k + 1, Len(q))
             /\ pump' = IF Won(q[k]) THEN "final" ELSE "animate"
    BY <1>2
  <2>2. k = 1
    <3>. SUFFICES ASSUME k # 1 PROVE FALSE
      OBVIOUS
    <3>1. 1 \in 1..(k - 1) /\ 1 \in 1..(l - applied)
      BY <1>1
    <3>. QED BY <1>1, <2>1, <3>1
  <2>3. applied' = applied + 1 /\ applied' <= l
    BY <1>1, <2>1, <2>2
  <2>4. queue' = SubSeq(q, 2, Len(q))
    BY <2>1, <2>2
  <2>5. SubSeq(q, 2, Len(q)) = [i \in 1..(l - (applied + 1)) |-> (applied + 1) + i]
    <3>1. /\ SubSeq(q, 2, Len(q)) \in Seq(Nat)
          /\ Len(SubSeq(q, 2, Len(q))) = l - (applied + 1)
          /\ \A i \in 1..(l - (applied + 1)) : SubSeq(q, 2, Len(q))[i] = q[i + 1]
      BY <1>1, <2>3
    <3>2. \A i \in 1..(l - (applied + 1)) : q[i + 1] = (applied + 1) + i
      BY <1>1
    <3>. QED BY <3>1, <3>2
  <2>. QED BY <2>1, <2>3, <2>4, <2>5 DEF Line
<1>3. CASE /\ \A i \in DOMAIN q : q[i] <= applied
           /\ queue' = <<>> /\ applied' = applied
           /\ pump' = IF o \/ ~b THEN "idle" ELSE "asking"
  <2>1. l = applied
    <3>. SUFFICES ASSUME l # applied PROVE FALSE
      OBVIOUS
    <3>1. 1 \in 1..(l - applied)
      BY <1>1
    <3>. QED BY <1>1, <1>3, <3>1
  <2>2. Line(applied, l) = <<>>
    BY <1>1, <2>1 DEF Line
  <2>. QED BY <1>1, <1>3, <2>1, <2>2
<1>. QED BY <1>2, <1>3 DEF RunOn, q

LEMMA StartInLine ==
  ASSUME Typed, NEW l \in Nat, applied <= l, NEW b, NEW o, NEW s,
         Start(Line(applied, l), b, o, s)
  PROVE  /\ applied' \in {applied, applied + 1} /\ applied' <= l
         /\ queue' = Line(applied', l)
         /\ \/ pump' \in {"final", "animate", "idle", "asking"}
            \/ pump' = pump /\ applied' = applied
<1>1. applied \in {applied, applied + 1}
  OBVIOUS
<1>. QED BY <1>1, RunOnInLine DEF Start

LEMMA NotPromptedInLine ==
  ASSUME Typed, InLine, NotPrompted
  PROVE  /\ applied' \in {applied, applied + 1} /\ applied' <= lastId
         /\ queue' = Line(applied', lastId)
         /\ pump' \in {"final", "animate", "idle", "asking"}
<1>1. CASE queue # <<>> /\ Continue
  BY <1>1, RunOnInLine DEF Continue, Typed, InLine
<1>2. CASE pump' = "idle" /\ UNCHANGED <<applied, queue>>
  BY <1>2 DEF Typed, InLine
<1>. QED BY <1>1, <1>2 DEF NotPrompted

(***************************************************************************)
(* The invariant, action by action.                                        *)
(***************************************************************************)
LEMMA ViewType == ASSUME Typed PROVE View \in [ver : Nat, mine : BOOLEAN, over : BOOLEAN]
BY DEF View, Typed

LEMMA NoViewType == NoView \in [ver : Nat, mine : BOOLEAN, over : BOOLEAN] /\ NoView.ver = 0
BY DEF NoView

LEMMA MoveFacts ==
  ASSUME Typed, NEW s \in {"me", "opp"}, Move(s)
  PROVE  /\ ver' \in Nat /\ ver <= ver' /\ need' \in SUBSET {"me", "opp"} /\ over' \in BOOLEAN
         /\ s = "opp" /\ "me" \in need => "me" \in need'
BY DEF Move, Typed

\* The game moves on and the page stays as it is, or is less in a hurry.
LEMMA GameMovesOn ==
  ASSUME ClientInv, Typed', ver <= ver',
         UNCHANGED <<lastId, applied, queue, board, wire, open, cursor, page>>,
         \/ UNCHANGED <<pump, snap>>
         \/ pump' \notin {"answered", "prompt"} /\ snap' \in {snap, NoView},
         page # "running" => pump' = pump,
         \/ "me" \in need => "me" \in need'
         \/ pump' \notin {"answered", "prompt"}
         \/ elsewhere' # 0,
         elsewhere' = 0 => elsewhere = 0
  PROVE  ClientInv'
<1>1. InLine'
  BY NoViewType DEF ClientInv, InLine, Typed
<1>2. Asked'
  BY NoViewType DEF ClientInv, Asked, Typed
<1>. QED BY <1>1, <1>2 DEF ClientInv

LEMMA ServerKeeps ==
  ASSUME ClientInv, OpponentMoves \/ MoveElsewhere \/ OpponentComesOrGoes \/ OpponentQuits
  PROVE  ClientInv'
<1>1. CASE OpponentMoves
  <2>1. Typed'
    BY <1>1, MoveFacts DEF OpponentMoves, ClientInv, Typed
  <2>2. ver <= ver' /\ ("me" \in need => "me" \in need')
    BY <1>1, MoveFacts DEF OpponentMoves, ClientInv
  <2>. QED BY <1>1, <2>1, <2>2, GameMovesOn DEF OpponentMoves
<1>2. CASE MoveElsewhere
  <2>1. Typed'
    BY <1>2, MoveFacts DEF MoveElsewhere, ClientInv, Typed
  <2>2. ver <= ver' /\ elsewhere' # 0
    BY <1>2, MoveFacts DEF MoveElsewhere, ClientInv, Typed
  <2>. QED BY <1>2, <2>1, <2>2, GameMovesOn DEF MoveElsewhere
<1>3. CASE OpponentComesOrGoes \/ OpponentQuits
  <2>1. Typed'
    BY <1>3 DEF OpponentComesOrGoes, OpponentQuits, ClientInv, Typed
  <2>. QED BY <1>3, <2>1, GameMovesOn DEF OpponentComesOrGoes, OpponentQuits, ClientInv, Typed
<1>. QED BY <1>1, <1>2, <1>3

\* Only the stream changes.
LEMMA StreamMoves ==
  ASSUME ClientInv, UNCHANGED <<game, opponent, tab, elsewhere>>,
         open' \in BOOLEAN, cursor' \in Nat, cursor' <= ver, wire' \in Seq(Items),
         IF open' THEN TakesOn(wire', lastId, cursor') ELSE wire' = <<>>,
         page # "running" => ~open'
  PROVE  ClientInv'
BY DEF ClientInv, Typed, InLine, Asked

LEMMA EmptyIsNoWire == <<>> \in Seq(Items)
OBVIOUS

LEMMA StreamKeeps ==
  ASSUME ClientInv, Drain \/ Connect \/ Drop
  PROVE  ClientInv'
<1>. USE EmptyIsNoWire
<1>1. CASE Drain
  <2>. DEFINE r == IF owed THEN <<Roster>> ELSE <<>>
              x == [i \in 1..(ver - cursor) |-> Delta(cursor + i)]
  <2>1. /\ open /\ cursor \in Nat /\ ver \in Nat /\ lastId \in Nat /\ cursor <= ver
        /\ wire \in Seq(Items) /\ TakesOn(wire, lastId, cursor) /\ Typed
    BY <1>1 DEF Drain, ClientInv, Typed, InLine
  <2>2. r \in Seq(Items) /\ TakesOn(r, cursor, cursor)
    BY <2>1, RosterOnly, EmptyWire
  <2>3. x \in Seq(Items) /\ TakesOn(x, cursor, ver)
    BY <2>1, CopyTakesOn
  <2>4. /\ wire' = wire \o r \o x /\ cursor' = ver
        /\ UNCHANGED <<game, opponent, open, tab, bounds>>
    BY <1>1 DEF Drain
  <2>. HIDE DEF r, x
  <2>5. wire \o r \in Seq(Items) /\ TakesOn(wire \o r, lastId, cursor)
    BY <2>1, <2>2, WiresJoin
  <2>. DEFINE y == wire \o r
  <2>6. y \o x \in Seq(Items) /\ TakesOn(y \o x, lastId, ver)
    <3>. HIDE DEF y
    <3>1. y \in Seq(Items) /\ TakesOn(y, lastId, cursor)
      BY <2>5 DEF y
    <3>. QED BY <2>1, <2>3, <3>1, WiresJoin
  <2>7. page = "running"
    BY <2>1 DEF ClientInv, InLine
  <2>. QED BY <2>1, <2>4, <2>6, <2>7, StreamMoves
<1>2. CASE Connect
  <2>1. lastId \in Nat /\ lastId <= ver /\ wire = <<>>
    BY <1>2 DEF Connect, ClientInv, Typed, InLine
  <2>. QED BY <1>2, <2>1, EmptyWire, StreamMoves DEF Connect, ResumeFrom
<1>3. CASE Drop
  <2>1. /\ UNCHANGED <<game, opponent, tab, elsewhere>>
        /\ open' = FALSE /\ cursor' = 0 /\ wire' = <<>>
    BY <1>3 DEF Drop, Cut
  <2>2. 0 <= ver
    BY DEF ClientInv, Typed
  <2>. QED BY <2>1, <2>2, StreamMoves
<1>. QED BY <1>1, <1>2, <1>3

\* The pump goes on to an await that is none of a snapshot or a choice.
LEMMA PumpGoesOn ==
  ASSUME ClientInv, page = "running",
         UNCHANGED <<game, opponent, open, cursor, page, elsewhere>>,
         lastId' \in Nat, wire' \in Seq(Items), lastId' <= ver,
         IF open THEN TakesOn(wire', lastId', cursor) ELSE wire' = <<>>,
         applied' \in {applied, applied + 1}, applied' <= lastId',
         queue' = Line(applied', lastId'),
         \/ pump' \in Pumps \ {"answered", "prompt"}
         \/ pump' = pump /\ applied' = applied /\ board' = board,
         board' \in Nat, board' <= applied',
         snap' \in {snap, NoView}, pump' \in {"answered", "prompt"} => snap' = snap
  PROVE  ClientInv'
<1>1. Typed'
  BY NoViewType DEF ClientInv, Typed
<1>2. InLine'
  BY NoViewType DEF ClientInv, Typed, InLine
<1>3. Asked'
  BY DEF ClientInv, Typed, Asked
<1>. QED BY <1>1, <1>2, <1>3 DEF ClientInv

\* What ShownInOrder says of a step.
InOrder ==
  page = "running" /\ page' = "running" /\ reloads' = reloads =>
    applied' \in {applied, applied + 1} /\ board' >= board

LEMMA AnimationKeeps ==
  ASSUME ClientInv, AnimationDone \/ PostAnswered \/ SnapshotFails
  PROVE  ClientInv' /\ InOrder
<1>1. /\ page = "running" /\ UNCHANGED <<game, opponent, stream, page, lastId, elsewhere>>
      /\ Typed /\ InLine
  BY DEF AnimationDone, PostAnswered, SnapshotFails, Running, ClientInv
<1>2. /\ lastId \in Nat /\ wire \in Seq(Items) /\ lastId <= ver
      /\ IF open THEN TakesOn(wire, lastId, cursor) ELSE wire = <<>>
      /\ queue = Line(applied, lastId) /\ applied \in Nat /\ board \in Nat
      /\ board <= applied /\ applied <= lastId
  BY <1>1 DEF Typed, InLine
<1>3. /\ applied' \in {applied, applied + 1} /\ applied' <= lastId
      /\ queue' = Line(applied', lastId)
      /\ pump' \in {"final", "animate", "idle", "asking"}
  <2>1. CASE Continue
    BY <1>1, <1>2, <2>1, RunOnInLine DEF Continue
  <2>2. CASE NotPrompted
    BY <1>1, <2>2, NotPromptedInLine
  <2>. QED BY <2>1, <2>2 DEF AnimationDone, PostAnswered, SnapshotFails
<1>4. /\ board' \in {applied, board} /\ snap' \in {snap, NoView}
      /\ pump' \in Pumps \ {"answered", "prompt"}
  BY <1>3 DEF AnimationDone, PostAnswered, SnapshotFails, Pumps
<1>5. board' \in Nat /\ board' <= applied' /\ board' >= board
  BY <1>2, <1>3, <1>4
<1>6. ClientInv'
  BY <1>1, <1>2, <1>3, <1>4, <1>5, PumpGoesOn
<1>. QED BY <1>3, <1>5, <1>6 DEF InOrder

\* The end is shown, and the stream closed.
LEMMA EndKeeps ==
  ASSUME ClientInv, ShowsEnd PROVE ClientInv' /\ InOrder
<1>1. /\ page = "running"
      /\ UNCHANGED <<game, opponent, page, lastId, applied, queue, snap, elsewhere>>
      /\ open' = FALSE /\ cursor' = 0 /\ wire' = <<>>
      /\ pump' = "idle" /\ board' = applied
  BY DEF ShowsEnd, Running, Ends, Cut
<1>2. Typed'
  BY <1>1, EmptyIsNoWire DEF ClientInv, Typed, Pumps
<1>3. InLine'
  BY <1>1 DEF ClientInv, Typed, InLine
<1>4. Asked'
  BY <1>1 DEF Asked
<1>5. board' >= board
  BY <1>1 DEF ClientInv, Typed, InLine
<1>. QED BY <1>1, <1>2, <1>3, <1>4, <1>5 DEF ClientInv, InOrder

LEMMA ServedKeeps ==
  ASSUME ClientInv, SnapshotServed PROVE ClientInv' /\ InOrder
<1>1. /\ page = "running"
      /\ UNCHANGED <<game, opponent, stream, page, lastId, applied, queue, board, elsewhere>>
      /\ pump' = "answered" /\ snap' = View
  BY DEF SnapshotServed, Running
<1>2. View.ver = ver /\ View.mine = ("me" \in need)
  BY DEF View
<1>3. Typed'
  BY <1>1, ViewType DEF ClientInv, Typed, Pumps
<1>4. InLine'
  BY <1>1, <1>2 DEF ClientInv, Typed, InLine
<1>5. Asked'
  <2>1. /\ need' = need /\ applied' = applied /\ applied <= ver
        /\ snap'.ver = ver /\ snap'.mine = ("me" \in need)
    BY <1>1, <1>2 DEF ClientInv, Typed, InLine
  <2>. QED BY <1>1, <2>1 DEF Asked
<1>6. board' >= board
  BY <1>1 DEF ClientInv, Typed
<1>. QED BY <1>1, <1>3, <1>4, <1>5, <1>6 DEF ClientInv, InOrder

\* The player is asked only of what the snapshot and the board agree on.
LEMMA ArrivesKeeps ==
  ASSUME ClientInv, SnapshotArrives PROVE ClientInv' /\ InOrder
<1>1. /\ page = "running" /\ pump = "answered"
      /\ UNCHANGED <<game, opponent, stream, page, lastId, elsewhere>>
      /\ Typed /\ InLine /\ Asked
  BY DEF SnapshotArrives, Running, ClientInv
<1>2. /\ lastId \in Nat /\ wire \in Seq(Items) /\ lastId <= ver
      /\ IF open THEN TakesOn(wire, lastId, cursor) ELSE wire = <<>>
      /\ queue = Line(applied, lastId) /\ applied \in Nat /\ board \in Nat
      /\ board <= applied /\ applied <= lastId
      /\ snap.ver \in Nat /\ applied <= snap.ver
  BY <1>1 DEF Typed, InLine, Asked
<1>3. board' \in {board, applied} /\ (applied >= snap.ver /\ ~gameOver => board' = applied)
  BY <1>2 DEF SnapshotArrives
<1>4. CASE ~gameOver /\ MayPrompt /\ pump' = "prompt" /\ UNCHANGED <<applied, queue>>
  <2>1. applied = snap.ver /\ snap.mine /\ snap' = snap /\ board' = applied
    BY <1>2, <1>3, <1>4 DEF MayPrompt, SnapshotArrives
  <2>2. Typed'
    BY <1>1, <1>2, <1>4, <2>1 DEF Typed, Pumps
  <2>3. InLine'
    BY <1>1, <1>2, <1>4, <2>1 DEF InLine
  <2>4. Asked'
    BY <1>1, <1>4, <2>1 DEF Asked
  <2>. QED BY <1>2, <1>4, <2>1, <2>2, <2>3, <2>4 DEF ClientInv, InOrder
<1>5. CASE (gameOver \/ ~MayPrompt) /\ NotPrompted
  <2>1. /\ applied' \in {applied, applied + 1} /\ applied' <= lastId
        /\ queue' = Line(applied', lastId)
        /\ pump' \in {"final", "animate", "idle", "asking"}
    BY <1>1, <1>5, NotPromptedInLine
  <2>2. /\ board' \in Nat /\ board' <= applied' /\ board' >= board
        /\ snap' \in {snap, NoView} /\ pump' \in Pumps \ {"answered", "prompt"}
    BY <1>2, <1>3, <1>5, <2>1 DEF SnapshotArrives, Pumps
  <2>3. ClientInv'
    BY <1>1, <1>2, <2>1, <2>2, PumpGoesOn
  <2>. QED BY <2>1, <2>2, <2>3 DEF InOrder
<1>. QED BY <1>4, <1>5 DEF SnapshotArrives

\* The choice, the move and its failure.
LEMMA PostKeeps ==
  ASSUME ClientInv, Choose \/ PostAccepted \/ PostThrows
  PROVE  ClientInv' /\ InOrder
<1>1. /\ page = "running" /\ elsewhere' = elsewhere
      /\ UNCHANGED <<opponent, stream, page, lastId, applied, queue, board>>
      /\ pump' \in {"posting", "posted", "idle"} /\ snap' \in {snap, NoView}
  BY DEF Choose, PostAccepted, PostThrows, Running
<1>2. /\ ver' \in Nat /\ ver <= ver' /\ need' \in SUBSET {"me", "opp"} /\ over' \in BOOLEAN
  <2>1. CASE PostAccepted
    BY <2>1, MoveFacts DEF PostAccepted, ClientInv
  <2>2. CASE Choose \/ PostThrows
    <3>1. UNCHANGED <<ver, need, over>>
      BY <2>2 DEF Choose, PostThrows
    <3>2. ver \in Nat /\ need \in SUBSET {"me", "opp"} /\ over \in BOOLEAN
      BY DEF ClientInv, Typed
    <3>. QED BY <3>1, <3>2
  <2>. QED BY <2>1, <2>2
<1>3. Typed'
  BY <1>1, <1>2, NoViewType DEF ClientInv, Typed, Pumps
<1>4. ClientInv'
  BY <1>1, <1>2, <1>3, GameMovesOn
<1>5. applied' = applied /\ board' >= board
  BY <1>1 DEF ClientInv, Typed
<1>. QED BY <1>4, <1>5 DEF InOrder

\* A delta is read: the next one after those read before.
LEMMA DeltaKeeps ==
  ASSUME ClientInv, TakesDelta PROVE ClientInv' /\ InOrder
<1>1. /\ page = "running" /\ wire # <<>> /\ Head(wire).kind = "delta"
      /\ wire' = Tail(wire) /\ lastId' = Head(wire).seq
      /\ UNCHANGED <<game, opponent, open, cursor, page, snap, board, elsewhere>>
      /\ Typed /\ InLine
  BY DEF TakesDelta, ClientInv
<1>2. /\ open /\ TakesOn(wire, lastId, cursor) /\ wire \in Seq(Items)
      /\ lastId \in Nat /\ cursor \in Nat /\ cursor <= ver /\ ver \in Nat
      /\ queue = Line(applied, lastId) /\ applied \in Nat /\ applied <= lastId
      /\ board \in Nat /\ board <= applied
  BY <1>1 DEF Typed, InLine
<1>3. /\ lastId' = lastId + 1 /\ lastId + 1 <= cursor
      /\ wire' \in Seq(Items) /\ TakesOn(wire', lastId + 1, cursor)
  BY <1>1, <1>2, WireRead
<1>4. Append(queue, Head(wire).seq) = Line(applied, lastId + 1)
  BY <1>1, <1>2, <1>3, LineGrows
<1>5. lastId + 1 \in Nat /\ applied <= lastId + 1 /\ lastId + 1 <= ver
  BY <1>2, <1>3
<1>6. Start(Line(applied, lastId + 1), bothConnected, gameOver, saved)
  BY <1>4 DEF TakesDelta
<1>7. /\ applied' \in {applied, applied + 1} /\ applied' <= lastId + 1
      /\ queue' = Line(applied', lastId + 1)
      /\ \/ pump' \in {"final", "animate", "idle", "asking"}
         \/ pump' = pump /\ applied' = applied
  BY <1>1, <1>2, <1>5, <1>6, StartInLine
<1>8. board' = board /\ board <= applied' /\ board' >= board
  BY <1>1, <1>2, <1>7
<1>9. ClientInv'
  BY <1>1, <1>2, <1>3, <1>5, <1>7, <1>8, PumpGoesOn DEF Pumps
<1>. QED BY <1>7, <1>8, <1>9 DEF InOrder

\* A roster is read: the game goes on, begins to, or ends.
LEMMA RosterKeeps ==
  ASSUME ClientInv, TakesRoster PROVE ClientInv' /\ InOrder
<1>1. /\ page = "running" /\ wire # <<>> /\ Head(wire).kind = "players"
      /\ UNCHANGED <<game, opponent, page, lastId, snap, board, elsewhere>>
      /\ Typed /\ InLine /\ Asked
  BY DEF TakesRoster, ClientInv
<1>2. /\ open /\ TakesOn(wire, lastId, cursor) /\ wire \in Seq(Items)
      /\ lastId \in Nat /\ cursor \in Nat /\ lastId <= ver /\ ver \in Nat
      /\ queue = Line(applied, lastId) /\ applied \in Nat /\ applied <= lastId
      /\ board \in Nat /\ board <= applied
  BY <1>1 DEF Typed, InLine
<1>3. CASE Cut /\ UNCHANGED <<pump, applied, queue>>
  <2>1. Typed'
    BY <1>1, <1>3, EmptyIsNoWire DEF Cut, Typed
  <2>2. InLine'
    BY <1>1, <1>3 DEF Cut, Typed, InLine
  <2>3. Asked'
    BY <1>1, <1>3 DEF Asked
  <2>. QED BY <1>1, <1>2, <1>3, <2>1, <2>2, <2>3 DEF ClientInv, InOrder
<1>4. CASE /\ wire' = Tail(wire) /\ UNCHANGED <<open, cursor>>
           /\ Start(queue, Head(wire).both, gameOver, SavedByRoster(gameOver))
  <2>1. wire' \in Seq(Items) /\ TakesOn(wire', lastId, cursor)
    BY <1>1, <1>2, <1>4, WireRead
  <2>2. /\ applied' \in {applied, applied + 1} /\ applied' <= lastId
        /\ queue' = Line(applied', lastId)
        /\ \/ pump' \in {"final", "animate", "idle", "asking"}
           \/ pump' = pump /\ applied' = applied
    BY <1>1, <1>2, <1>4, StartInLine
  <2>3. board' = board /\ board <= applied' /\ board' >= board
    BY <1>1, <1>2, <2>2
  <2>4. ClientInv'
    BY <1>1, <1>2, <1>4, <2>1, <2>2, <2>3, PumpGoesOn DEF Pumps
  <2>. QED BY <2>2, <2>3, <2>4 DEF InOrder
<1>5. \/ Cut /\ UNCHANGED <<pump, applied, queue>>
      \/ /\ wire' = Tail(wire) /\ UNCHANGED <<open, cursor>>
         /\ Start(queue, Head(wire).both, gameOver, SavedByRoster(gameOver))
  BY DEF TakesRoster, Ends
<1>. QED BY <1>3, <1>4, <1>5

\* A new page, or none.
LEMMA PageKeeps ==
  ASSUME ClientInv, Reload \/ Quit \/ Resumes \/ ResumeFails
  PROVE  ClientInv' /\ InOrder
<1>1. CASE Reload \/ Quit
  <2>1. /\ page' \in {"resuming", "home"} /\ UNCHANGED <<game, opponent, elsewhere>>
        /\ queue' = <<>> /\ pump' = "idle" /\ snap' = NoView
        /\ applied' = 0 /\ board' = 0 /\ lastId' = 0
        /\ open' = FALSE /\ cursor' = 0 /\ wire' = <<>>
    BY <1>1 DEF Reload, Quit, Fresh, Cut
  <2>2. Line(0, 0) = <<>>
    BY DEF Line
  <2>3. Typed'
    BY <2>1, NoViewType, EmptyIsNoWire DEF ClientInv, Typed, Pumps
  <2>4. InLine'
    BY <2>1, <2>2, NoViewType DEF ClientInv, Typed, InLine
  <2>5. Asked'
    BY <2>1 DEF Asked
  <2>. QED BY <2>1, <2>3, <2>4, <2>5 DEF ClientInv, InOrder
<1>2. CASE Resumes \/ ResumeFails
  <2>1. /\ page = "resuming" /\ page' \in {"running", "home"}
        /\ UNCHANGED <<game, opponent, stream, queue, pump, snap, elsewhere>>
        /\ \/ applied' = ver /\ board' = ver /\ lastId' = ver
           \/ UNCHANGED <<applied, board, lastId>>
    BY <1>2 DEF Resumes, ResumeFails
  <2>2. /\ pump = "idle" /\ applied = lastId /\ ~open /\ wire = <<>>
        /\ queue = Line(applied, lastId)
    BY <2>1 DEF ClientInv, InLine
  <2>3. queue = Line(ver, ver)
    BY <2>2 DEF Line, ClientInv, Typed
  <2>4. Typed'
    BY <2>1 DEF ClientInv, Typed
  <2>5. InLine'
    <3>1. ver \in Nat /\ cursor <= ver /\ snap.ver <= ver /\ lastId <= ver /\ applied <= lastId
          /\ board <= applied
      BY DEF ClientInv, Typed, InLine
    <3>2. queue' = Line(applied', lastId') /\ applied' = lastId'
      <4>1. CASE applied' = ver /\ board' = ver /\ lastId' = ver
        BY <2>1, <2>2, <2>3, <4>1
      <4>2. CASE UNCHANGED <<applied, board, lastId>>
        BY <2>1, <2>2, <4>2
      <4>. QED BY <2>1, <4>1, <4>2
    <3>3. board' <= applied' /\ applied' <= lastId' /\ lastId' <= ver'
      BY <2>1, <3>1
    <3>4. cursor' <= ver' /\ snap'.ver <= ver'
      BY <2>1, <3>1
    <3>5. ~open' /\ wire' = <<>> /\ pump' = "idle"
      BY <2>1, <2>2
    <3>. QED BY <3>2, <3>3, <3>4, <3>5 DEF InLine
  <2>6. Asked'
    BY <2>1, <2>2 DEF Asked
  <2>. QED BY <2>1, <2>4, <2>5, <2>6 DEF ClientInv, InOrder
<1>. QED BY <1>1, <1>2

LEMMA ClientInit == Init => ClientInv
<1>. SUFFICES ASSUME Init PROVE ClientInv
  OBVIOUS
<1>1. Line(0, 0) = <<>>
  BY DEF Line
<1>2. Typed
  BY NoViewType, EmptyIsNoWire DEF Init, Typed, Pumps
<1>3. InLine
  BY <1>1, NoViewType DEF Init, InLine
<1>4. Asked
  BY DEF Init, Asked
<1>. QED BY <1>2, <1>3, <1>4 DEF ClientInv

LEMMA ClientStep == ClientInv /\ [Next]_vars => ClientInv' /\ InOrder
<1>. SUFFICES ASSUME ClientInv, [Next]_vars PROVE ClientInv' /\ InOrder
  OBVIOUS
<1>1. applied \in {applied, applied + 1} /\ board >= board
  BY DEF ClientInv, Typed
<1>2. CASE UNCHANGED tab /\ ClientInv'
  BY <1>1, <1>2 DEF InOrder
<1>3. CASE OpponentMoves \/ MoveElsewhere \/ OpponentComesOrGoes \/ OpponentQuits
  <2>1. UNCHANGED tab
    BY <1>3 DEF OpponentMoves, MoveElsewhere, OpponentComesOrGoes, OpponentQuits
  <2>. QED BY <1>2, <1>3, <2>1, ServerKeeps
<1>4. CASE Drain \/ Connect \/ Drop
  <2>1. UNCHANGED tab
    BY <1>4 DEF Drain, Connect, Drop
  <2>. QED BY <1>2, <1>4, <2>1, StreamKeeps
<1>5. CASE UNCHANGED vars
  <2>1. ClientInv'
    BY <1>5 DEF vars, ClientInv, Typed, InLine, Asked
  <2>. QED BY <1>2, <1>5, <2>1 DEF vars
<1>6. CASE Awaited
  BY <1>6, AnimationKeeps, EndKeeps, ServedKeeps, ArrivesKeeps, PostKeeps, PageKeeps DEF Awaited
<1>7. CASE Messages
  BY <1>7, DeltaKeeps, RosterKeeps DEF Messages
<1>8. CASE SnapshotFails \/ PostThrows \/ Choose \/ Reload \/ ResumeFails \/ Quit
  BY <1>8, AnimationKeeps, PostKeeps, PageKeeps
<1>. QED BY <1>3, <1>4, <1>5, <1>6, <1>7, <1>8 DEF Next

\* The invariant of the page.
THEOREM PageInvariant == Spec => []ClientInv
<1>1. ClientInv /\ [Next]_vars => ClientInv'
  BY ClientStep
<1>. QED BY <1>1, ClientInit, PTL DEF Spec

\* The player is asked in turn and on a board that shows what the question is
\* about, whatever arrives while the page waits for an answer.
THEOREM AskedInTurn == Spec => []PromptedInTurn
<1>1. ClientInv => PromptedInTurn
  BY DEF ClientInv, Asked, PromptedInTurn
<1>. QED BY <1>1, PageInvariant, PTL

\* Over any number of breaks and resumptions of its stream a page applies
\* every event after those it began with, once and in order.
THEOREM EventsAreShownInOrder == Spec => ShownInOrder
<1>1. ClientInv /\ [Next]_vars =>
        [page = "running" /\ page' = "running" /\ reloads' = reloads =>
           applied' \in {applied, applied + 1} /\ board' >= board]_vars
  BY ClientStep DEF InOrder
<1>. QED BY <1>1, PageInvariant, PTL DEF Spec, ShownInOrder
=============================================================================

---------------------------- MODULE StoresProofs ----------------------------
(***************************************************************************)
(* The stores, in memory and in Postgres.  Accounts: the two stores answer *)
(* alike, for every set of lower-case names, every time to live and any    *)
(* number of accounts, sessions and tokens, until two accounts have        *)
(* addresses that only folding equates.  Results: the pages read from      *)
(* the record of finished games add up and are the same over either store, *)
(* for any number of games, accounts, outcomes and attempts, and a seat's  *)
(* token and its player's cookie open the same game.                       *)
(***************************************************************************)
EXTENDS AuthStores, Results, FiniteSetTheorems, WellFoundedInduction, TLAPS

Inv == TypeOK /\ StoresInv

\* A username has no letter that only folding equates with another.
LEMMA NamesFold ==
  ASSUME NEW n \in Names, NEW m \in Names PROVE EqualFold(n, m) <=> n = m
<1>1. ASSUME NEW t \in Names PROVE Folded(t) = t
  <2>1. /\ t = ToLower(t)
        /\ \A i \in DOMAIN t : t[i] \in {"a", "b", "A", "B", "1"}
    BY NamesAssumption DEF ValidUsername
  <2>2. \A i \in DOMAIN t : FoldChar(t[i]) = LowerChar(t[i])
    BY <2>1 DEF FoldChar
  <2>3. Folded(t) = ToLower(t)
    BY <2>2 DEF Folded, ToLower
  <2> QED
    BY <2>1, <2>3
<1> QED
  BY <1>1 DEF EqualFold

\* What each store compares when somebody signs up; and as long as there are
\* no look-alikes in Postgres, the new account included, the two agree.
LEMMA CreateUserAgrees ==
  ASSUME Inv, NEW n \in Names, NEW e \in Emails,
         NEW u, u = [id |-> id, name |-> n, email |-> e, hash |-> id]
  PROVE  /\ PgRow(u) = u
         /\ PgTaken(pg, u) <=> \E v \in pg.users : v.name = n \/ v.email = e
         /\ MemTaken(mem, u) <=> \E v \in mem.users : v.name = n \/ EqualFold(v.email, e)
<1>1. ToLower(n) = n /\ ToLower(e) = e
  BY NamesAssumption
<1>2. PgRow(u) = u
  <2>1. u.name = n /\ u.email = e
    OBVIOUS
  <2>2. PgRow(u) = [u EXCEPT !.name = n, !.email = e]
    BY <1>1, <2>1 DEF PgRow
  <2>3. [u EXCEPT !.name = n, !.email = e] = u
    <3> DEFINE T == [id : {id}, name : {n}, email : {e}, hash : {id}]
    <3>1. u \in T
      OBVIOUS
    <3>2. \A v \in T : [v EXCEPT !.name = n, !.email = e] = v
      OBVIOUS
    <3>3. QED
      BY <3>1, <3>2
  <2>4. QED
    BY <2>2, <2>3
<1>3. \A v \in pg.users \cup mem.users : v.id # id /\ v.name \in Names
  BY DEF Inv, TypeOK, StoresInv, Stores, UserRows
<1>4. PgTaken(pg, u) <=> \E v \in pg.users : v.name = n \/ v.email = e
  BY <1>2, <1>3 DEF PgTaken
<1>5. MemTaken(mem, u) <=> \E v \in mem.users : v.name = n \/ EqualFold(v.email, e)
  <2>1. u.name = n /\ u.email = e
    OBVIOUS
  <2>2. \A v \in mem.users : EqualFold(v.name, n) <=> v.name = n
    BY <1>3, NamesFold
  <2> QED
    BY <2>1, <2>2 DEF MemTaken
<1>6. QED
  BY <1>2, <1>4, <1>5

\* Every call preserves the invariant.
LEMMA InvInductive == Inv /\ [Next]_vars => Inv'
<1> SUFFICES ASSUME Inv, [Next]_vars PROVE Inv'
  OBVIOUS
<1>t. pg \in Stores /\ mem \in Stores /\ now \in Nat /\ id \in Nat \ {0}
  BY DEF Inv, TypeOK
<1>0. \A u \in pg.users \cup mem.users : u.id < id /\ u.id \in 1..MaxId
  BY DEF Inv, TypeOK, StoresInv, Stores, UserRows
<1>1. CASE CreateUser
  <2>1. PICK n \in Names, e \in Emails :
          LET u == [id |-> id, name |-> n, email |-> e, hash |-> id]
          IN pg' = PgCreateUser(pg, u) /\ mem' = MemCreateUser(mem, u)
    BY <1>1 DEF CreateUser
  <2> DEFINE u == [id |-> id, name |-> n, email |-> e, hash |-> id]
  <2>2. id <= MaxId /\ id' = id + 1 /\ now' = now
    BY <1>1 DEF CreateUser, NewId
  <2>3. u \in UserRows
    BY <1>t, <2>2, BoundsAssumption DEF UserRows
  <2>4. /\ PgRow(u) = u
        /\ PgTaken(pg, u) <=> \E v \in pg.users : v.name = n \/ v.email = e
        /\ MemTaken(mem, u) <=> \E v \in mem.users : v.name = n \/ EqualFold(v.email, e)
    BY CreateUserAgrees
  <2>5. /\ pg'.users = (IF PgTaken(pg, u) THEN pg.users ELSE pg.users \cup {u})
        /\ pg'.sessions = pg.sessions /\ pg'.resets = pg.resets /\ pg' \in Stores
    <3>1. pg' = IF PgTaken(pg, u) THEN pg ELSE [pg EXCEPT !.users = pg.users \cup {u}]
      BY <2>1, <2>4 DEF PgCreateUser, InsertUser
    <3> QED
      BY <3>1, <2>3, <1>t DEF Stores
  <2>6. /\ mem'.users = (IF MemTaken(mem, u) THEN mem.users ELSE mem.users \cup {u})
        /\ mem'.sessions = mem.sessions /\ mem'.resets = mem.resets /\ mem' \in Stores
    <3>1. mem' = IF MemTaken(mem, u) THEN mem ELSE [mem EXCEPT !.users = mem.users \cup {u}]
      BY <2>1 DEF MemCreateUser, InsertUser
    <3> QED
      BY <3>1, <2>3, <1>t DEF Stores
  <2>7. ASSUME NoLookAlikes' PROVE pg'.users = mem'.users
    <3>1. pg.users \subseteq pg'.users
      BY <2>5
    <3>2. NoLookAlikes
      BY <2>7, <3>1 DEF NoLookAlikes
    <3>3. pg.users = mem.users
      BY <3>2 DEF Inv, StoresInv
    <3>4. CASE PgTaken(pg, u)
      <4>1. MemTaken(mem, u)
        BY <2>4, <3>3, <3>4 DEF EqualFold
      <4> QED
        BY <2>5, <2>6, <3>3, <3>4, <4>1
    <3>5. CASE ~PgTaken(pg, u)
      <4>1. u \in pg'.users /\ u.email = e
        BY <2>5, <3>5
      <4>2. \A v \in pg.users : v.name # n /\ v.email # e /\ ~LooksLike(v.email, e)
        BY <2>4, <2>7, <3>1, <3>5, <4>1 DEF NoLookAlikes
      <4>3. ~MemTaken(mem, u)
        BY <2>4, <3>3, <4>2 DEF LooksLike
      <4> QED
        BY <2>5, <2>6, <3>3, <3>5, <4>3
    <3> QED
      BY <3>4, <3>5
  <2>8. NamesAreUnique'
    <3>1. u.id = id /\ u.name = n /\ u.email = e
      OBVIOUS
    <3>2. \A v \in pg.users \cup mem.users : v.id # id
      BY <1>0, <1>t DEF Inv, TypeOK, Stores, UserRows
    <3>3. \A v, w \in pg'.users : v.name = w.name \/ v.email = w.email \/ v.id = w.id => v = w
      <4>1. \A v, w \in pg.users : v.name = w.name \/ v.email = w.email \/ v.id = w.id => v = w
        BY DEF Inv, StoresInv, NamesAreUnique
      <4>2. ~PgTaken(pg, u) => \A v \in pg.users : v.name # n /\ v.email # e
        BY <2>4
      <4> HIDE DEF u
      <4> QED
        BY <2>5, <3>1, <3>2, <4>1, <4>2
    <3>4. \A v, w \in mem'.users : v.name = w.name \/ v.email = w.email \/ v.id = w.id => v = w
      <4>1. \A v, w \in mem.users : v.name = w.name \/ v.email = w.email \/ v.id = w.id => v = w
        BY DEF Inv, StoresInv, NamesAreUnique
      <4>2. ~MemTaken(mem, u) => \A v \in mem.users : v.name # n /\ v.email # e
        BY <2>4 DEF EqualFold
      <4> HIDE DEF u
      <4> QED
        BY <2>6, <3>1, <3>2, <4>1, <4>2
    <3> QED
      BY <3>3, <3>4 DEF NamesAreUnique
  <2>9. \A v \in pg'.users \cup mem'.users : v.id < id'
    <3>1. u.id < id' /\ \A v \in pg.users \cup mem.users : v.id < id'
      BY <1>0, <1>t, <2>2
    <3> HIDE DEF u
    <3> QED
      BY <2>5, <2>6, <3>1
  <2>10. StoresInv'
    BY <2>2, <2>5, <2>6, <2>7, <2>8, <2>9 DEF Inv, StoresInv, Fresh
  <2>11. TypeOK'
    BY <2>2, <2>5, <2>6, <1>t DEF TypeOK
  <2>12. QED
    BY <2>10, <2>11 DEF Inv
<1>2. CASE CreateSession
  <2>1. PICK u \in pg.users :
          LET s == [id |-> id, user |-> u.id, exp |-> now + SessionTTL]
          IN pg' = InsertSession(pg, s) /\ mem' = InsertSession(mem, s)
    BY <1>2 DEF CreateSession
  <2> DEFINE s == [id |-> id, user |-> u.id, exp |-> now + SessionTTL]
  <2>2. id <= MaxId /\ id' = id + 1 /\ now' = now
    BY <1>2 DEF CreateSession, NewId
  <2>3. s \in Tokens
    BY <1>t, <1>0, <2>2, BoundsAssumption, TTLAssumption DEF Tokens
  <2>4. /\ pg' = [pg EXCEPT !.sessions = pg.sessions \cup {s}]
        /\ mem' = [mem EXCEPT !.sessions = mem.sessions \cup {s}]
    BY <2>1 DEF InsertSession
  <2>5. /\ pg'.users = pg.users /\ pg'.sessions = pg.sessions \cup {s}
        /\ pg'.resets = pg.resets
        /\ mem'.users = mem.users /\ mem'.sessions = mem.sessions \cup {s}
        /\ mem'.resets = mem.resets /\ pg' \in Stores /\ mem' \in Stores
    BY <2>4, <2>3, <1>t DEF Stores
  <2>6. QED
    BY <2>5, <2>2, <1>t, <1>0 DEF Inv, TypeOK, StoresInv, NoLookAlikes, NamesAreUnique, Fresh
<1>3. CASE CreateResetToken
  <2>1. PICK u \in pg.users :
          LET s == [id |-> id, user |-> u.id, exp |-> now + ResetTTL]
          IN pg' = InsertReset(pg, s) /\ mem' = InsertReset(mem, s)
    BY <1>3 DEF CreateResetToken
  <2> DEFINE s == [id |-> id, user |-> u.id, exp |-> now + ResetTTL]
  <2>2. id <= MaxId /\ id' = id + 1 /\ now' = now
    BY <1>3 DEF CreateResetToken, NewId
  <2>3. s \in Tokens
    BY <1>t, <1>0, <2>2, BoundsAssumption, TTLAssumption DEF Tokens
  <2>4. /\ pg' = [pg EXCEPT !.resets = pg.resets \cup {s}]
        /\ mem' = [mem EXCEPT !.resets = mem.resets \cup {s}]
    BY <2>1 DEF InsertReset
  <2>5. /\ pg'.users = pg.users /\ pg'.sessions = pg.sessions
        /\ pg'.resets = pg.resets \cup {s}
        /\ mem'.users = mem.users /\ mem'.sessions = mem.sessions
        /\ mem'.resets = mem.resets \cup {s} /\ pg' \in Stores /\ mem' \in Stores
    BY <2>4, <2>3, <1>t DEF Stores
  <2>6. QED
    BY <2>5, <2>2, <1>t, <1>0 DEF Inv, TypeOK, StoresInv, NoLookAlikes, NamesAreUnique, Fresh
<1>4. CASE UpdatePassword
  <2>1. PICK w \in pg.users :
          pg' = SetPassword(pg, w.id, id) /\ mem' = SetPassword(mem, w.id, id)
    BY <1>4 DEF UpdatePassword
  <2>2. id <= MaxId /\ id' = id + 1 /\ now' = now
    BY <1>4 DEF UpdatePassword, NewId
  <2> DEFINE New(u) == IF u.id = w.id THEN [u EXCEPT !.hash = id] ELSE u
  <2>3. \A u \in pg.users \cup mem.users :
          /\ New(u) \in UserRows /\ New(u).id = u.id
          /\ New(u).name = u.name /\ New(u).email = u.email
    BY <1>t, <2>2, BoundsAssumption DEF Stores, UserRows
  <2>4. /\ pg' = [pg EXCEPT !.users = {New(u) : u \in pg.users}]
        /\ mem' = [mem EXCEPT !.users = {New(u) : u \in mem.users}]
    BY <2>1 DEF SetPassword
  <2>5. /\ pg'.users = {New(u) : u \in pg.users} /\ mem'.users = {New(u) : u \in mem.users}
        /\ pg'.sessions = pg.sessions /\ mem'.sessions = mem.sessions
        /\ pg'.resets = pg.resets /\ mem'.resets = mem.resets
        /\ pg' \in Stores /\ mem' \in Stores
    BY <2>3, <2>4, <1>t DEF Stores
  <2> HIDE DEF New
  <2>6. \A db \in {pg, mem} : \A u, v \in db.users :
          u.name = v.name \/ u.email = v.email \/ u.id = v.id => u = v
    BY DEF Inv, StoresInv, NamesAreUnique
  <2>7. \A u, v \in pg'.users : u.name = v.name \/ u.email = v.email \/ u.id = v.id => u = v
    BY <2>3, <2>5, <2>6
  <2>8. \A u, v \in mem'.users : u.name = v.name \/ u.email = v.email \/ u.id = v.id => u = v
    BY <2>3, <2>5, <2>6
  <2>9. \A u \in pg'.users \cup mem'.users : u.id < id'
    <3>1. \A u \in pg.users \cup mem.users : New(u).id < id'
      BY <2>2, <2>3, <1>0, <1>t
    <3>2. QED
      BY <2>5, <3>1
  <2>10. NoLookAlikes' => NoLookAlikes
    BY <2>3, <2>5 DEF NoLookAlikes
  <2>11. NoLookAlikes' => pg'.users = mem'.users
    BY <2>5, <2>10 DEF Inv, StoresInv
  <2>12. StoresInv'
    BY <2>2, <2>5, <2>7, <2>8, <2>9, <2>11 DEF Inv, StoresInv, NoLookAlikes, NamesAreUnique, Fresh
  <2>13. QED
    BY <2>2, <2>5, <2>12, <1>t DEF Inv, TypeOK
<1>5. CASE LogOut
  <2>1. PICK r : pg' = DeleteSession(pg, r.id) /\ mem' = DeleteSession(mem, r.id)
    BY <1>5 DEF LogOut
  <2>2. now' = now /\ id' = id
    BY <1>5 DEF LogOut
  <2>3. /\ pg' = [pg EXCEPT !.sessions = {s \in pg.sessions : s.id # r.id}]
        /\ mem' = [mem EXCEPT !.sessions = {s \in mem.sessions : s.id # r.id}]
    BY <2>1 DEF DeleteSession
  <2>4. /\ pg'.users = pg.users /\ pg'.sessions = {s \in pg.sessions : s.id # r.id}
        /\ pg'.resets = pg.resets
        /\ mem'.users = mem.users /\ mem'.sessions = {s \in mem.sessions : s.id # r.id}
        /\ mem'.resets = mem.resets /\ pg' \in Stores /\ mem' \in Stores
    BY <2>3, <1>t DEF Stores
  <2>5. QED
    BY <2>4, <2>2, <1>t, <1>0 DEF Inv, TypeOK, StoresInv, NoLookAlikes, NamesAreUnique, Fresh
<1>6. CASE LogOutEverywhere
  <2>1. PICK r \in pg.users : /\ pg' = DeleteSessionsForUser(pg, r.id)
                              /\ mem' = DeleteSessionsForUser(mem, r.id)
    BY <1>6 DEF LogOutEverywhere
  <2>2. now' = now /\ id' = id
    BY <1>6 DEF LogOutEverywhere
  <2>3. /\ pg' = [pg EXCEPT !.sessions = {s \in pg.sessions : s.user # r.id}]
        /\ mem' = [mem EXCEPT !.sessions = {s \in mem.sessions : s.user # r.id}]
    BY <2>1 DEF DeleteSessionsForUser
  <2>4. /\ pg'.users = pg.users /\ pg'.sessions = {s \in pg.sessions : s.user # r.id}
        /\ pg'.resets = pg.resets
        /\ mem'.users = mem.users /\ mem'.sessions = {s \in mem.sessions : s.user # r.id}
        /\ mem'.resets = mem.resets /\ pg' \in Stores /\ mem' \in Stores
    BY <2>3, <1>t DEF Stores
  <2>5. QED
    BY <2>4, <2>2, <1>t, <1>0 DEF Inv, TypeOK, StoresInv, NoLookAlikes, NamesAreUnique, Fresh
<1>7. CASE SpendToken
  <2>1. PICK r : pg' = DeleteReset(pg, r.id) /\ mem' = DeleteReset(mem, r.id)
    BY <1>7 DEF SpendToken
  <2>2. now' = now /\ id' = id
    BY <1>7 DEF SpendToken
  <2>3. /\ pg' = [pg EXCEPT !.resets = {s \in pg.resets : s.id # r.id}]
        /\ mem' = [mem EXCEPT !.resets = {s \in mem.resets : s.id # r.id}]
    BY <2>1 DEF DeleteReset
  <2>4. /\ pg'.users = pg.users /\ pg'.resets = {s \in pg.resets : s.id # r.id}
        /\ pg'.sessions = pg.sessions
        /\ mem'.users = mem.users /\ mem'.resets = {s \in mem.resets : s.id # r.id}
        /\ mem'.sessions = mem.sessions /\ pg' \in Stores /\ mem' \in Stores
    BY <2>3, <1>t DEF Stores
  <2>5. QED
    BY <2>4, <2>2, <1>t, <1>0 DEF Inv, TypeOK, StoresInv, NoLookAlikes, NamesAreUnique, Fresh
<1>8. CASE ReapExpired
  <2>1. now' = now /\ id' = id /\ pg' = PgReap(pg, now) /\ mem' = MemReap(mem, now)
    BY <1>8 DEF ReapExpired
  <2>2. /\ pg'.users = pg.users /\ mem'.users = mem.users
        /\ pg'.sessions = PgReaped(pg.sessions, now) /\ pg'.resets = PgReaped(pg.resets, now)
        /\ mem'.sessions = MemReaped(mem.sessions, now) /\ mem'.resets = MemReaped(mem.resets, now)
        /\ pg' \in Stores /\ mem' \in Stores
    BY <2>1, <1>t DEF PgReap, MemReap, PgReaped, MemReaped, Stores
  <2>3. \A r \in Tokens : r.exp > now => ~(r.exp < now)
    BY <1>t DEF Tokens
  <2>4. pg.sessions \subseteq Tokens /\ pg.resets \subseteq Tokens
    BY <1>t DEF Stores
  <2>5. QED
    BY <2>1, <2>2, <2>3, <2>4, <1>t, <1>0
    DEF Inv, TypeOK, StoresInv, NoLookAlikes, NamesAreUnique, Fresh, PgReaped, MemReaped
<1>9. CASE Tick
  <2>1. now' = now + 1 /\ id' = id /\ pg' = pg /\ mem' = mem
    BY <1>9 DEF Tick
  <2>2. \A r \in Tokens : r.exp > now + 1 => r.exp > now
    BY <1>t DEF Tokens
  <2>3. pg.sessions \subseteq Tokens /\ pg.resets \subseteq Tokens
    BY <1>t DEF Stores
  <2>4. QED
    BY <2>1, <2>2, <2>3, <1>t, <1>0 DEF Inv, TypeOK, StoresInv, NoLookAlikes, NamesAreUnique, Fresh
<1>10. CASE UNCHANGED vars
  BY <1>10 DEF vars, Inv, TypeOK, StoresInv, NoLookAlikes, NamesAreUnique, Fresh
<1>11. QED
  BY <1>1, <1>2, <1>3, <1>4, <1>5, <1>6, <1>7, <1>8, <1>9, <1>10 DEF Next

LEMMA InvImpliesAnswers == Inv => SameAnswers
<1> SUFFICES ASSUME Inv PROVE SameAnswers
  OBVIOUS
<1>1. \A u \in pg.users \cup mem.users : ToLower(u.name) = u.name /\ ToLower(u.email) = u.email
  BY NamesAssumption DEF Inv, TypeOK, Stores, UserRows
<1>2. NoLookAlikes => pg.users = mem.users
  BY DEF Inv, StoresInv
<1>3. ASSUME NoLookAlikes, NEW t \in Texts, \A u \in pg.users : ~LooksLike(u.name, t)
      PROVE  PgByName(pg, t) = MemByName(mem, t)
  <2>1. ToLower(t) = t
    BY NamesAssumption
  <2>2. \A u \in pg.users : EqualFold(u.name, t) <=> u.name = t
    BY <1>3 DEF LooksLike, EqualFold
  <2> QED
    BY <1>2, <1>3, <2>1, <2>2 DEF PgByName, MemByName
<1>4. ASSUME NoLookAlikes, NEW t \in Texts, \A u \in pg.users : ~LooksLike(u.email, t)
      PROVE  PgByEmail(pg, t) = MemByEmail(mem, t)
  <2>1. ToLower(t) = t
    BY NamesAssumption
  <2>2. \A u \in pg.users : EqualFold(u.email, t) <=> u.email = t
    BY <1>4 DEF LooksLike, EqualFold
  <2> QED
    BY <1>2, <1>4, <2>1, <2>2 DEF PgByEmail, MemByEmail
<1>5. Fresh(pg.sessions, now) = Fresh(mem.sessions, now)
  BY DEF Inv, StoresInv, Fresh
<1>6. Fresh(pg.resets, now) = Fresh(mem.resets, now)
  BY DEF Inv, StoresInv, Fresh
<1>7. \A i : /\ Fresh(ById(pg.sessions, i), now) = Fresh(ById(mem.sessions, i), now)
             /\ Fresh(ById(pg.resets, i), now) = Fresh(ById(mem.resets, i), now)
  BY <1>5, <1>6 DEF Fresh, ById
<1>8. QED
  BY <1>2, <1>3, <1>4, <1>7 DEF SameAnswers

LEMMA InitInv == Init => Inv
<1> SUFFICES ASSUME Init PROVE Inv
  OBVIOUS
<1>1. pg = NoRows /\ mem = NoRows /\ now = 0 /\ id = 1
  BY DEF Init
<1>2. NoRows \in Stores /\ NoRows.users = {} /\ NoRows.sessions = {} /\ NoRows.resets = {}
  BY DEF NoRows, Stores
<1>3. QED
  BY <1>1, <1>2 DEF Inv, TypeOK, StoresInv, NamesAreUnique, Fresh

\* Handlers cannot tell the stores apart but by addresses that look alike:
\* the tests that run in memory say something about the accounts in the
\* database.
THEOREM StoresAgree == Spec => []SameAnswers
<1>1. Init => Inv
  BY InitInv
<1>2. Inv /\ [Next]_vars => Inv'
  BY InvInductive
<1>3. Inv => SameAnswers
  BY InvImpliesAnswers
<1>4. QED
  BY <1>1, <1>2, <1>3, PTL DEF Spec

\* Accounts have names and addresses of their own, in both stores.
THEOREM AccountsAreUnique == Spec => []NamesAreUnique
<1>1. Init => Inv
  BY InitInv
<1>2. Inv /\ [Next]_vars => Inv'
  BY InvInductive
<1>3. Inv => NamesAreUnique
  BY DEF Inv, StoresInv
<1>4. QED
  BY <1>1, <1>2, <1>3, PTL DEF Spec

-----------------------------------------------------------------------------
(***************************************************************************)
(* The record of finished games.                                           *)
(***************************************************************************)

Player == Accounts \cup {Guest}

Sessions ==
  [ids : [Seat -> Player], names : [Seat -> Player], bot : BOOLEAN, taken : BOOLEAN,
   winner : Seat \cup {NoSeat}, events : Outcomes \cup {{}}, endedAt : Nat]

ResultsTypeOK ==
  /\ table \in [Games -> Sessions]
  /\ clock \in Nat
  /\ \A g \in Games : table[g].endedAt <= clock /\ (table[g].taken \/ table[g].winner = NoSeat)

\* The game has ended, and how it ended.
Ended(g) ==
  /\ table[g].winner \in Seat
  /\ table[g].events \in Outcomes
  /\ table[g].taken

\* What is kept of a game is its result, in either store.
RowsInv ==
  /\ IsFiniteSet(memRows)
  /\ \A r \in memRows : r.id \in Games /\ Ended(r.id) /\ r = ResultOf(r.id)
  /\ pgRows = {RowOf(r) : r \in memRows}

\* The lock is held over the end of a game only.
HeldInv == \A g \in held : g \in Games /\ Ended(g)

\* Two games end at two times.
EndsInv ==
  \A g, h \in Games : Ended(g) /\ Ended(h) /\ table[g].endedAt = table[h].endedAt => g = h

ResultsInv == ResultsTypeOK /\ RowsInv /\ HeldInv /\ EndsInv

LEMMA FreshTable == Nobody \in Sessions /\ Nobody.winner = NoSeat
BY DEF Nobody, Sessions, Player

\* A result as a row: its id is the game's, the guests are NULL.
LEMMA RowFacts ==
  ASSUME NEW g \in Games, ResultsTypeOK
  PROVE  LET r == ResultOf(g)
         IN  /\ r.id = g /\ RowOf(r).id = g
             /\ r.ids \in [Seat -> Player]
             /\ RowOf(r).winner = r.winner
             /\ RowOf(r).ids = [s \in Seat |-> NullStr(r.ids[s])]
             /\ Scanned(RowOf(r)) = r
<1>. DEFINE r == ResultOf(g)
            ids == [s \in Seat |-> NullStr(r.ids[s])]
<1>1. r.id = g /\ r.ids \in [Seat -> Player]
  BY DEF ResultOf, ResultsTypeOK, Sessions
<1>2. r = [id |-> r.id, ids |-> r.ids, names |-> r.names, winner |-> r.winner,
           scores |-> r.scores, events |-> r.events, endedAt |-> r.endedAt, bots |-> r.bots]
  BY DEF ResultOf
<1>3. RowOf(r) = [r EXCEPT !.ids = ids]
  BY DEF RowOf
<1>. HIDE DEF r
<1>4. /\ RowOf(r).id = r.id /\ RowOf(r).winner = r.winner /\ RowOf(r).ids = ids
      /\ RowOf(r) = [id |-> r.id, ids |-> ids, names |-> r.names, winner |-> r.winner,
                     scores |-> r.scores, events |-> r.events, endedAt |-> r.endedAt, bots |-> r.bots]
  BY <1>2, <1>3
<1>5. [s \in Seat |-> FromNull(ids[s])] = r.ids
  <2>1. \A s \in Seat : FromNull(ids[s]) = r.ids[s]
    BY <1>1, NullAssumption DEF FromNull, NullStr, Player
  <2>. QED BY <1>1, <2>1
<1>6. Scanned(RowOf(r)) = r
  BY <1>2, <1>4, <1>5 DEF Scanned
<1>. QED BY <1>1, <1>4, <1>6 DEF r

\* What ended stays as it ended.
LEMMA EndedStays ==
  ASSUME NEW g, Ended(g), table'[g] = table[g], clock' >= clock, clock' \in Nat, ResultsTypeOK,
         g \in Games
  PROVE  Ended(g)' /\ ResultOf(g)' = ResultOf(g)
BY DEF Ended, ResultOf, ResultsTypeOK, Sessions

LEMMA InitResults == ResultsInit => ResultsInv
<1>. SUFFICES ASSUME ResultsInit PROVE ResultsInv
  OBVIOUS
<1>1. table = [g \in Games |-> Nobody] /\ memRows = {} /\ pgRows = {} /\ held = {} /\ clock = 0
  BY DEF ResultsInit
<1>2. ResultsTypeOK
  BY <1>1, FreshTable DEF ResultsTypeOK, Nobody
<1>3. \A g \in Games : ~Ended(g)
  BY <1>1, FreshTable DEF Ended, Seat, NoSeat
<1>4. RowsInv /\ HeldInv /\ EndsInv
  BY <1>1, <1>3, FS_EmptySet DEF RowsInv, HeldInv, EndsInv
<1>. QED BY <1>2, <1>4 DEF ResultsInv

\* A game is in play until it has ended.
LEMMA KeepsRows ==
  ASSUME ResultsInv, clock' \in Nat, clock' >= clock,
         \A g \in Games : table'[g] = table[g] \/ ~Ended(g),
         memRows' = memRows, pgRows' = pgRows
  PROVE  RowsInv'
<1>1. ASSUME NEW r \in memRows PROVE r.id \in Games /\ Ended(r.id)' /\ r = ResultOf(r.id)'
  <2>1. r.id \in Games /\ Ended(r.id) /\ r = ResultOf(r.id)
    BY DEF ResultsInv, RowsInv
  <2>. QED BY <2>1, EndedStays DEF ResultsInv
<1>. QED BY <1>1 DEF ResultsInv, RowsInv

\* Creating and joining a game, and taking it off the registry, end none.
LEMMA StartKeeps ==
  ASSUME ResultsInv, clock' = clock, memRows' = memRows, pgRows' = pgRows, held' = held,
         NEW t \in Sessions, t.winner = NoSeat, t.endedAt <= clock, NEW g \in Games, ~Ended(g),
         table' = [table EXCEPT ![g] = t]
  PROVE  ResultsInv'
<1>1. clock \in Nat /\ ResultsTypeOK'
  BY DEF ResultsInv, ResultsTypeOK
<1>2. \A h \in Games : table'[h] = table[h] \/ ~Ended(h)
  BY DEF ResultsInv, ResultsTypeOK
<1>3. RowsInv'
  BY <1>1, <1>2, KeepsRows
<1>4. ~Ended(g)'
  BY DEF Ended, Seat, NoSeat, ResultsInv, ResultsTypeOK
<1>5. ASSUME NEW h \in Games, h # g PROVE table'[h] = table[h] /\ Ended(h)' = Ended(h)
  BY <1>5 DEF Ended, ResultsInv, ResultsTypeOK
<1>6. HeldInv' /\ EndsInv'
  BY <1>4, <1>5 DEF HeldInv, EndsInv, ResultsInv
<1>. QED BY <1>1, <1>3, <1>6 DEF ResultsInv

\* A session once its game is over, at its start, and with both seats taken.
Finished(x, o, n, w) == [x EXCEPT !.events = o, !.endedAt = n, !.winner = w]

LEMMA FinishedSession ==
  ASSUME NEW x \in Sessions, NEW o \in Outcomes, NEW n \in Nat, NEW w \in Seat
  PROVE  LET t == Finished(x, o, n, w)
         IN  /\ t \in Sessions
             /\ t.events = o /\ t.endedAt = n /\ t.winner = w /\ t.taken = x.taken
<1>1. PICK a \in [Seat -> Player], b \in [Seat -> Player] : \E c \in BOOLEAN, d \in BOOLEAN :
        \E e \in Seat \cup {NoSeat}, f \in Outcomes \cup {{}}, g \in Nat :
          x = [ids |-> a, names |-> b, bot |-> c, taken |-> d, winner |-> e, events |-> f,
               endedAt |-> g]
  BY DEF Sessions
<1>2. PICK c, d, e, f, g :
          /\ c \in BOOLEAN /\ d \in BOOLEAN
          /\ x = [ids |-> a, names |-> b, bot |-> c, taken |-> d, winner |-> e, events |-> f,
                  endedAt |-> g]
  BY <1>1
<1>3. PICK t : t = [x EXCEPT !.events = o, !.endedAt = n, !.winner = w]
  OBVIOUS
<1>4. t = [ids |-> a, names |-> b, bot |-> c, taken |-> d, winner |-> w, events |-> o, endedAt |-> n]
  BY <1>2, <1>3
<1>7. x.taken = d
  BY <1>2
<1>5. /\ a \in [Seat -> Player] /\ b \in [Seat -> Player] /\ c \in BOOLEAN /\ d \in BOOLEAN
      /\ w \in Seat /\ o \in Outcomes /\ n \in Nat
  BY <1>2
<1>6. t \in Sessions /\ t.events = o /\ t.endedAt = n /\ t.winner = w /\ t.taken = x.taken
  BY ONLY <1>4, <1>5, <1>7 DEF Sessions
<1>. QED BY <1>3, <1>6 DEF Finished

LEMMA NewSession ==
  ASSUME NEW who \in Player, NEW bot \in BOOLEAN,
         NEW t, t = [Nobody EXCEPT !.ids[0] = who, !.names[0] = who, !.bot = bot, !.taken = bot]
  PROVE  t \in Sessions /\ t.winner = NoSeat /\ t.endedAt = 0
<1>1. PICK none \in [Seat -> Player] :
        Nobody = [ids |-> none, names |-> none, bot |-> FALSE, taken |-> FALSE,
                  winner |-> NoSeat, events |-> {}, endedAt |-> 0]
  BY DEF Nobody, Player
<1>2. PICK ids \in [Seat -> Player] : ids = [none EXCEPT ![0] = who]
  OBVIOUS
<1>3. t = [ids |-> ids, names |-> ids, bot |-> bot, taken |-> bot, winner |-> NoSeat,
           events |-> {}, endedAt |-> 0]
  BY <1>1, <1>2
<1>4. ids \in [Seat -> Player] /\ bot \in BOOLEAN
  OBVIOUS
<1>. QED BY ONLY <1>3, <1>4 DEF Sessions

LEMMA JoinedSession ==
  ASSUME NEW x \in Sessions, NEW who \in Player,
         NEW t, t = [x EXCEPT !.ids[1] = who, !.names[1] = who, !.taken = TRUE]
  PROVE  t \in Sessions /\ t.winner = x.winner /\ t.endedAt = x.endedAt
<1>1. PICK a \in [Seat -> Player], b \in [Seat -> Player] : \E c \in BOOLEAN, d \in BOOLEAN :
        \E e \in Seat \cup {NoSeat}, f \in Outcomes \cup {{}}, g \in Nat :
          x = [ids |-> a, names |-> b, bot |-> c, taken |-> d, winner |-> e, events |-> f,
               endedAt |-> g]
  BY DEF Sessions
<1>2. PICK c \in BOOLEAN, d \in BOOLEAN : 
        \E e \in Seat \cup {NoSeat}, f \in Outcomes \cup {{}}, g \in Nat :
          x = [ids |-> a, names |-> b, bot |-> c, taken |-> d, winner |-> e, events |-> f,
               endedAt |-> g]
  BY <1>1
<1>3. PICK e \in Seat \cup {NoSeat}, f \in Outcomes \cup {{}} : \E g \in Nat :
          x = [ids |-> a, names |-> b, bot |-> c, taken |-> d, winner |-> e, events |-> f,
               endedAt |-> g]
  BY <1>2
<1>4. PICK g \in Nat :
          x = [ids |-> a, names |-> b, bot |-> c, taken |-> d, winner |-> e, events |-> f,
               endedAt |-> g]
  BY <1>3
<1>5. PICK ids \in [Seat -> Player], names \in [Seat -> Player] :
        ids = [a EXCEPT ![1] = who] /\ names = [b EXCEPT ![1] = who]
  OBVIOUS
<1>6. t = [ids |-> ids, names |-> names, bot |-> c, taken |-> TRUE, winner |-> e,
           events |-> f, endedAt |-> g]
  BY <1>4, <1>5
<1>7. t \in Sessions
  <2>1. /\ ids \in [Seat -> Player] /\ names \in [Seat -> Player] /\ c \in BOOLEAN
        /\ e \in Seat \cup {NoSeat} /\ f \in Outcomes \cup {{}} /\ g \in Nat
    OBVIOUS
  <2>. QED BY ONLY <1>6, <2>1 DEF Sessions
<1>8. x.winner = e /\ x.endedAt = g /\ t.winner = e /\ t.endedAt = g
  BY <1>4, <1>6
<1>. QED BY <1>7, <1>8

LEMMA WinnerOf ==
  ASSUME NEW o \in Outcomes
  PROVE  (CHOOSE s \in Seat : Sum(o[s]) >= Target) \in Seat
BY OutcomesAssumption

LEMMA FinishKeeps ==
  ASSUME ResultsInv, NEW g \in Games, NEW o \in Outcomes, Finish(g, o)
  PROVE  ResultsInv'
<1>. DEFINE w == CHOOSE s \in Seat : Sum(o[s]) >= Target
            t == Finished(table[g], o, clock + 1, w)
<1>1. /\ clock' = clock + 1 /\ clock \in Nat /\ memRows' = memRows /\ pgRows' = pgRows
      /\ table[g].taken /\ table[g].winner = NoSeat /\ w \in Seat
      /\ table[g] \in Sessions
  BY WinnerOf DEF Finish, ResultsInv, ResultsTypeOK
<1>2. table' = [table EXCEPT ![g] = t]
  BY DEF Finish, Finished
<1>. HIDE DEF w
<1>3. /\ t \in Sessions /\ t.events = o /\ t.endedAt = clock + 1 /\ t.winner = w /\ t.taken
  <2>1. \E n \in Nat : n = clock + 1
    BY <1>1
  <2>2. PICK n \in Nat, x \in Sessions : n = clock + 1 /\ x = table[g] /\ x.taken
    BY <1>1, <2>1
  <2>3. LET y == Finished(x, o, n, w)
        IN  y \in Sessions /\ y.events = o /\ y.endedAt = n /\ y.winner = w /\ y.taken = x.taken
    BY <1>1, FinishedSession
  <2>. QED BY <2>2, <2>3
<1>. HIDE DEF t
<1>6. table'[g] = t /\ \A h \in Games : h # g => table'[h] = table[h]
  BY <1>2 DEF ResultsInv, ResultsTypeOK
<1>4. ResultsTypeOK'
  <2>1. \A h \in Games : table[h].endedAt <= clock /\ table[h].endedAt \in Nat
    BY DEF ResultsInv, ResultsTypeOK, Sessions
  <2>2. \A h \in Games : table'[h].endedAt <= clock'
    BY <1>1, <1>3, <1>6, <2>1
  <2>. QED BY <1>1, <1>2, <1>3, <2>2 DEF ResultsInv, ResultsTypeOK
<1>5. ~Ended(g)
  BY <1>1 DEF Ended, Seat, NoSeat
<1>7. RowsInv'
  BY <1>1, <1>5, <1>6, KeepsRows
<1>8. Ended(g)'
  BY <1>1, <1>3, <1>6 DEF Ended
<1>9. ASSUME NEW h \in Games, h # g
      PROVE  /\ table'[h] = table[h] /\ Ended(h)' = Ended(h)
             /\ table[h].endedAt # clock + 1
  <2>1. table'[h] = table[h]
    BY <1>6, <1>9
  <2>2. table[h].endedAt \in Nat /\ table[h].endedAt <= clock
    BY DEF ResultsInv, ResultsTypeOK, Sessions
  <2>. QED BY <1>1, <2>1, <2>2 DEF Ended
<1>10. HeldInv'
  <2>1. held' \subseteq held \cup {g}
    BY DEF Finish
  <2>. QED BY <1>8, <1>9, <2>1 DEF HeldInv, ResultsInv
<1>11. EndsInv'
  BY <1>3, <1>6, <1>9 DEF EndsInv, ResultsInv
<1>. QED BY <1>4, <1>7, <1>10, <1>11 DEF ResultsInv

LEMMA CreateKeeps ==
  ASSUME ResultsInv, NEW g \in Games, NEW who \in Player, NEW bot \in BOOLEAN, Create(g, who, bot)
  PROVE  ResultsInv'
<1>. DEFINE t == [Nobody EXCEPT !.ids[0] = who, !.names[0] = who, !.bot = bot, !.taken = bot]
<1>3. t \in Sessions /\ t.winner = NoSeat /\ t.endedAt = 0
  BY NewSession
<1>4. table' = [table EXCEPT ![g] = t]
  BY DEF Create
<1>. HIDE DEF t
<1>5. ~Ended(g)
  BY FreshTable DEF Create, Ended, Seat, NoSeat
<1>6. 0 <= clock
  BY DEF ResultsInv, ResultsTypeOK
<1>. QED BY <1>3, <1>4, <1>5, <1>6, StartKeeps DEF Create

LEMMA JoinKeeps ==
  ASSUME ResultsInv, NEW g \in Games, NEW who \in Player, Join(g, who)
  PROVE  ResultsInv'
<1>. DEFINE x == table[g]
            t == [x EXCEPT !.ids[1] = who, !.names[1] = who, !.taken = TRUE]
<1>1. x \in Sessions /\ ~x.taken
  BY DEF Join, ResultsInv, ResultsTypeOK
<1>2. t \in Sessions /\ t.winner = x.winner /\ t.endedAt = x.endedAt
  BY <1>1, JoinedSession
<1>3. x.winner = NoSeat /\ x.endedAt <= clock
  BY <1>1 DEF ResultsInv, ResultsTypeOK
<1>4. table' = [table EXCEPT ![g] = t]
  BY DEF Join
<1>5. ~Ended(g)
  BY <1>3 DEF Ended, Seat, NoSeat
<1>. HIDE DEF t, x
<1>. QED BY <1>2, <1>3, <1>4, <1>5, StartKeeps DEF Join

LEMMA SaveKeeps ==
  ASSUME ResultsInv, NEW g \in held, Written(g), UNCHANGED <<table, clock>>, held' \subseteq held
  PROVE  ResultsInv'
<1>. DEFINE r == ResultOf(g)
<1>1. g \in Games /\ Ended(g) /\ ResultsTypeOK
  BY DEF ResultsInv, HeldInv
<1>2. r.id = g /\ RowOf(r).id = g
  BY <1>1, RowFacts
<1>3. (\E x \in memRows : x.id = r.id) <=> (\E row \in pgRows : row.id = r.id)
  <2>1. ASSUME NEW x \in memRows PROVE RowOf(x).id = x.id /\ RowOf(x) \in pgRows
    <3>1. x.id \in Games /\ x = ResultOf(x.id)
      BY DEF ResultsInv, RowsInv
    <3>2. RowOf(ResultOf(x.id)).id = x.id
      BY <1>1, <3>1, RowFacts
    <3>. QED BY <3>1, <3>2 DEF ResultsInv, RowsInv
  <2>2. \A row \in pgRows : \E x \in memRows : row = RowOf(x)
    BY DEF ResultsInv, RowsInv
  <2>. HIDE DEF r
  <2>. QED BY <2>1, <2>2
<1>4. \/ memRows' = memRows /\ pgRows' = pgRows
      \/ memRows' = memRows \cup {r} /\ pgRows' = pgRows \cup {RowOf(r)}
  BY <1>3 DEF Written, SaveMem, SavePg
<1>5. IsFiniteSet(memRows')
  BY <1>4, FS_AddElement DEF ResultsInv, RowsInv
<1>6. \A h : Ended(h)' = Ended(h) /\ ResultOf(h)' = ResultOf(h)
  BY DEF Ended, ResultOf
<1>7. pgRows' = {RowOf(x) : x \in memRows'}
  BY <1>4 DEF ResultsInv, RowsInv
<1>8. \A x \in memRows' : x.id \in Games /\ Ended(x.id) /\ x = ResultOf(x.id)
  BY <1>1, <1>2, <1>4 DEF ResultsInv, RowsInv
<1>9. RowsInv'
  BY <1>5, <1>6, <1>7, <1>8 DEF RowsInv
<1>10. ResultsTypeOK' /\ HeldInv' /\ EndsInv'
  BY <1>6 DEF ResultsInv, ResultsTypeOK, HeldInv, EndsInv
<1>. QED BY <1>9, <1>10 DEF ResultsInv

LEMMA SameKeeps ==
  ASSUME ResultsInv, UNCHANGED <<table, clock, memRows, pgRows>>, held' \subseteq held
  PROVE  ResultsInv'
<1>1. \A h : Ended(h)' = Ended(h) /\ ResultOf(h)' = ResultOf(h)
  BY DEF Ended, ResultOf
<1>2. RowsInv'
  BY <1>1 DEF ResultsInv, RowsInv
<1>3. ResultsTypeOK' /\ HeldInv' /\ EndsInv'
  BY <1>1 DEF ResultsInv, ResultsTypeOK, HeldInv, EndsInv
<1>. QED BY <1>2, <1>3 DEF ResultsInv

LEMMA NextResults == ResultsInv /\ [ResultsNext]_resultVars => ResultsInv'
<1>. SUFFICES ASSUME ResultsInv, [ResultsNext]_resultVars PROVE ResultsInv'
  OBVIOUS
<1>1. ASSUME NEW g \in Games, NEW who \in Accounts \cup {Guest}, NEW bot \in BOOLEAN,
             Create(g, who, bot)
      PROVE  ResultsInv'
  BY <1>1, CreateKeeps DEF Player
<1>2. ASSUME NEW g \in Games, NEW who \in Accounts \cup {Guest}, Join(g, who) PROVE ResultsInv'
  BY <1>2, JoinKeeps DEF Player
<1>3. ASSUME NEW g \in Games, NEW o \in Outcomes, Finish(g, o) PROVE ResultsInv'
  BY <1>3, FinishKeeps
<1>4. ASSUME NEW g \in Games, Save(g) PROVE ResultsInv'
  BY <1>4, SaveKeeps DEF Save
<1>5. ASSUME NEW g \in Games, SaveFails(g) PROVE ResultsInv'
  <2>1. held' \subseteq held
    BY <1>5 DEF SaveFails
  <2>. QED BY <1>5, <2>1, SaveKeeps, SameKeeps DEF SaveFails
<1>6. ASSUME NEW g \in Games, Reap(g) PROVE ResultsInv'
  BY <1>6, SameKeeps DEF Reap
<1>7. CASE UNCHANGED resultVars
  BY <1>7, SameKeeps DEF resultVars
<1>. QED BY <1>1, <1>2, <1>3, <1>4, <1>5, <1>6, <1>7 DEF ResultsNext

\* The inductive invariant: however saves fail and are repeated, what either store
\* keeps of a game is its result, as a row of its own kind, and only games that have
\* ended are saved (recordResult, saveResultRetrying, SaveResult of both stores).
THEOREM ResultsInvariant == ResultsSpec => []ResultsInv
BY InitResults, NextResults, PTL DEF ResultsSpec

LEMMA TokenFinds ==
  ASSUME NEW g \in live, NEW s \in Seat, Subject(g, [game |-> g, seat |-> s], Guest).status = 200
  PROVE  Subject(g, [game |-> g, seat |-> s], Guest) = FromSession(g, s)
<1>. DEFINE token == [game |-> g, seat |-> s]
<1>1. token.seat = s /\ token.game = g /\ token # NoToken
  <2>1. token.seat = s /\ token.game = g
    OBVIOUS
  <2>2. NoToken.seat = NoSeat
    BY DEF NoToken
  <2>3. s # NoSeat
    BY DEF Seat, NoSeat
  <2>. QED BY <2>1, <2>2, <2>3
<1>2. OpensSession(token, g)
  BY <1>1 DEF OpensSession
<1>. HIDE DEF token
<1>3. Subject(g, token, Guest) =
        (IF table[g].winner # NoSeat THEN FromSession(g, token.seat) ELSE Refused(409))
  BY <1>2 DEF Subject
<1>4. Refused(409).status = 409
  BY DEF Refused
<1>. QED BY <1>1, <1>3, <1>4 DEF token

LEMMA CookieFinds ==
  ASSUME NEW g, NEW who, who # Guest, Subject(g, NoToken, who).status = 200
  PROVE  \E r \in memRows : r.id = g /\ Involves(r, who)
                            /\ Subject(g, NoToken, who) = FromResult(r, SeatOf(r, who))
<1>1. Subject(g, NoToken, who) = ByAccount(g, who)
  BY DEF Subject, OpensSession
<1>2. Refused(404).status = 404
  BY DEF Refused
<1>. DEFINE found == {r \in MemById(g) : Involves(r, who)}
<1>3. found # {}
  BY <1>1, <1>2 DEF ByAccount
<1>. DEFINE r == CHOOSE x \in found : TRUE
<1>4. r \in found
  BY <1>3
<1>5. ByAccount(g, who) = FromResult(r, SeatOf(r, who))
  BY <1>3 DEF ByAccount
<1>. QED BY <1>1, <1>4, <1>5 DEF MemById

\* The seat's token and its player's cookie are answered alike, whether the answer is
\* made from the session or from the record (finishedGameSubject,
\* participantGameFromResult).
THEOREM AnswersAgree == ResultsSpec => []PathsAgree
<1>1. ResultsInv => PathsAgree
  <2>. SUFFICES ASSUME ResultsInv, NEW g \in live \ held, TwoPlayers(table[g]), NEW s \in Seat,
                       table[g].ids[s] # Guest,
                       Subject(g, [game |-> g, seat |-> s], Guest).status = 200,
                       Subject(g, NoToken, table[g].ids[s]).status = 200
                PROVE  Subject(g, [game |-> g, seat |-> s], Guest) =
                         Subject(g, NoToken, table[g].ids[s])
    BY DEF PathsAgree, SameAnswer
  <2>. DEFINE who == table[g].ids[s]
  <2>1. PICK r \in memRows : r.id = g /\ Involves(r, who)
                            /\ Subject(g, NoToken, who) = FromResult(r, SeatOf(r, who))
    BY CookieFinds
  <2>2. r = ResultOf(g)
    BY <2>1 DEF ResultsInv, RowsInv
  <2>3. /\ r.ids = table[g].ids /\ r.names = table[g].names /\ r.events = table[g].events
        /\ r.winner = table[g].winner /\ r.bots = [x \in Seat |-> table[g].bot /\ x = 1]
    BY <2>2 DEF ResultOf
  <2>4. SeatOf(r, who) = s
    <3>1. who # table[g].ids[Other(s)]
      BY DEF TwoPlayers
    <3>. QED BY <2>3, <3>1 DEF SeatOf, Seat, Other
  <2>5. FromResult(r, s) = FromSession(g, s)
    BY <2>3 DEF FromResult, FromSession
  <2>. QED BY <2>1, <2>4, <2>5, TokenFinds
<1>. QED BY <1>1, ResultsInvariant, PTL

-----------------------------------------------------------------------------
(***************************************************************************)
(* Sums over finite sets.  The library's MapThenSumSet takes off an        *)
(* element at a time, in an order it does not say; such a sum exists, and  *)
(* is the same in every order.                                             *)
(***************************************************************************)

LEMMA LeastNatural ==
  ASSUME NEW T \in SUBSET Nat, T # {}
  PROVE  \E n \in T : \A m \in T : n <= m
<1>1. PICK R : IsWellFoundedOn(R, Nat) /\ \A a, b \in Nat : a < b => <<a, b>> \in R
  BY NatLessThanWellFounded DEF OpToRel
<1>2. IsWellFoundedOn(R, Nat) /\ T \subseteq Nat /\ T # {}
  BY <1>1
<1>3. PICK n \in T : \A m \in T : ~(<<m, n>> \in R)
  BY ONLY <1>2, WFMin, Zenon
<1>4. ASSUME NEW m \in T PROVE n <= m
  <2>1. n \in Nat /\ m \in Nat /\ ~(m < n)
    BY <1>1, <1>3
  <2>. QED BY <2>1
<1>. QED BY <1>4

LEMMA InductionOverNat ==
  ASSUME NEW G \in SUBSET Nat, 0 \in G, \A n \in G : n + 1 \in G
  PROVE  G = Nat
<1>. SUFFICES ASSUME Nat \ G # {} PROVE FALSE
  OBVIOUS
<1>1. PICK n \in Nat \ G : \A m \in Nat \ G : n <= m
  BY LeastNatural
<1>2. n - 1 \in Nat /\ ~(n <= n - 1) /\ (n - 1) + 1 = n
  BY <1>1
<1>3. n - 1 \in G
  BY <1>1, <1>2
<1>4. (n - 1) + 1 \in G
  BY <1>3
<1>. QED BY <1>1, <1>2, <1>4

\* f holds the sum of F over each part of S, an element taken off at a time.
First(T) == CHOOSE x \in T : TRUE

Adds(f, F, S) ==
  f = [T \in SUBSET S |-> IF T = {} THEN 0 ELSE F[First(T)] + f[T \ {First(T)}]]

LEMMA FirstIsIn == ASSUME NEW T, T # {} PROVE First(T) \in T
BY DEF First

\* One element less, one in number less.
LEMMA OneLess ==
  ASSUME NEW S, IsFiniteSet(S), NEW T \in SUBSET S, NEW x \in T
  PROVE  /\ T \ {x} \in SUBSET S
         /\ Cardinality(T) \in Nat /\ Cardinality(T \ {x}) \in Nat
         /\ Cardinality(T) = Cardinality(T \ {x}) + 1
<1>1. IsFiniteSet(T)
  BY FS_Subset
<1>2. Cardinality(T) \in Nat /\ Cardinality(T \ {x}) = Cardinality(T) - 1
  BY <1>1, FS_CardinalityType, FS_RemoveElement
<1>3. IsFiniteSet(T \ {x}) /\ Cardinality(T \ {x}) \in Nat
  BY <1>1, FS_RemoveElement, FS_CardinalityType
<1>. QED BY <1>2, <1>3

LEMMA SumsExist ==
  ASSUME NEW S, IsFiniteSet(S), NEW F \in [S -> Nat]
  PROVE  \E f : Adds(f, F, S)
<1>. DEFINE Body(f, T) == IF T = {} THEN 0 ELSE F[First(T)] + f[T \ {First(T)}]
            Upto(f, n) == \A T \in SUBSET S : Cardinality(T) <= n => f[T] = Body(f, T)
            G == {n \in Nat : \E f : f = [T \in SUBSET S |-> f[T]] /\ Upto(f, n)}
<1>1. 0 \in G
  <2>. DEFINE f == [T \in SUBSET S |-> 0]
  <2>1. \A T \in SUBSET S : Cardinality(T) <= 0 => T = {}
    <3>. SUFFICES ASSUME NEW T \in SUBSET S, Cardinality(T) <= 0 PROVE T = {}
      OBVIOUS
    <3>1. IsFiniteSet(T) /\ Cardinality(T) \in Nat
      BY FS_Subset, FS_CardinalityType
    <3>. QED BY <3>1, FS_EmptySet
  <2>2. f = [T \in SUBSET S |-> f[T]] /\ Upto(f, 0)
    BY <2>1
  <2>. QED BY <2>2
<1>2. ASSUME NEW n \in G PROVE n + 1 \in G
  <2>0. n \in Nat /\ n + 1 \in Nat /\ n + 1 # 0
    OBVIOUS
  <2>1. PICK f : f = [T \in SUBSET S |-> f[T]] /\ Upto(f, n)
    OBVIOUS
  <2>. DEFINE g == [T \in SUBSET S |-> IF Cardinality(T) = n + 1 THEN Body(f, T) ELSE f[T]]
  <2>. HIDE DEF G
  <2>2. ASSUME NEW T \in SUBSET S, Cardinality(T) <= n + 1 PROVE g[T] = Body(g, T)
    <3>1. CASE T = {}
      <4>1. Cardinality(T) = 0 /\ Cardinality(T) # n + 1 /\ Cardinality(T) <= n
        BY <2>0, <3>1, FS_EmptySet
      <4>2. g[T] = f[T]
        BY <4>1
      <4>. QED BY <2>1, <3>1, <4>1, <4>2
    <3>2. CASE T # {}
      <4>1. PICK x : x = First(T) /\ x \in T
        BY <3>2, FirstIsIn
      <4>2. /\ T \ {x} \in SUBSET S /\ Cardinality(T) \in Nat /\ Cardinality(T \ {x}) \in Nat
            /\ Cardinality(T) = Cardinality(T \ {x}) + 1
        BY <4>1, OneLess
      <4>3. Cardinality(T \ {x}) # n + 1
        BY <2>0, <2>2, <4>2
      <4>4. g[T \ {x}] = f[T \ {x}]
        BY <4>2, <4>3
      <4>5. g[T] = Body(f, T)
        <5>1. CASE Cardinality(T) = n + 1
          BY <5>1
        <5>2. CASE Cardinality(T) # n + 1
          <6>1. Cardinality(T) <= n
            BY <2>0, <2>2, <4>2, <5>2
          <6>2. g[T] = f[T]
            BY <5>2
          <6>. QED BY <2>1, <6>1, <6>2
        <5>. QED BY <5>1, <5>2
      <4>6. Body(f, T) = F[x] + f[T \ {x}] /\ Body(g, T) = F[x] + g[T \ {x}]
        <5>. HIDE DEF g
        <5>. QED BY <3>2, <4>1
      <4>. HIDE DEF g, Body
      <4>. QED BY <4>4, <4>5, <4>6
    <3>. QED BY <3>1, <3>2
  <2>3. g = [T \in SUBSET S |-> g[T]]
    OBVIOUS
  <2>. HIDE DEF g
  <2>. QED BY <2>0, <2>2, <2>3 DEF G
<1>3. Cardinality(S) \in Nat
  BY FS_CardinalityType
<1>4. Cardinality(S) \in G
  <2>1. G \in SUBSET Nat
    OBVIOUS
  <2>. HIDE DEF G
  <2>. QED BY <1>1, <1>2, <1>3, <2>1, InductionOverNat
<1>5. PICK f : f = [T \in SUBSET S |-> f[T]] /\ Upto(f, Cardinality(S))
  BY <1>4
<1>6. \A T \in SUBSET S : Cardinality(T) <= Cardinality(S)
  BY FS_Subset
<1>. QED BY <1>5, <1>6 DEF Adds

\* The sum is the same whichever element is taken off first.
AddsUp(f, F, S) ==
  /\ f[{}] = 0
  /\ f \in [SUBSET S -> Nat]
  /\ \A T \in SUBSET S : \A x \in T : f[T] = F[x] + f[T \ {x}]

LEMMA AnyFirst ==
  ASSUME NEW S, IsFiniteSet(S), NEW F \in [S -> Nat], NEW f, Adds(f, F, S)
  PROVE  AddsUp(f, F, S)
<1>1. f[{}] = 0
  BY DEF Adds
<1>2. \A T \in SUBSET S : T # {} => f[T] = F[First(T)] + f[T \ {First(T)}]
  BY DEF Adds
<1>. DEFINE Good(T) == f[T] \in Nat /\ \A x \in T : f[T] = F[x] + f[T \ {x}]
            G == {n \in Nat : \A T \in SUBSET S : Cardinality(T) <= n => Good(T)}
<1>3. 0 \in G
  <2>. SUFFICES ASSUME NEW T \in SUBSET S, Cardinality(T) <= 0 PROVE T = {}
    BY <1>1
  <2>1. IsFiniteSet(T) /\ Cardinality(T) \in Nat
    BY FS_Subset, FS_CardinalityType
  <2>. QED BY <2>1, FS_EmptySet
<1>4. ASSUME NEW n \in G PROVE n + 1 \in G
  <2>0. /\ n \in Nat /\ n + 1 \in Nat /\ n + 1 # 0
        /\ \A T \in SUBSET S : Cardinality(T) <= n => Good(T)
    OBVIOUS
  <2>. SUFFICES ASSUME NEW T \in SUBSET S, Cardinality(T) <= n + 1 PROVE Good(T)
    BY <2>0
  <2>. HIDE DEF G
  <2>1. CASE T = {}
    BY <1>1, <2>1
  <2>2. CASE T # {}
    <3>1. PICK y : y \in T /\ f[T] = F[y] + f[T \ {y}]
      BY <1>2, <2>2, FirstIsIn
    <3>2. ASSUME NEW x \in T
          PROVE  /\ T \ {x} \in SUBSET S /\ f[T \ {x}] \in Nat /\ F[x] \in Nat
                 /\ \A z \in T \ {x} : f[T \ {x}] = F[z] + f[(T \ {x}) \ {z}]
      <4>1. /\ T \ {x} \in SUBSET S /\ Cardinality(T \ {x}) \in Nat
            /\ Cardinality(T) = Cardinality(T \ {x}) + 1
        BY OneLess
      <4>2. Cardinality(T \ {x}) <= n
        BY <2>0, <4>1
      <4>3. Good(T \ {x})
        <5>. HIDE DEF Good
        <5>. QED BY <2>0, <4>1, <4>2
      <4>. QED BY <4>1, <4>3
    <3>3. f[T] \in Nat
      <4>1. F[y] \in Nat /\ f[T \ {y}] \in Nat
        BY <3>1, <3>2
      <4>. QED BY <3>1, <4>1
    <3>4. ASSUME NEW x \in T, x # y PROVE f[T] = F[x] + f[T \ {x}]
      <4>1. (T \ {y}) \ {x} = (T \ {x}) \ {y}
        OBVIOUS
      <4>2. f[T \ {y}] = F[x] + f[(T \ {y}) \ {x}]
        BY <3>1, <3>2, <3>4
      <4>3. f[T \ {x}] = F[y] + f[(T \ {x}) \ {y}]
        BY <3>1, <3>2, <3>4
      <4>4. F[x] \in Nat /\ F[y] \in Nat
        BY <3>1, <3>2
      <4>5. f[(T \ {y}) \ {x}] \in Nat
        <5>1. T \ {y} \in SUBSET S /\ x \in T \ {y} /\ (T \ {y}) \ {x} \in SUBSET S
          BY <3>1, <3>4
        <5>2. /\ Cardinality(T) \in Nat /\ Cardinality(T \ {y}) \in Nat
              /\ Cardinality(T) = Cardinality(T \ {y}) + 1
          BY <3>1, OneLess
        <5>4. /\ Cardinality((T \ {y}) \ {x}) \in Nat
              /\ Cardinality(T \ {y}) = Cardinality((T \ {y}) \ {x}) + 1
          <6>1. PICK D \in SUBSET S : D = T \ {y} /\ x \in D
            BY <5>1
          <6>2. Cardinality(D \ {x}) \in Nat /\ Cardinality(D) = Cardinality(D \ {x}) + 1
            BY <6>1, OneLess
          <6>. QED BY <6>1, <6>2
        <5>3. Cardinality((T \ {y}) \ {x}) <= n
          BY <2>0, <5>2, <5>4
        <5>. QED BY <2>0, <5>1, <5>3
      <4>6. PICK a \in Nat, b \in Nat, c \in Nat : a = F[y] /\ b = F[x] /\ c = f[(T \ {y}) \ {x}]
        BY <4>4, <4>5
      <4>7. f[T] = a + (b + c)
        BY <3>1, <4>2, <4>6
      <4>8. f[T \ {x}] = a + c
        BY <4>1, <4>3, <4>6
      <4>9. a + (b + c) = b + (a + c)
        OBVIOUS
      <4>. QED BY <4>6, <4>7, <4>8, <4>9
    <3>. QED BY <3>1, <3>3, <3>4
  <2>. QED BY <2>1, <2>2
<1>5. \A T \in SUBSET S : Good(T)
  <2>1. G \in SUBSET Nat
    OBVIOUS
  <2>2. G = Nat
    <3>. HIDE DEF G
    <3>. QED BY <1>3, <1>4, <2>1, InductionOverNat
  <2>. SUFFICES ASSUME NEW T \in SUBSET S PROVE Good(T)
    OBVIOUS
  <2>3. Cardinality(T) \in Nat /\ Cardinality(T) <= Cardinality(T)
    BY FS_Subset, FS_CardinalityType
  <2>4. Cardinality(T) \in G
    BY <2>2, <2>3
  <2>. HIDE DEF Good
  <2>. QED BY <2>3, <2>4
<1>6. f = [T \in SUBSET S |-> f[T]]
  BY DEF Adds
<1>7. \A T \in SUBSET S : f[T] \in Nat /\ \A x \in T : f[T] = F[x] + f[T \ {x}]
  BY <1>5
<1>. QED BY <1>1, <1>6, <1>7 DEF AddsUp

-----------------------------------------------------------------------------
(***************************************************************************)
(* The list of the history page.                                           *)
(***************************************************************************)

Place(R, r) == Cardinality({x \in R : x.endedAt >= r.endedAt})

\* Results that end one after the other.
Timed(R) ==
  /\ IsFiniteSet(R)
  /\ \A r \in R : r.endedAt \in Nat
  /\ \A a, b \in R : a.endedAt = b.endedAt => a = b

LEMMA EachHasItsPlace ==
  ASSUME NEW R, Timed(R)
  PROVE  /\ Cardinality(R) \in Nat
         /\ \A r \in R : Place(R, r) \in 1..Cardinality(R)
         /\ \A a, b \in R : a.endedAt < b.endedAt => Place(R, b) < Place(R, a)
         /\ \A i \in 1..Cardinality(R) : \E r \in R : Place(R, r) = i
<1>. DEFINE After(r) == {x \in R : x.endedAt >= r.endedAt}
<1>1. IsFiniteSet(R) /\ Cardinality(R) \in Nat
  BY FS_CardinalityType DEF Timed
<1>2. ASSUME NEW r \in R
      PROVE  /\ IsFiniteSet(After(r)) /\ Cardinality(After(r)) \in 1..Cardinality(R)
  <2>1. After(r) \in SUBSET R /\ r \in After(r)
    BY DEF Timed
  <2>2. IsFiniteSet(After(r)) /\ Cardinality(After(r)) <= Cardinality(R)
    BY <1>1, <2>1, FS_Subset
  <2>3. Cardinality(After(r)) \in Nat /\ Cardinality(After(r)) # 0
    BY <2>1, <2>2, FS_CardinalityType, FS_EmptySet
  <2>. QED BY <1>1, <2>2, <2>3
<1>3. ASSUME NEW a \in R, NEW b \in R, a.endedAt < b.endedAt
      PROVE  Cardinality(After(b)) < Cardinality(After(a))
  <2>0. a.endedAt \in Nat /\ b.endedAt \in Nat
    BY DEF Timed
  <2>1. After(b) \in SUBSET After(a)
    <3>1. \A x \in R : x.endedAt \in Nat
      BY DEF Timed
    <3>. QED BY <1>3, <2>0, <3>1
  <2>2. a \in After(a) /\ a \notin After(b)
    BY <1>3, <2>0
  <2>3. Cardinality(After(b)) <= Cardinality(After(a)) /\ Cardinality(After(b)) # Cardinality(After(a))
    BY <1>2, <2>1, <2>2, FS_Subset
  <2>4. Cardinality(After(a)) \in Nat /\ Cardinality(After(b)) \in Nat
    BY <1>2, FS_CardinalityType
  <2>. QED BY <2>3, <2>4
<1>4. ASSUME NEW i \in 1..Cardinality(R) PROVE \E r \in R : Place(R, r) = i
  <2>. DEFINE f == [r \in R |-> Place(R, r)]
              n == Cardinality(R)
  <2>1. f \in [R -> 1..n]
    BY <1>2 DEF Place
  <2>2. ASSUME NEW a \in R, NEW b \in R, f[a] = f[b] PROVE a = b
    <3>1. a.endedAt \in Nat /\ b.endedAt \in Nat
      BY DEF Timed
    <3>0. Cardinality(After(a)) = Cardinality(After(b)) /\ Cardinality(After(a)) \in Nat
      <4>1. f[a] = Cardinality(After(a)) /\ f[b] = Cardinality(After(b))
        BY DEF Place
      <4>2. Cardinality(After(a)) \in 1..Cardinality(R)
        BY <1>2
      <4>3. f[a] = f[b]
        BY <2>2
      <4>. HIDE DEF f, After
      <4>4. Cardinality(After(a)) = Cardinality(After(b))
        BY <4>1, <4>3
      <4>5. Cardinality(After(a)) \in Nat
        BY <1>1, <4>2
      <4>. QED BY <4>4, <4>5
    <3>2. ~(a.endedAt < b.endedAt) /\ ~(b.endedAt < a.endedAt)
      <4>. HIDE DEF After, f
      <4>. QED BY <1>3, <3>0
    <3>. QED BY <3>1, <3>2 DEF Timed
  <2>3. f \in Injection(R, 1..n)
    BY <2>1, <2>2 DEF Injection, IsInjective
  <2>4. IsFiniteSet(1..n) /\ Cardinality(1..n) = n
    BY <1>1, FS_Interval
  <2>5. f \in Surjection(R, 1..n)
    <3>. HIDE DEF f, n
    <3>1. Cardinality(R) = Cardinality(1..n)
      BY <2>4 DEF n
    <3>. QED BY <2>3, <2>4, <3>1, FS_Injection
  <2>. QED BY <2>5 DEF Surjection
<1>. QED BY <1>1, <1>2, <1>3, <1>4 DEF Place

LEMMA ListIsNewest ==
  ASSUME NEW R, Timed(R),
         NEW n, n = Cardinality(R), NEW k, k = Min({n, ListLimit}), NEW list, list = Newest(R)
  PROVE  /\ n \in Nat /\ k \in 0..n /\ k <= ListLimit /\ (k = n \/ k = ListLimit)
         /\ list = [i \in 1..k |-> list[i]]
         /\ \A i \in 1..k : list[i] \in R /\ Place(R, list[i]) = i
<1>1. n \in Nat /\ ListLimit \in Nat
  BY EachHasItsPlace, LimitAssumption
<1>2. k \in {n, ListLimit} /\ k <= n /\ k <= ListLimit
  <2>1. \E x \in {n, ListLimit} : \A y \in {n, ListLimit} : x <= y
    BY <1>1
  <2>. QED BY <2>1 DEF Min
<1>3. list = [i \in 1..k |-> CHOOSE r \in R : Place(R, r) = i]
  BY DEF Newest, Place
<1>4. ASSUME NEW i \in 1..k PROVE list[i] \in R /\ Place(R, list[i]) = i
  <2>1. i \in 1..n
    BY <1>1, <1>2
  <2>2. \E r \in R : Place(R, r) = i
    BY <2>1, EachHasItsPlace
  <2>. QED BY <1>3, <2>2
<1>5. list = [i \in 1..k |-> list[i]]
  BY <1>3
<1>6. k \in 0..n
  BY <1>1, <1>2
<1>. QED BY <1>1, <1>2, <1>4, <1>5, <1>6

\* The results of a player, in either store.
LEMMA PlayersResults ==
  ASSUME ResultsInv, NEW who \in Accounts
  PROVE  /\ Timed(MemResults(who))
         /\ \A r \in MemResults(who) :
              /\ r.ids \in [Seat -> Player] /\ r.winner \in Seat /\ r.events \in Outcomes
              /\ r = ResultOf(r.id) /\ r.id \in Games
<1>. DEFINE R == MemResults(who)
<1>1. R \in SUBSET memRows
  BY DEF MemResults
<1>2. IsFiniteSet(R)
  BY <1>1, FS_Subset DEF ResultsInv, RowsInv
<1>3. ASSUME NEW r \in R
      PROVE  /\ r.id \in Games /\ r = ResultOf(r.id) /\ Ended(r.id)
             /\ r.endedAt = table[r.id].endedAt /\ r.endedAt \in Nat
             /\ r.ids = table[r.id].ids /\ r.winner = table[r.id].winner
             /\ r.events = table[r.id].events
             /\ r.ids \in [Seat -> Player] /\ r.winner \in Seat /\ r.events \in Outcomes
  <2>1. r.id \in Games /\ r = ResultOf(r.id) /\ Ended(r.id)
    BY <1>1 DEF ResultsInv, RowsInv
  <2>2. PICK g : g = r.id
    OBVIOUS
  <2>3. /\ r.endedAt = table[g].endedAt /\ r.ids = table[g].ids /\ r.winner = table[g].winner
        /\ r.events = table[g].events
    BY <2>1, <2>2 DEF ResultOf
  <2>4. table[g] \in Sessions
    BY <2>1, <2>2 DEF ResultsInv, ResultsTypeOK
  <2>. QED BY <2>1, <2>2, <2>3, <2>4 DEF Sessions, Ended
<1>4. ASSUME NEW a \in R, NEW b \in R, a.endedAt = b.endedAt PROVE a = b
  <2>1. a.id = b.id
    BY <1>3, <1>4 DEF ResultsInv, EndsInv
  <2>. QED BY <1>3, <2>1
<1>. QED BY <1>2, <1>3, <1>4 DEF Timed

LEMMA RowsAreResults ==
  ASSUME ResultsInv, NEW who \in Accounts
  PROVE  PgResults(who) = MemResults(who) /\ PgStats(who) = MemStats(who)
<1>. DEFINE R == MemResults(who)
            rows == {row \in pgRows : RowInvolves(row, who)}
            W == {r \in R : r.ids[r.winner] = who}
            won == {row \in rows : \E s \in Seat : SqlEq(row.ids[s], who) /\ row.winner = s}
<1>1. ASSUME NEW r \in memRows
      PROVE  /\ Scanned(RowOf(r)) = r
             /\ RowInvolves(RowOf(r), who) <=> Involves(r, who)
             /\ (\E s \in Seat : SqlEq(RowOf(r).ids[s], who) /\ RowOf(r).winner = s)
                   <=> (Involves(r, who) /\ r.ids[r.winner] = who)
  <2>1. r.id \in Games /\ r = ResultOf(r.id) /\ Ended(r.id)
    BY DEF ResultsInv, RowsInv
  <2>2. /\ Scanned(RowOf(r)) = r /\ RowOf(r).winner = r.winner
        /\ RowOf(r).ids = [s \in Seat |-> NullStr(r.ids[s])]
    BY <2>1, RowFacts DEF ResultsInv
  <2>3. r.winner \in Seat
    BY <2>1 DEF ResultOf, Ended
  <2>4. ASSUME NEW s \in Seat PROVE SqlEq(RowOf(r).ids[s], who) <=> (who # Guest /\ r.ids[s] = who)
    <3>1. RowOf(r).ids[s] = NullStr(r.ids[s])
      BY <2>2
    <3>. QED BY <3>1, NullAssumption DEF SqlEq, NullStr
  <2>. QED BY <2>2, <2>3, <2>4 DEF RowInvolves, Involves
<1>2. pgRows = {RowOf(r) : r \in memRows} /\ IsFiniteSet(memRows)
  BY DEF ResultsInv, RowsInv
<1>3. rows = {RowOf(r) : r \in R} /\ won = {RowOf(r) : r \in W}
  BY <1>1, <1>2 DEF MemResults
<1>4. PgResults(who) = R
  <2>1. PgResults(who) = {Scanned(row) : row \in rows}
    BY DEF PgResults
  <2>2. \A r \in R : Scanned(RowOf(r)) = r
    BY <1>1 DEF MemResults
  <2>. HIDE DEF rows, R
  <2>. QED BY <1>3, <2>1, <2>2
<1>5. ASSUME NEW T \in SUBSET R PROVE Cardinality({RowOf(r) : r \in T}) = Cardinality(T)
  <2>. DEFINE U == {RowOf(r) : r \in T}
              f == [r \in T |-> RowOf(r)]
  <2>1. T \in SUBSET memRows
    BY DEF MemResults
  <2>2. \A r \in T : Scanned(f[r]) = r
    BY <1>1, <2>1
  <2>3. f \in Injection(T, U)
    BY <2>2 DEF Injection, IsInjective
  <2>4. f \in Surjection(T, U)
    BY DEF Surjection
  <2>5. ExistsBijection(T, U)
    BY <2>3, <2>4 DEF ExistsBijection, Bijection
  <2>6. IsFiniteSet(T)
    BY <1>2, <2>1, FS_Subset
  <2>. QED BY <2>5, <2>6, FS_Bijection
<1>6. PgStats(who) = [total |-> Cardinality(rows), wins |-> Cardinality(won)]
  BY DEF PgStats
<1>7. MemStats(who) = [total |-> Cardinality(R), wins |-> Cardinality(W)]
  BY DEF MemStats
<1>8. R \in SUBSET R /\ W \in SUBSET R
  OBVIOUS
<1>9. Cardinality(rows) = Cardinality(R) /\ Cardinality(won) = Cardinality(W)
  <2>. HIDE DEF rows, won, R, W
  <2>. QED BY <1>3, <1>5, <1>8
<1>. HIDE DEF rows, won, W
<1>. QED BY <1>4, <1>6, <1>7, <1>9

-----------------------------------------------------------------------------
(***************************************************************************)
(* The sums of the pages.                                                  *)
(***************************************************************************)

\* What the totals of the statistics unfold to.
PointsOfParts(R, who, cat) ==
  CHOOSE g : g = [T \in SUBSET R |->
    IF T = {} THEN 0
    ELSE (CHOOSE x \in T : TRUE).events[SeatOf((CHOOSE x \in T : TRUE), who)][cat]
           + g[T \ {CHOOSE x \in T : TRUE}]]

LEMMA PointsUnfold ==
  ASSUME NEW R, R # {}, NEW who, NEW cat
  PROVE  CategoryStats(R, who, cat).total = PointsOfParts(R, who, cat)[R]
BY DEF CategoryStats, MapThenSumSet, MapThenFoldSet, PointsOfParts

TotalsOfParts(p) ==
  CHOOSE g : g = [T \in SUBSET Category |->
    IF T = {} THEN 0
    ELSE p.points[CHOOSE x \in T : TRUE].total + g[T \ {CHOOSE x \in T : TRUE}]]

LEMMA CategoriesUnfold ==
  ASSUME NEW p
  PROVE  LifetimePoints(p) = TotalsOfParts(p)[Category]
BY DEF LifetimePoints, MapThenSumSet, MapThenFoldSet, TotalsOfParts

AllPoints(R, who, cat) == [r \in R |-> r.events[SeatOf(r, who)][cat]]

LEMMA PointsAddUp ==
  ASSUME NEW R, IsFiniteSet(R), NEW who, NEW cat,
         NEW F, F = AllPoints(R, who, cat), F \in [R -> Nat]
  PROVE  \E f : AddsUp(f, F, R) /\ CategoryStats(R, who, cat).total = f[R]
<1>0. \A r \in R : F[r] = r.events[SeatOf(r, who)][cat]
  BY DEF AllPoints
<1>. DEFINE Points(r) == r.events[SeatOf(r, who)][cat]
            Body(g) == [T \in SUBSET R |->
                          IF T = {} THEN 0
                          ELSE Points(CHOOSE x \in T : TRUE) + g[T \ {CHOOSE x \in T : TRUE}]]
            f == PointsOfParts(R, who, cat)
<1>1. PICK h : Adds(h, F, R)
  BY SumsExist
<1>2. ASSUME NEW g
      PROVE  Body(g) = [T \in SUBSET R |-> IF T = {} THEN 0 ELSE F[First(T)] + g[T \ {First(T)}]]
  <2>1. \A T \in SUBSET R : T # {} => First(T) \in R /\ Points(First(T)) = F[First(T)]
    BY <1>0, FirstIsIn
  <2>. QED BY <2>1 DEF First
<1>3. h = Body(h)
  BY <1>1, <1>2 DEF Adds
<1>4. f = Body(f)
  <2>1. f = CHOOSE g : g = Body(g)
    BY DEF PointsOfParts
  <2>. HIDE DEF Body, f
  <2>. QED BY <1>3, <2>1
<1>5. Adds(f, F, R)
  <2>. HIDE DEF f, Body
  <2>. QED BY <1>2, <1>4 DEF Adds
<1>7. CategoryStats(R, who, cat).total = f[R]
  <2>1. CASE R = {}
    <3>1. f[R] = 0
      <4>. HIDE DEF f
      <4>. QED BY <1>5, <2>1 DEF Adds
    <3>. HIDE DEF f
    <3>. QED BY <2>1, <3>1 DEF CategoryStats
  <2>2. CASE R # {}
    <3>1. CategoryStats(R, who, cat).total = f[R]
      BY ONLY <2>2, PointsUnfold
    <3>. QED BY <3>1
  <2>. QED BY <2>1, <2>2
<1>. HIDE DEF f
<1>8. AddsUp(f, F, R)
  BY <1>5, AnyFirst
<1>. QED BY <1>7, <1>8

\* The sum over the three categories.
LEMMA ThreeCategories ==
  ASSUME NEW p, \A cat \in Category : p.points[cat].total \in Nat
  PROVE  LifetimePoints(p) =
           p.points["pegging"].total + p.points["hand"].total + p.points["crib"].total
<1>. DEFINE F == [cat \in Category |-> p.points[cat].total]
            Body(g) == [T \in SUBSET Category |->
                          IF T = {} THEN 0
                          ELSE p.points[CHOOSE x \in T : TRUE].total + g[T \ {CHOOSE x \in T : TRUE}]]
            f == TotalsOfParts(p)
<1>0. F \in [Category -> Nat] /\ IsFiniteSet(Category)
  <2>1. Category = ({"pegging"} \cup {"hand"}) \cup {"crib"}
    BY DEF Category
  <2>2. IsFiniteSet({"pegging"} \cup {"hand"})
    BY FS_Singleton, FS_AddElement
  <2>3. IsFiniteSet(Category)
    BY <2>1, <2>2, FS_AddElement
  <2>. QED BY <2>3
<1>1. PICK h : Adds(h, F, Category)
  BY <1>0, SumsExist
<1>2. ASSUME NEW g
      PROVE  Body(g) = [T \in SUBSET Category |->
                          IF T = {} THEN 0 ELSE F[First(T)] + g[T \ {First(T)}]]
  <2>1. \A T \in SUBSET Category : T # {} => First(T) \in Category
    BY FirstIsIn
  <2>. QED BY <2>1 DEF First
<1>3. h = Body(h)
  BY <1>1, <1>2 DEF Adds
<1>4. f = Body(f)
  <2>1. f = CHOOSE g : g = Body(g)
    BY DEF TotalsOfParts
  <2>. HIDE DEF Body, f
  <2>. QED BY <1>3, <2>1
<1>5. Adds(f, F, Category)
  <2>. HIDE DEF f, Body
  <2>. QED BY <1>2, <1>4 DEF Adds
<1>6. LifetimePoints(p) = f[Category]
  BY CategoriesUnfold
<1>. HIDE DEF f, Body
<1>7. AddsUp(f, F, Category)
  <2>. HIDE DEF F
  <2>. QED BY <1>0, <1>5, AnyFirst
<1>8. /\ f[Category] = p.points["pegging"].total + f[{"hand", "crib"}]
      /\ f[{"hand", "crib"}] = p.points["hand"].total + f[{"crib"}]
      /\ f[{"crib"}] = p.points["crib"].total + f[{}]
  <2>1. /\ Category \ {"pegging"} = {"hand", "crib"} /\ {"hand", "crib"} \ {"hand"} = {"crib"}
        /\ {"crib"} \ {"crib"} = {}
    BY DEF Category
  <2>2. /\ Category \in SUBSET Category /\ {"hand", "crib"} \in SUBSET Category
        /\ {"crib"} \in SUBSET Category
        /\ "pegging" \in Category /\ "hand" \in Category /\ "crib" \in Category
    BY DEF Category
  <2>3. F["pegging"] = p.points["pegging"].total /\ F["hand"] = p.points["hand"].total /\ F["crib"] = p.points["crib"].total
    BY <2>2
  <2>. HIDE DEF F
  <2>. QED BY <1>7, <2>1, <2>2, <2>3 DEF AddsUp
<1>9. p.points["pegging"].total \in Nat /\ p.points["hand"].total \in Nat /\ p.points["crib"].total \in Nat
  BY DEF Category
<1>10. f[{}] = 0
  BY <1>7 DEF AddsUp
<1>. QED BY <1>6, <1>8, <1>9, <1>10

\* The sum of the points of the games of the page.
YoursOfParts(games) ==
  CHOOSE g : g = [T \in SUBSET DOMAIN games |->
    IF T = {} THEN 0
    ELSE games[CHOOSE x \in T : TRUE].yours + g[T \ {CHOOSE x \in T : TRUE}]]

LEMMA YoursUnfold ==
  ASSUME NEW games
  PROVE  ListedPoints(games) = YoursOfParts(games)[DOMAIN games]
BY DEF ListedPoints, MapThenSumSet, MapThenFoldSet, YoursOfParts

LEMMA YoursAddUp ==
  ASSUME NEW games, NEW S, S = DOMAIN games, IsFiniteSet(S),
         NEW F \in [S -> Nat], \A i \in S : F[i] = games[i].yours
  PROVE  \E f : AddsUp(f, F, S) /\ ListedPoints(games) = f[S]
<1>. DEFINE Body(g) == [T \in SUBSET S |->
                          IF T = {} THEN 0
                          ELSE games[CHOOSE x \in T : TRUE].yours
                                 + g[T \ {CHOOSE x \in T : TRUE}]]
            f == YoursOfParts(games)
<1>1. PICK h : Adds(h, F, S)
  BY SumsExist
<1>2. ASSUME NEW g
      PROVE  Body(g) = [T \in SUBSET S |-> IF T = {} THEN 0 ELSE F[First(T)] + g[T \ {First(T)}]]
  <2>1. \A T \in SUBSET S : T # {} => First(T) \in S
    BY FirstIsIn
  <2>. QED BY <2>1 DEF First
<1>3. h = Body(h)
  BY <1>1, <1>2 DEF Adds
<1>4. f = Body(f)
  <2>1. f = CHOOSE g : g = Body(g)
    BY DEF YoursOfParts
  <2>. HIDE DEF Body, f
  <2>. QED BY <1>3, <2>1
<1>5. Adds(f, F, S)
  <2>. HIDE DEF f, Body
  <2>. QED BY <1>2, <1>4 DEF Adds
<1>6. ListedPoints(games) = f[S]
  BY YoursUnfold
<1>. HIDE DEF f
<1>7. AddsUp(f, F, S)
  BY <1>5, AnyFirst
<1>. QED BY <1>6, <1>7

\* The sums of two functions add up to the sum of their sum.
Plus(F, G, S) == [x \in S |-> F[x] + G[x]]

LEMMA SumsAdd ==
  ASSUME NEW S, NEW F \in [S -> Nat], NEW G \in [S -> Nat], NEW a, NEW b,
         AddsUp(a, F, S), AddsUp(b, G, S)
  PROVE  /\ Plus(F, G, S) \in [S -> Nat]
         /\ \E c : AddsUp(c, Plus(F, G, S), S) /\ c[S] = a[S] + b[S]
<1>. DEFINE c == [T \in SUBSET S |-> a[T] + b[T]]
            H == [x \in S |-> F[x] + G[x]]
<1>1. /\ a[{}] = 0 /\ b[{}] = 0
      /\ \A T \in SUBSET S : a[T] \in Nat /\ b[T] \in Nat
  BY DEF AddsUp
<1>2. c[{}] = 0
  <2>1. c[{}] = a[{}] + b[{}]
    OBVIOUS
  <2>. QED BY <1>1, <2>1
<1>3. c \in [SUBSET S -> Nat]
  <2>1. \A T \in SUBSET S : a[T] + b[T] \in Nat
    BY <1>1
  <2>. QED BY <2>1
<1>4. ASSUME NEW T \in SUBSET S, NEW x \in T PROVE c[T] = H[x] + c[T \ {x}]
  <2>0. x \in S /\ T \ {x} \in SUBSET S
    OBVIOUS
  <2>1. a[T] = F[x] + a[T \ {x}] /\ b[T] = G[x] + b[T \ {x}]
    BY DEF AddsUp
  <2>2. PICK i, j, k, l : i = F[x] /\ j = G[x] /\ k = a[T \ {x}] /\ l = b[T \ {x}]
    OBVIOUS
  <2>3. i \in Nat /\ j \in Nat /\ k \in Nat /\ l \in Nat
    BY <1>1, <2>0, <2>2
  <2>4. c[T] = a[T] + b[T] /\ H[x] = F[x] + G[x] /\ c[T \ {x}] = a[T \ {x}] + b[T \ {x}]
    BY <2>0
  <2>5. c[T] = (i + k) + (j + l) /\ H[x] = i + j /\ c[T \ {x}] = k + l
    <3>. HIDE DEF c, H
    <3>. QED BY <2>1, <2>2, <2>4
  <2>6. (i + k) + (j + l) = (i + j) + (k + l)
    BY <2>3
  <2>. QED BY <2>5, <2>6
<1>5. c[S] = a[S] + b[S]
  OBVIOUS
<1>6. H \in [S -> Nat]
  OBVIOUS
<1>7. H = Plus(F, G, S)
  BY DEF Plus
<1>. HIDE DEF c, H
<1>8. AddsUp(c, H, S)
  BY <1>2, <1>3, <1>4 DEF AddsUp
<1>. QED BY <1>5, <1>6, <1>7, <1>8

\* A sum over some elements of a set, each counted once and at no more than its worth,
\* is no more than the sum over the set.
LEMMA SumsCompare ==
  ASSUME NEW R, IsFiniteSet(R), NEW F \in [R -> Nat], NEW a, AddsUp(a, F, R),
         NEW I, NEW Y \in [I -> Nat], NEW b, AddsUp(b, Y, I),
         NEW h \in [I -> R], \A i, j \in I : h[i] = h[j] => i = j,
         \A i \in I : Y[i] <= F[h[i]]
  PROVE  b[I] <= a[R]
<1>. DEFINE Over(U) == {i \in I : h[i] \in U}
            Good(U) == b[Over(U)] <= a[U]
            G == {n \in Nat : \A U \in SUBSET R : Cardinality(U) <= n => Good(U)}
<1>0. /\ a[{}] = 0 /\ b[{}] = 0
      /\ \A U \in SUBSET R : a[U] \in Nat
      /\ \A U \in SUBSET I : b[U] \in Nat
  BY DEF AddsUp
<1>1. Good({})
  <2>1. Over({}) = {}
    OBVIOUS
  <2>2. b[Over({})] = 0 /\ a[{}] = 0
    <3>. HIDE DEF Over
    <3>. QED BY <1>0, <2>1
  <2>3. b[Over({})] <= a[{}]
    <3>. HIDE DEF Over
    <3>. QED BY <2>2
  <2>. QED BY <2>3
<1>2. 0 \in G
  <2>1. ASSUME NEW U \in SUBSET R, Cardinality(U) <= 0 PROVE U = {}
    <3>1. IsFiniteSet(U) /\ Cardinality(U) \in Nat
      BY FS_Subset, FS_CardinalityType
    <3>. QED BY <2>1, <3>1, FS_EmptySet
  <2>. HIDE DEF Good
  <2>. QED BY <1>1, <2>1
<1>3. ASSUME NEW n \in G PROVE n + 1 \in G
  <2>0. /\ n \in Nat /\ n + 1 \in Nat
        /\ \A U \in SUBSET R : Cardinality(U) <= n => Good(U)
    OBVIOUS
  <2>. SUFFICES ASSUME NEW U \in SUBSET R, Cardinality(U) <= n + 1 PROVE Good(U)
    BY <2>0
  <2>. HIDE DEF G, Good
  <2>1. CASE U = {}
    BY <1>1, <2>1
  <2>2. CASE U # {}
    <3>1. PICK r : r \in U
      BY <2>2
    <3>. DEFINE W == U \ {r}
    <3>2. /\ W \in SUBSET R /\ Cardinality(U) \in Nat /\ Cardinality(W) \in Nat
          /\ Cardinality(U) = Cardinality(W) + 1
      BY <3>1, OneLess
    <3>3. Good(W)
      <4>1. Cardinality(W) <= n
        BY <2>0, <3>2
      <4>. HIDE DEF W
      <4>. QED BY <2>0, <3>2, <4>1
    <3>4. a[U] = F[r] + a[W] /\ F[r] \in Nat /\ a[W] \in Nat
      BY <1>0, <3>1, <3>2 DEF AddsUp
    <3>5. b[Over(W)] <= a[W]
      BY <3>3 DEF Good
    <3>6. Over(W) \in SUBSET I /\ Over(U) \in SUBSET I /\ b[Over(W)] \in Nat
      BY <1>0
    <3>7. CASE \E i \in I : h[i] = r
      <4>1. PICK i : i \in I /\ h[i] = r
        BY <3>7
      <4>2. i \in Over(U) /\ Over(W) = Over(U) \ {i}
        BY <3>1, <4>1
      <4>3. b[Over(U)] = Y[i] + b[Over(W)]
        <5>. HIDE DEF Over, W
        <5>. QED BY <3>6, <4>2 DEF AddsUp
      <4>4. Y[i] <= F[r] /\ Y[i] \in Nat
        BY <4>1
      <4>5. PICK x, y, z, w : x = Y[i] /\ y = F[r] /\ z = b[Over(W)] /\ w = a[W]
        OBVIOUS
      <4>6. x \in Nat /\ y \in Nat /\ z \in Nat /\ w \in Nat /\ x <= y /\ z <= w
        <5>. HIDE DEF Over, W
        <5>. QED BY <3>4, <3>5, <3>6, <4>4, <4>5
      <4>7. x + z <= y + w
        BY <4>6
      <4>8. b[Over(U)] = x + z /\ a[U] = y + w
        <5>. HIDE DEF Over, W
        <5>. QED BY <3>4, <4>3, <4>5
      <4>. QED BY <4>7, <4>8 DEF Good
    <3>8. CASE ~ \E i \in I : h[i] = r
      <4>1. Over(W) = Over(U)
        BY <3>8
      <4>2. b[Over(U)] <= a[U]
        <5>. HIDE DEF Over, W
        <5>. QED BY <3>4, <3>5, <3>6, <4>1
      <4>. QED BY <4>2 DEF Good
    <3>. QED BY <3>7, <3>8
  <2>. QED BY <2>1, <2>2
<1>4. Good(R)
  <2>1. G \in SUBSET Nat
    OBVIOUS
  <2>2. G = Nat
    <3>. HIDE DEF G
    <3>. QED BY <1>2, <1>3, <2>1, InductionOverNat
  <2>3. Cardinality(R) \in G /\ Cardinality(R) <= Cardinality(R)
    <3>1. Cardinality(R) \in Nat
      BY FS_CardinalityType
    <3>. HIDE DEF G
    <3>. QED BY <2>2, <3>1
  <2>. HIDE DEF Good
  <2>. QED BY <2>3
<1>5. Over(R) = I
  OBVIOUS
<1>. HIDE DEF Over
<1>. QED BY <1>4, <1>5

-----------------------------------------------------------------------------
(***************************************************************************)
(* The history page adds up.                                               *)
(***************************************************************************)

LEMMA PointsPage ==
  ASSUME NEW who
  PROVE  LET p == PointStats(who)
         IN  /\ p.games = Cardinality(MemResults(who))
             /\ \A cat \in Category : p.points[cat] = CategoryStats(MemResults(who), who, cat)
BY DEF PointStats

\* The player's seat in a game that is not played on both sides.
LEMMA OwnSeat ==
  ASSUME ResultsInv, NEW who \in Accounts, NEW r \in MemResults(who), TwoPlayers(r)
  PROVE  LET me == SeatOf(r, who)
         IN  /\ me \in Seat /\ Mine(r, who) = me
             /\ r.winner = me <=> r.ids[r.winner] = who
             /\ r.scores[me] \in Nat
             /\ \A cat \in Category : r.events[me][cat] \in Nat
             /\ r.scores[me] <= r.events[me]["pegging"] + r.events[me]["hand"]
                                  + r.events[me]["crib"]
<1>. DEFINE me == SeatOf(r, who)
<1>1. /\ r.ids \in [Seat -> Player] /\ r.winner \in Seat /\ r.events \in Outcomes
      /\ r = ResultOf(r.id) /\ r.id \in Games
  BY PlayersResults
<1>2. who # Guest /\ \E s \in Seat : r.ids[s] = who
  BY DEF MemResults, Involves
<1>3. /\ me \in Seat /\ Mine(r, who) = me
      /\ r.winner = me <=> r.ids[r.winner] = who
  BY <1>1, <1>2 DEF SeatOf, Mine, TwoPlayers, Seat, Other
<1>4. r.events[me] \in [Category -> Nat]
  BY <1>1, <1>3, OutcomesAssumption
<1>5. PICK a, b, c : /\ a = r.events[me]["pegging"] /\ b = r.events[me]["hand"]
                     /\ c = r.events[me]["crib"]
  OBVIOUS
<1>6. a \in Nat /\ b \in Nat /\ c \in Nat
  BY <1>4, <1>5 DEF Category
<1>7. Sum(r.events[me]) = a + b + c
  BY <1>5 DEF Sum
<1>8. r.scores[me] = IF Sum(r.events[me]) > Target THEN Target ELSE Sum(r.events[me])
  <2>1. PICK g : g = r.id
    OBVIOUS
  <2>2. r.events = table[g].events
    BY <1>1, <2>1 DEF ResultOf
  <2>3. r.scores = [s \in Seat |-> IF Sum(table[g].events[s]) > Target THEN Target
                                                              ELSE Sum(table[g].events[s])]
    BY <1>1, <2>1 DEF ResultOf
  <2>. HIDE DEF me
  <2>. QED BY <1>3, <2>2, <2>3
<1>. HIDE DEF me
<1>9. r.scores[me] \in Nat /\ r.scores[me] <= a + b + c
  BY <1>6, <1>7, <1>8, TargetAssumption
<1>10. /\ \A cat \in Category : r.events[me][cat] \in Nat
  BY <1>4
<1>. QED BY <1>3, <1>5, <1>9, <1>10 DEF me

\* What the page lists, as the results themselves.
LEMMA PageLists ==
  ASSUME ResultsInv, NEW who \in Accounts,
         NEW R, R = MemResults(who), NEW list, list = Newest(R), NEW n, n = Cardinality(R),
         NEW k, k = Min({n, ListLimit}),
         NEW games, games = UserGames(R, MemStats(who), who).games
  PROVE  /\ n \in Nat /\ k \in 0..n /\ (k = n \/ k = ListLimit) /\ IsFiniteSet(R)
         /\ games = [i \in 1..k |-> Summarize(list[i], who)]
         /\ \A i \in 1..k : list[i] \in R /\ Place(R, list[i]) = i
         /\ \A i, j \in 1..k : list[i] = list[j] => i = j
<1>1. Timed(R)
  BY PlayersResults
<1>2. /\ n \in Nat /\ k \in 0..n /\ (k = n \/ k = ListLimit)
      /\ list = [i \in 1..k |-> list[i]]
      /\ \A i \in 1..k : list[i] \in R /\ Place(R, list[i]) = i
  BY <1>1, ListIsNewest
<1>3. games = [i \in DOMAIN list |-> Summarize(list[i], who)]
  BY DEF UserGames
<1>4. DOMAIN list = 1..k
  <2>1. DOMAIN [i \in 1..k |-> list[i]] = 1..k
    OBVIOUS
  <2>. QED BY <1>2, <2>1
<1>5. IsFiniteSet(R)
  BY <1>1 DEF Timed
<1>6. ASSUME NEW i \in 1..k, NEW j \in 1..k, list[i] = list[j] PROVE i = j
  <2>1. Place(R, list[i]) = i /\ Place(R, list[j]) = j
    BY <1>2
  <2>. QED BY <1>6, <2>1
<1>. QED BY <1>2, <1>3, <1>4, <1>5, <1>6

\* A set that can be listed without repetition in another is no larger.
LEMMA NoLarger ==
  ASSUME NEW S, NEW T, IsFiniteSet(T), NEW h, \A i \in S : h[i] \in T,
         \A i, j \in S : h[i] = h[j] => i = j
  PROVE  Cardinality(S) <= Cardinality(T)
<1>. DEFINE f == [i \in S |-> h[i]]
<1>1. f \in Injection(S, T)
  BY DEF Injection, IsInjective
<1>. QED BY <1>1, FS_Injection

\* A part of a finite set and the rest of it.
LEMMA PartAndRest ==
  ASSUME NEW S, IsFiniteSet(S), NEW T \in SUBSET S
  PROVE  /\ IsFiniteSet(T) /\ IsFiniteSet(S \ T) /\ Cardinality(T) \in Nat
         /\ Cardinality(S \ T) = Cardinality(S) - Cardinality(T)
<1>1. IsFiniteSet(T) /\ IsFiniteSet(S \ T)
  BY FS_Subset
<1>2. S \cap T = T
  OBVIOUS
<1>3. Cardinality(S \ T) = Cardinality(S) - Cardinality(S \cap T)
  BY FS_Difference
<1>4. Cardinality(T) \in Nat
  BY <1>1, FS_CardinalityType
<1>. QED BY <1>1, <1>2, <1>3, <1>4

\* The games listed as won and as lost are wins and losses.
LEMMA WinsCover ==
  ASSUME ResultsInv, NEW who \in Accounts, PlaysOthers(who),
         NEW R, R = MemResults(who),
         NEW games, games = UserGames(R, MemStats(who), who).games
  PROVE  LET won == {i \in DOMAIN games : games[i].won}
             wins == Cardinality({r \in R : r.ids[r.winner] = who})
         IN  /\ Cardinality(won) <= wins
             /\ Len(games) - Cardinality(won) <= Cardinality(R) - wins
<1>1. PICK list, n, k : list = Newest(R) /\ n = Cardinality(R) /\ k = Min({n, ListLimit})
  OBVIOUS
<1>2. /\ n \in Nat /\ k \in 0..n /\ IsFiniteSet(R)
      /\ games = [i \in 1..k |-> Summarize(list[i], who)]
      /\ \A i \in 1..k : list[i] \in R
      /\ \A i, j \in 1..k : list[i] = list[j] => i = j
  BY <1>1, PageLists
<1>. DEFINE W == {r \in R : r.ids[r.winner] = who}
            won == {i \in 1..k : games[i].won}
            lost == (1..k) \ won
<1>3. ASSUME NEW i \in 1..k PROVE games[i].won <=> list[i] \in W
  <2>1. PICK r : r = list[i] /\ r \in R /\ TwoPlayers(r)
    BY <1>2 DEF PlaysOthers
  <2>2. games[i].won = (r.winner = Mine(r, who))
    BY <1>2, <2>1 DEF Summarize
  <2>3. r.winner = Mine(r, who) <=> r.ids[r.winner] = who
    BY <2>1, OwnSeat
  <2>. QED BY <2>1, <2>2, <2>3
<1>4. DOMAIN games = 1..k /\ Len(games) = k
  <2>1. DOMAIN games = 1..k
    BY <1>2
  <2>2. k \in Nat
    BY <1>2
  <2>3. games \in Seq({games[i] : i \in 1..k})
    BY <1>2, <2>2
  <2>. QED BY <2>1, <2>2, <2>3
<1>5. IsFiniteSet(W) /\ IsFiniteSet(R \ W) /\ Cardinality(R \ W) = n - Cardinality(W)
      /\ Cardinality(W) \in Nat
  <2>1. W \in SUBSET R
    OBVIOUS
  <2>. HIDE DEF W
  <2>2. /\ IsFiniteSet(W) /\ IsFiniteSet(R \ W) /\ Cardinality(W) \in Nat
        /\ Cardinality(R \ W) = Cardinality(R) - Cardinality(W)
    BY <1>2, <2>1, PartAndRest
  <2>. QED BY <1>1, <2>2
<1>6. Cardinality(won) <= Cardinality(W)
  <2>1. \A i \in won : list[i] \in W
    BY <1>3
  <2>2. \A i, j \in won : list[i] = list[j] => i = j
    BY <1>2
  <2>. HIDE DEF won, W
  <2>. QED BY <1>5, <2>1, <2>2, NoLarger
<1>7. Cardinality(lost) <= Cardinality(R \ W)
  <2>1. \A i \in lost : list[i] \in R \ W
    BY <1>2, <1>3
  <2>2. \A i, j \in lost : list[i] = list[j] => i = j
    BY <1>2
  <2>. HIDE DEF lost, W
  <2>. QED BY <1>5, <2>1, <2>2, NoLarger
<1>8. Cardinality(lost) = k - Cardinality(won) /\ Cardinality(won) \in Nat
  <2>1. IsFiniteSet(1..k) /\ Cardinality(1..k) = k
    BY <1>2, FS_Interval
  <2>2. won \in SUBSET (1..k)
    OBVIOUS
  <2>. HIDE DEF won
  <2>. QED BY <2>1, <2>2, PartAndRest
<1>9. won = {i \in DOMAIN games : games[i].won}
  BY <1>4
<1>10. Len(games) - Cardinality(won) <= Cardinality(R) - Cardinality(W)
  <2>. HIDE DEF won, lost, W
  <2>1. k \in Nat
    BY <1>2
  <2>. QED BY <1>1, <1>2, <1>4, <1>5, <1>7, <1>8, <2>1
<1>. HIDE DEF won
<1>. QED BY <1>6, <1>9, <1>10

\* Every result is listed, or everything listed is newer.
LEMMA ListedOrNewer ==
  ASSUME ResultsInv, NEW who \in Accounts, NEW r \in MemResults(who),
         NEW games, games = UserGames(MemResults(who), MemStats(who), who).games
  PROVE  \/ \E i \in DOMAIN games : games[i].id = r.id
         \/ \A i \in DOMAIN games : games[i].endedAt > r.endedAt
<1>1. PICK R, list, n, k : /\ R = MemResults(who) /\ list = Newest(R) /\ n = Cardinality(R)
                           /\ k = Min({n, ListLimit})
  OBVIOUS
<1>2. /\ n \in Nat /\ k \in 0..n
      /\ games = [i \in 1..k |-> Summarize(list[i], who)]
      /\ \A i \in 1..k : list[i] \in R /\ Place(R, list[i]) = i
  BY <1>1, PageLists
<1>3. Timed(R)
  BY <1>1, PlayersResults
<1>4. /\ Place(R, r) \in 1..n
      /\ \A a, b \in R : a.endedAt < b.endedAt => Place(R, b) < Place(R, a)
  BY <1>1, <1>3, EachHasItsPlace
<1>5. \A x \in R : x.endedAt \in Nat
  BY <1>3 DEF Timed
<1>6. ASSUME NEW i \in 1..k
      PROVE  games[i].id = list[i].id /\ games[i].endedAt = list[i].endedAt
  BY <1>2 DEF Summarize
<1>7. CASE Place(R, r) \in 1..k
  <2>1. PICK j : j = Place(R, r) /\ j \in 1..k
    BY <1>7
  <2>2. list[j] \in R /\ Place(R, list[j]) = Place(R, r)
    BY <1>2, <2>1
  <2>3. list[j].endedAt = r.endedAt
    <3>1. Place(R, r) \in Nat
      BY <1>2, <1>4
    <3>2. ~(list[j].endedAt < r.endedAt) /\ ~(r.endedAt < list[j].endedAt)
      BY <1>1, <1>4, <2>2, <3>1
    <3>. QED BY <1>1, <1>5, <2>2, <3>2
  <2>4. list[j] = r
    BY <1>1, <1>3, <2>2, <2>3 DEF Timed
  <2>. QED BY <1>2, <1>6, <2>1, <2>4
<1>8. CASE Place(R, r) \notin 1..k
  <2>1. Place(R, r) \in Nat /\ k \in Nat /\ Place(R, r) > k
    BY <1>2, <1>4, <1>8
  <2>2. ASSUME NEW i \in 1..k PROVE list[i].endedAt > r.endedAt
    <3>1. list[i] \in R /\ Place(R, list[i]) = i /\ Place(R, list[i]) < Place(R, r)
      BY <1>2, <2>1
    <3>2. ~(list[i].endedAt < r.endedAt)
      <4>1. list[i].endedAt < r.endedAt => Place(R, r) < Place(R, list[i])
        BY <1>1, <1>4, <3>1
      <4>2. i \in Nat
        BY <2>1
      <4>. QED BY <2>1, <3>1, <4>1, <4>2
    <3>3. list[i].endedAt # r.endedAt
      <4>1. list[i].endedAt = r.endedAt => list[i] = r
        BY <1>1, <1>3, <3>1 DEF Timed
      <4>2. list[i] # r
        BY <2>1, <3>1
      <4>. QED BY <4>1, <4>2
    <3>4. list[i].endedAt \in Nat /\ r.endedAt \in Nat
      BY <1>1, <1>5, <3>1
    <3>. QED BY <3>2, <3>3, <3>4
  <2>. QED BY <1>2, <1>6, <2>2
<1>. QED BY <1>7, <1>8

\* The lifetime points cover the scores of the games listed.
LEMMA PointsCover ==
  ASSUME ResultsInv, NEW who \in Accounts, PlaysOthers(who),
         NEW p, p = PointStats(who),
         NEW games, games = UserGames(MemResults(who), MemStats(who), who).games
  PROVE  LifetimePoints(p) >= ListedPoints(games)
<1>1. PICK R, list, n, k : /\ R = MemResults(who) /\ list = Newest(R) /\ n = Cardinality(R)
                           /\ k = Min({n, ListLimit})
  OBVIOUS
<1>2. /\ n \in Nat /\ k \in 0..n /\ IsFiniteSet(R)
      /\ games = [i \in 1..k |-> Summarize(list[i], who)]
      /\ \A i \in 1..k : list[i] \in R
      /\ \A i, j \in 1..k : list[i] = list[j] => i = j
  BY <1>1, PageLists
<1>. DEFINE F(cat) == [r \in R |-> r.events[SeatOf(r, who)][cat]]
<1>3. ASSUME NEW r \in R
      PROVE  LET me == SeatOf(r, who)
             IN  /\ Mine(r, who) = me /\ r.scores[me] \in Nat
                 /\ \A cat \in Category : r.events[me][cat] \in Nat
                 /\ r.scores[me] <= r.events[me]["pegging"] + r.events[me]["hand"]
                                      + r.events[me]["crib"]
  <2>1. TwoPlayers(r) /\ r \in MemResults(who)
    BY <1>1 DEF PlaysOthers
  <2>. QED BY <2>1, OwnSeat
<1>4. ASSUME NEW cat \in Category
      PROVE  /\ F(cat) \in [R -> Nat]
             /\ \E f : AddsUp(f, F(cat), R) /\ p.points[cat].total = f[R]
  <2>1. F(cat) \in [R -> Nat]
    BY <1>3
  <2>2. PICK E : E = AllPoints(R, who, cat) /\ E \in [R -> Nat] /\ E = F(cat)
    BY <2>1 DEF AllPoints
  <2>3. IsFiniteSet(R)
    BY <1>2
  <2>. HIDE DEF F
  <2>4. PICK f : AddsUp(f, E, R) /\ CategoryStats(R, who, cat).total = f[R]
    BY ONLY <2>2, <2>3, PointsAddUp, ZenonT(40)
  <2>5. p.points[cat] = CategoryStats(R, who, cat)
    BY <1>1, PointsPage
  <2>. QED BY <2>1, <2>2, <2>4, <2>5
<1>5. "pegging" \in Category /\ "hand" \in Category /\ "crib" \in Category
  BY DEF Category
<1>. HIDE DEF F
<1>6. PICK a : AddsUp(a, F("pegging"), R) /\ p.points["pegging"].total = a[R]
  BY <1>4, <1>5
<1>7. PICK b : AddsUp(b, F("hand"), R) /\ p.points["hand"].total = b[R]
  BY <1>4, <1>5
<1>8. PICK c : AddsUp(c, F("crib"), R) /\ p.points["crib"].total = c[R]
  BY <1>4, <1>5
<1>9. a[R] \in Nat /\ b[R] \in Nat /\ c[R] \in Nat
  BY <1>6, <1>7, <1>8 DEF AddsUp
<1>10. LifetimePoints(p) = a[R] + b[R] + c[R]
  <2>1. ASSUME NEW cat \in Category PROVE p.points[cat].total \in Nat
    <3>1. PICK f : AddsUp(f, F(cat), R) /\ p.points[cat].total = f[R]
      BY <1>4
    <3>. QED BY <3>1 DEF AddsUp
  <2>2. LifetimePoints(p) =
          p.points["pegging"].total + p.points["hand"].total + p.points["crib"].total
    BY <2>1, ThreeCategories
  <2>. QED BY <1>6, <1>7, <1>8, <2>2
<1>11. /\ F("pegging") \in [R -> Nat] /\ F("hand") \in [R -> Nat] /\ F("crib") \in [R -> Nat]
  BY <1>4, <1>5
<1>. DEFINE FG == Plus(F("pegging"), F("hand"), R)
            FS == Plus(FG, F("crib"), R)
            Y  == [i \in 1..k |-> games[i].yours]
<1>12. FG \in [R -> Nat] /\ \E ab : AddsUp(ab, FG, R) /\ ab[R] = a[R] + b[R]
  BY <1>6, <1>7, <1>11, SumsAdd
<1>13. /\ FS \in [R -> Nat]
       /\ \E s : AddsUp(s, FS, R) /\ s[R] = (a[R] + b[R]) + c[R]
  <2>. HIDE DEF FG
  <2>1. PICK ab : AddsUp(ab, FG, R) /\ ab[R] = a[R] + b[R]
    BY <1>12
  <2>2. FS \in [R -> Nat] /\ \E s : AddsUp(s, FS, R) /\ s[R] = ab[R] + c[R]
    BY <1>8, <1>11, <1>12, <2>1, SumsAdd
  <2>. HIDE DEF FS
  <2>. QED BY <2>1, <2>2
<1>14. PICK s : AddsUp(s, FS, R) /\ s[R] = a[R] + b[R] + c[R]
  <2>. HIDE DEF FS
  <2>. QED BY <1>13
<1>15. DOMAIN games = 1..k /\ IsFiniteSet(1..k)
  <2>1. DOMAIN games = 1..k /\ k \in Int /\ 1 \in Int
    BY <1>2
  <2>2. IsFiniteSet(1..k)
    BY <2>1, FS_Interval
  <2>. QED BY <2>1, <2>2
<1>16. ASSUME NEW i \in 1..k
       PROVE  Y[i] \in Nat /\ Y[i] <= FS[list[i]]
  <2>1. PICK r : r = list[i] /\ r \in R
    BY <1>2
  <2>2. PICK me : me = SeatOf(r, who) /\ Mine(r, who) = me
    BY <1>3, <2>1
  <2>3. games[i].yours = r.scores[me]
    BY <1>2, <2>1, <2>2 DEF Summarize
  <2>4. FS[r] = (F("pegging")[r] + F("hand")[r]) + F("crib")[r]
    BY <2>1 DEF Plus
  <2>5. \A cat : F(cat)[r] = r.events[me][cat]
    BY <2>1, <2>2 DEF F
  <2>6. /\ r.scores[me] \in Nat
        /\ r.scores[me] <= r.events[me]["pegging"] + r.events[me]["hand"] + r.events[me]["crib"]
    BY <1>3, <2>1, <2>2
  <2>7. Y[i] = games[i].yours
    OBVIOUS
  <2>. HIDE DEF FS, Y
  <2>8. FS[list[i]] = r.events[me]["pegging"] + r.events[me]["hand"] + r.events[me]["crib"]
    BY <2>1, <2>4, <2>5
  <2>. QED BY <2>3, <2>6, <2>7, <2>8
<1>17. Y \in [1..k -> Nat] /\ \A i \in 1..k : Y[i] = games[i].yours
  <2>1. \A i \in 1..k : Y[i] = games[i].yours
    OBVIOUS
  <2>2. \A i \in 1..k : Y[i] \in Nat
    BY <1>16
  <2>3. \A i \in 1..k : games[i].yours \in Nat
    BY <2>1, <2>2
  <2>. QED BY <2>1, <2>3
<1>. HIDE DEF FG, FS, Y
<1>18. PICK y : /\ AddsUp(y, Y, 1..k)
                /\ ListedPoints(games) = y[1..k]
  BY ONLY <1>15, <1>17, YoursAddUp, ZenonT(40)
<1>. DEFINE h == [i \in 1..k |-> list[i]]
<1>20. h \in [1..k -> R] /\ (\A i, j \in 1..k : h[i] = h[j] => i = j) /\ \A i \in 1..k : h[i] = list[i]
  BY <1>2
<1>21. \A i \in 1..k : Y[i] <= FS[h[i]]
  BY <1>16
<1>. HIDE DEF h
<1>22. y[1..k] <= s[R]
  <2>1. IsFiniteSet(R) /\ FS \in [R -> Nat]
    BY <1>2, <1>13
  <2>. QED BY <1>14, <1>17, <1>18, <1>20, <1>21, <2>1, SumsCompare
<1>23. y[1..k] \in Nat
  BY <1>18 DEF AddsUp
<1>24. PICK u, v, w : u = LifetimePoints(p)
                      /\ v = ListedPoints(games) /\ w = s[R]
  OBVIOUS
<1>25. u = w /\ v <= w /\ v \in Nat /\ w \in Nat
  BY <1>9, <1>10, <1>14, <1>18, <1>22, <1>23, <1>24
<1>26. u >= v
  BY <1>25
<1>. QED BY <1>24, <1>26

LEMMA HistoryHolds == ResultsInv => HistoryAddsUp
<1>. SUFFICES ASSUME ResultsInv, NEW who \in Accounts
     PROVE
    LET page == UserGames(MemResults(who), MemStats(who), who)
        won  == {i \in DOMAIN page.games : page.games[i].won}
        pts  == PointStats(who)
    IN  /\ page = UserGames(PgResults(who), PgStats(who), who)
        /\ PlaysOthers(who) =>
             /\ Cardinality(won) <= page.wins
             /\ Len(page.games) - Cardinality(won) <= page.losses
             /\ Len(page.games) = Min({page.total, ListLimit})
             /\ pts.games = page.total
             /\ LifetimePoints(pts) >= ListedPoints(page.games)
             /\ \A r \in MemResults(who) :
                  \/ \E i \in DOMAIN page.games : page.games[i].id = r.id
                  \/ \A i \in DOMAIN page.games : page.games[i].endedAt > r.endedAt
  BY DEF HistoryAddsUp
<1>1. PICK R, page, games, pts :
        /\ R = MemResults(who) /\ page = UserGames(R, MemStats(who), who) /\ games = page.games
        /\ pts = PointStats(who)
  OBVIOUS
<1>2. page = UserGames(PgResults(who), PgStats(who), who)
  BY <1>1, RowsAreResults
<1>3. /\ page.total = Cardinality(R)
      /\ page.wins = Cardinality({r \in R : r.ids[r.winner] = who})
      /\ page.losses = page.total - page.wins
  BY <1>1 DEF UserGames, MemStats
<1>4. PlaysOthers(who) =>
        /\ Cardinality({i \in DOMAIN games : games[i].won}) <= page.wins
        /\ Len(games) - Cardinality({i \in DOMAIN games : games[i].won}) <= page.losses
  BY <1>1, <1>3, WinsCover
<1>5. Len(games) = Min({page.total, ListLimit})
  <2>1. PICK list, n, k : list = Newest(R) /\ n = Cardinality(R) /\ k = Min({n, ListLimit})
    OBVIOUS
  <2>2. k \in Nat /\ games = [i \in 1..k |-> Summarize(list[i], who)]
    BY <1>1, <2>1, PageLists
  <2>3. Len(games) = k
    <3>1. games \in Seq({games[i] : i \in 1..k}) /\ DOMAIN games = 1..k
      BY <2>2
    <3>. QED BY <2>2, <3>1
  <2>. QED BY <1>3, <2>1, <2>3
<1>6. pts.games = page.total
  BY <1>1, <1>3, PointsPage
<1>7. PlaysOthers(who) =>
        LifetimePoints(pts) >= ListedPoints(games)
  BY <1>1, PointsCover
<1>8. \A r \in R :
        \/ \E i \in DOMAIN games : games[i].id = r.id
        \/ \A i \in DOMAIN games : games[i].endedAt > r.endedAt
  BY <1>1, ListedOrNewer
<1>. QED BY <1>1, <1>2, <1>4, <1>5, <1>6, <1>7, <1>8

\* The history page is the same over either store, its wins, losses and points cover
\* the games it lists, and what it does not list is older (handleUserGames,
\* computePointStats).
THEOREM HistoryPageAddsUp == ResultsSpec => []HistoryAddsUp
<1>1. ResultsSpec => []ResultsInv
  BY ResultsInvariant
<1>2. ResultsInv => HistoryAddsUp
  BY HistoryHolds
<1>. QED BY <1>1, <1>2, PTL
=============================================================================

---------------------------- MODULE AccountsProofs ----------------------------
(***************************************************************************)
(* Everyone can log in with their name and with their address, a reset     *)
(* ends the logins made before it, and a mailed link works, whatever       *)
(* people type, however many requests overlap, fail or are cut short.  The *)
(* limiter in front of the forms implements windows that close by          *)
(* themselves, for every limit, length and set of keys.                    *)
(***************************************************************************)
EXTENDS Accounts, RateLimiter, TLAPS

\* What the table of users keeps: names and addresses as the handlers let
\* them through, in lower case, and no two rows with one of either.
RowOK(u) ==
  /\ ValidUsername(u.name) /\ ToLower(u.name) = u.name
  /\ ValidEmail(u.email) /\ ToLower(u.email) = u.email

Distinct(rows) ==
  \A u, v \in rows : u.name = v.name \/ u.email = v.email \/ u.id = v.id => u = v

\* The store is a record of three tables.
IsStore(d) == d \in [users : {d.users}, sessions : {d.sessions}, resets : {d.resets}]

UsersInv == IsStore(db) /\ (\A u \in db.users : RowOK(u)) /\ Distinct(db.users)

\* Lower case is stable, so what the handlers normalised is what the store
\* keeps and looks up.
LEMMA LowerTwice == \A s : ToLower(ToLower(s)) = ToLower(s)
BY DEF ToLower, LowerChar

\* A user name has no at, an address has one.
LEMMA NameIsNoAddress ==
  ASSUME NEW n, ValidUsername(n), NEW e, ValidEmail(e) PROVE n # e
<1>1. \A i \in DOMAIN n : n[i] # "@"
  BY DEF ValidUsername
<1>2. \E i \in DOMAIN e : e[i] = "@"
  BY DEF ValidEmail
<1>3. QED
  BY <1>1, <1>2

\* Under the invariant each row is the one that is found.
LEMMA InvFinds == UsersInv => LogInFindsItsAccount
<1> SUFFICES ASSUME UsersInv, NEW u \in db.users
             PROVE  Found(u.name) = {u} /\ Found(u.email) = {u}
  BY DEF LogInFindsItsAccount
<1>1. RowOK(u) /\ \A v \in db.users : RowOK(v)
  BY DEF UsersInv
<1>2. \A v \in db.users : v.name = u.name \/ v.email = u.email => v = u
  BY DEF UsersInv, Distinct
<1>3. PgByName(db, u.name) = {u}
  BY <1>1, <1>2 DEF PgByName, RowOK
<1>4. PgByName(db, u.email) = {}
  <2>1. \A v \in db.users : v.name # u.email
    BY <1>1, NameIsNoAddress DEF RowOK
  <2>2. QED
    BY <2>1, <1>1 DEF PgByName, RowOK
<1>5. PgByEmail(db, u.email) = {u}
  BY <1>1, <1>2 DEF PgByEmail, RowOK
<1>6. QED
  BY <1>3, <1>4, <1>5 DEF Found

\* A sign-up that the store lets through keeps the invariant.
LEMMA SignUpKeeps ==
  ASSUME UsersInv, NEW name, NEW email,
         ValidUsername(Normal(name)), ValidEmail(Normal(email)),
         ~PgTaken(db, NewUser(Normal(name), Normal(email))),
         db' = PgCreateUser(db, NewUser(Normal(name), Normal(email)))
  PROVE  UsersInv'
<1> DEFINE n == Normal(name)
           e == Normal(email)
           u == NewUser(n, e)
<1>1. ToLower(n) = n /\ ToLower(e) = e
  BY LowerTwice DEF Normal
<1>2. u.name = n /\ u.email = e /\ u.id = fresh
  BY DEF NewUser
<1>3. PgRow(u).name = n /\ PgRow(u).email = e /\ PgRow(u).id = fresh
  BY <1>1 DEF PgRow, NewUser
<1> HIDE DEF n, e, u
<1>4. db' = InsertUser(db, PgRow(u))
  BY DEF PgCreateUser, u, n, e
<1>5. IsStore(db)
  BY DEF UsersInv
<1>6. /\ db'.users = db.users \cup {PgRow(u)} /\ db'.sessions = db.sessions
      /\ db'.resets = db.resets /\ IsStore(db')
  BY <1>4, <1>5 DEF InsertUser, IsStore
<1>7. RowOK(PgRow(u))
  BY <1>1, <1>3 DEF RowOK, n, e
<1>8. \A v \in db.users : v.id # PgRow(u).id /\ v.name # PgRow(u).name /\ v.email # PgRow(u).email
  BY <1>2, <1>3 DEF PgTaken, u, n, e
<1>9. Distinct(db.users) /\ \A v \in db.users : RowOK(v)
  BY DEF UsersInv
<1>10. Distinct(db'.users)
  BY <1>6, <1>8, <1>9 DEF Distinct
<1>11. \A v \in db'.users : RowOK(v)
  BY <1>6, <1>7, <1>9
<1>12. QED
  BY <1>6, <1>10, <1>11 DEF UsersInv, IsStore

\* A change of password keeps it.
LEMMA PasswordKeeps ==
  ASSUME UsersInv, NEW id, NEW hash, db' = SetPassword(db, id, hash)
  PROVE  UsersInv'
<1> DEFINE New(u) == IF u.id = id THEN [u EXCEPT !.hash = hash] ELSE u
<1>1. \A u \in db.users : New(u).name = u.name /\ New(u).email = u.email /\ New(u).id = u.id
  OBVIOUS
<1>2. IsStore(db)
  BY DEF UsersInv
<1>3. db' = [db EXCEPT !.users = {New(u) : u \in db.users}]
  BY DEF SetPassword
<1> HIDE DEF New
<1>4. db'.users = {New(u) : u \in db.users} /\ IsStore(db')
  BY <1>2, <1>3 DEF IsStore
<1>5. Distinct(db.users) /\ \A u \in db.users : RowOK(u)
  BY DEF UsersInv
<1>6. Distinct(db'.users)
  BY <1>1, <1>4, <1>5 DEF Distinct
<1>7. \A u \in db.users : RowOK(New(u))
  BY <1>1, <1>5 DEF RowOK
<1>8. \A u \in db'.users : RowOK(u)
  BY <1>4, <1>7
<1>9. QED
  BY <1>4, <1>6, <1>8 DEF UsersInv, IsStore

\* So does every call that leaves the users alone.
LEMMA OthersKeep ==
  ASSUME UsersInv, NEW x, NEW y, NEW z,
         \/ db' = [db EXCEPT !.sessions = y]
         \/ db' = [db EXCEPT !.resets = z]
         \/ db' = [db EXCEPT !.sessions = y, !.resets = z]
         \/ db' = db
  PROVE  UsersInv'
<1>1. IsStore(db)
  BY DEF UsersInv
<1>2. db'.users = db.users /\ IsStore(db')
  BY <1>1 DEF IsStore
<1>3. QED
  BY <1>2 DEF UsersInv, IsStore, Distinct

LEMMA UsersInvInductive == UsersInv /\ [Next]_vars => UsersInv'
<1> SUFFICES ASSUME UsersInv, [Next]_vars PROVE UsersInv'
  OBVIOUS
<1>e. ASSUME NEW o, NEW then, Ended(o, then) PROVE db' = then \/ db' = db
  BY <1>e DEF Ended
<1>1. ASSUME NEW q \in Reqs, SignUp(q) PROVE UsersInv'
  <2>1. PICK typed \in Usernames \cup Addresses, address \in Addresses, o \in Outcomes :
          LET u == NewUser(Normal(typed), Normal(address))
          IN /\ ValidUsername(u.name) /\ ValidEmail(u.email) /\ ~PgTaken(db, u)
             /\ Ended(o, PgCreateUser(db, u))
    BY <1>1 DEF SignUp
  <2>2. /\ ValidUsername(Normal(typed)) /\ ValidEmail(Normal(address))
        /\ ~PgTaken(db, NewUser(Normal(typed), Normal(address)))
        /\ Ended(o, PgCreateUser(db, NewUser(Normal(typed), Normal(address))))
    BY <2>1 DEF NewUser
  <2>3. CASE db' = PgCreateUser(db, NewUser(Normal(typed), Normal(address)))
    BY <2>2, <2>3, SignUpKeeps
  <2>4. CASE db' = db
    BY <2>4, OthersKeep
  <2>5. QED
    BY <2>2, <2>3, <2>4, <1>e
<1>2. ASSUME NEW q \in Reqs, StartSession(q) PROVE UsersInv'
  <2>1. PICK s : \E o \in Outcomes : Ended(o, InsertSession(db, s))
    BY <1>2 DEF StartSession
  <2>2. db' = [db EXCEPT !.sessions = db.sessions \cup {s}] \/ db' = db
    BY <2>1, <1>e DEF InsertSession
  <2>3. QED
    BY <2>2, OthersKeep
<1>3. ASSUME NEW q \in Reqs, LogOut(q) PROVE UsersInv'
  <2>1. PICK s : \E o \in Outcomes : Ended(o, DeleteSession(db, s.id))
    BY <1>3 DEF LogOut
  <2>2. db' = [db EXCEPT !.sessions = {r \in db.sessions : r.id # s.id}] \/ db' = db
    BY <2>1, <1>e DEF DeleteSession
  <2>3. QED
    BY <2>2, OthersKeep
<1>4. ASSUME NEW q \in Reqs, StoreToken(q) PROVE UsersInv'
  <2>1. PICK t : \E o \in Outcomes : Ended(o, InsertReset(db, t))
    BY <1>4 DEF StoreToken
  <2>2. db' = [db EXCEPT !.resets = db.resets \cup {t}] \/ db' = db
    BY <2>1, <1>e DEF InsertReset
  <2>3. QED
    BY <2>2, OthersKeep
<1>5. ASSUME NEW q \in Reqs, ChangePassword(q) PROVE UsersInv'
  <2>1. PICK o \in Outcomes : Ended(o, SetPassword(db, req[q].user, fresh))
    BY <1>5 DEF ChangePassword
  <2>2. db' = SetPassword(db, req[q].user, fresh) \/ db' = db
    BY <2>1, <1>e
  <2>3. QED
    BY <2>2, PasswordKeeps, OthersKeep
<1>6. ASSUME NEW q \in Reqs, DropToken(q) PROVE UsersInv'
  <2>1. PICK o \in Outcomes : Ended(o, DeleteReset(db, req[q].tok))
    BY <1>6 DEF DropToken
  <2>2. db' = [db EXCEPT !.resets = {t \in db.resets : t.id # req[q].tok}] \/ db' = db
    BY <2>1, <1>e DEF DeleteReset
  <2>3. QED
    BY <2>2, OthersKeep
<1>7. ASSUME NEW q \in Reqs, DropSessions(q) PROVE UsersInv'
  <2>1. PICK o \in Outcomes : Ended(o, DeleteSessionsForUser(db, req[q].user))
    BY <1>7 DEF DropSessions
  <2>2. db' = [db EXCEPT !.sessions = {s \in db.sessions : s.user # req[q].user}] \/ db' = db
    BY <2>1, <1>e DEF DeleteSessionsForUser
  <2>3. QED
    BY <2>2, OthersKeep
<1>8. CASE Reap
  <2>1. \/ db' = [db EXCEPT !.sessions = PgReaped(db.sessions, now),
                            !.resets = PgReaped(db.resets, now)]
        \/ db' = [db EXCEPT !.sessions = PgReaped(db.sessions, now)]
    BY <1>8 DEF Reap, PgReap
  <2>2. QED
    BY <2>1, OthersKeep
<1>9. CASE db' = db
  BY <1>9, OthersKeep
<1>10. ASSUME NEW q \in Reqs,
              \/ LogInByName(q) \/ LogInByEmail(q) \/ AskReset(q) \/ Mail(q) \/ TakeToken(q)
       PROVE  db' = db
  BY <1>10 DEF LogInByName, LogInByEmail, AskReset, Mail, TakeToken
<1>11. Tick \/ Crash \/ UNCHANGED vars => db' = db
  BY DEF Tick, Crash, vars
<1>12. QED
  BY <1>1, <1>2, <1>3, <1>4, <1>5, <1>6, <1>7, <1>8, <1>9, <1>10, <1>11 DEF Next

LEMMA InitUsers == Init => UsersInv
BY DEF Init, NoRows, UsersInv, IsStore, Distinct

\* Whatever is typed into the forms and however requests interleave, a log-in
\* by name or by address finds its own account and no other.
THEOREM LogInIsUnambiguous == Spec => []LogInFindsItsAccount
<1>1. UsersInv /\ [Next]_vars => UsersInv'
  BY UsersInvInductive
<1>2. QED
  BY <1>1, InitUsers, InvFinds, PTL DEF Spec

-----------------------------------------------------------------------------
(***************************************************************************)
(* Resets.  What ties a reset together is the request that carries it: a   *)
(* request only ever acts for a user who exists; while it has changed the  *)
(* password and not yet ended the logins its user is in Changed; a token   *)
(* it is about to drop is spent, and one it is about to mail works.        *)
(***************************************************************************)

Places == {"free", "session", "email", "token", "mail", "update", "dropToken", "dropSessions"}

Requests == [at : Places, user : Nat, pw : Nat, tok : Nat, exp : Nat,
             email : {<<>>} \cup {Normal(t) : t \in Usernames \cup Addresses}]

Typed == /\ IsStore(db) /\ req \in [Reqs -> Requests]
         /\ now \in Nat /\ fresh \in Nat /\ faults \in Nat
         /\ \A u \in db.users : u.id \in Nat /\ u.hash \in Nat
         /\ \A t \in db.resets : t.id \in Nat /\ t.user \in Nat /\ t.exp \in Nat
         /\ \A m \in mails : m.exp \in Nat

Known(id) == \E u \in db.users : u.id = id
Acting(q) == req[q].at \in Places \ {"free", "email"}
Spent(tok) == \E c \in spent : c.tok = tok
Works(id, exp) == \/ exp <= now
                  \/ \E t \in db.resets : t.id = id /\ t.exp = exp
                  \/ Spent(id)

OldLoginsEnd(s) ==
  \A u \in db.users : u.id = s.user /\ s.with # u.hash => s.late \/ s.user \in cut \cup Changed

LoginsInv ==
  /\ \A t \in db.resets : Known(t.user)
  /\ \A q \in Reqs : Acting(q) => Known(req[q].user)
  /\ \A s \in db.sessions : Known(s.user) /\ OldLoginsEnd(s)

LinksInv ==
  /\ \A m \in mails : Works(m.id, m.exp)
  /\ \A q \in Reqs : /\ req[q].at = "mail" => Works(req[q].tok, req[q].exp)
                     /\ req[q].at = "dropToken" => Spent(req[q].tok)

ResetsInv == Typed /\ UsersInv /\ LoginsInv /\ LinksInv

LEMMA TheOrder == /\ After("update") = "dropToken"
                  /\ After("dropToken") = "dropSessions"
                  /\ After("dropSessions") = "free"
<1>1. /\ ResetOrder[1] = "update" /\ ResetOrder[2] = "dropToken"
      /\ ResetOrder[3] = "dropSessions"
  BY DEF ResetOrder
<1>2. ASSUME NEW i \in 1..3, NEW at, ResetOrder[i] = at
      PROVE  (CHOOSE j \in 1..3 : ResetOrder[j] = at) = i
  BY <1>1, <1>2
<1> QED
  BY <1>1, <1>2 DEF After

LEMMA InChanged ==
  \A x : x \in Changed <=>
    \E q \in Reqs : req[q].at \in {"dropToken", "dropSessions"} /\ req[q].user = x
BY DEF Changed

\* A request that has not just changed a password may move on: nobody is
\* lost from Changed.
LEMMA ChangedStays ==
  ASSUME Typed, NEW q \in Reqs, NEW r, Set(q, r),
         req[q].at \in {"dropToken", "dropSessions"}
           => r.at \in {"dropToken", "dropSessions"} /\ r.user = req[q].user
  PROVE  \A x \in Changed : x \in Changed'
<1> SUFFICES ASSUME NEW x \in Changed PROVE x \in Changed'
  OBVIOUS
<1>1. PICK p \in Reqs : req[p].at \in {"dropToken", "dropSessions"} /\ req[p].user = x
  BY InChanged
<1>2. req'[p].at \in {"dropToken", "dropSessions"} /\ req'[p].user = x
  BY <1>1 DEF Set, Typed
<1> QED
  BY <1>2 DEF Changed

\* Steps that change no password.
LEMMA LoginsKept ==
  ASSUME LoginsInv, db'.users = db.users,
         \A t \in db'.resets : t \in db.resets \/ Known(t.user),
         \A q \in Reqs : Acting(q)' => (Acting(q) /\ req'[q].user = req[q].user) \/ Known(req'[q].user),
         \A s \in db'.sessions : s \in db.sessions \/ (Known(s.user) /\ OldLoginsEnd(s)),
         \A s \in db'.sessions : s.user \in cut \cup Changed => s.user \in cut' \cup Changed'
  PROVE  LoginsInv'
<1>1. \A id : Known(id)' <=> Known(id)
  BY DEF Known
<1>2. \A s \in db'.sessions : OldLoginsEnd(s) => OldLoginsEnd(s)'
  BY DEF OldLoginsEnd
<1> QED
  BY <1>1, <1>2 DEF LoginsInv

\* Steps after which every token is still there, expired or spent.
LEMMA LinksKept ==
  ASSUME Typed, LinksInv, spent \subseteq spent', now' \in Nat, now' >= now,
         \A t \in db.resets : t \in db'.resets \/ t.exp <= now' \/ Spent(t.id)',
         \A m \in mails' : m \in mails \/ (m.exp \in Nat /\ Works(m.id, m.exp)),
         \A q \in Reqs : /\ req'[q].at = "mail" => req'[q] = req[q] \/ Works(req[q].tok, req[q].exp)'
                         /\ req'[q].at = "dropToken" => req'[q] = req[q] \/ Spent(req[q].tok)'
  PROVE  LinksInv'
<1>1. \A id : Spent(id) => Spent(id)'
  BY DEF Spent
<1>2. \A id : \A exp \in Nat : Works(id, exp) => Works(id, exp)'
  BY <1>1 DEF Works, Typed
<1>3. \A q \in Reqs : req[q].tok \in Nat /\ req[q].exp \in Nat
  BY DEF Typed, Requests
<1>4. \A m \in mails' : Works(m.id, m.exp)'
  BY <1>2 DEF LinksInv, Typed
<1> QED
  BY <1>1, <1>2, <1>3, <1>4 DEF LinksInv

LEMMA CallEnds ==
  ASSUME Typed, NEW o \in Outcomes, NEW then, Ended(o, then)
  PROVE  /\ db' = then \/ db' = db
         /\ o.ok => o.effect
         /\ o.effect => db' = then
         /\ ~o.effect => db' = db
         /\ faults' \in Nat
<1>1. o \in [ok : {TRUE}, effect : {TRUE}] \/ o \in [ok : {FALSE}, effect : BOOLEAN]
  BY DEF Outcomes
<1>2. (o.ok = TRUE /\ o.effect = TRUE) \/ (o.ok = FALSE /\ o.effect \in BOOLEAN)
  BY <1>1
<1>3. db' = then \/ db' = db
  BY DEF Ended
<1>4. o.ok => o.effect
  BY <1>2
<1>5. (o.effect => db' = then) /\ (~o.effect => db' = db)
  BY DEF Ended
<1>6. faults' \in Nat
  <2>1. faults' = faults \/ faults' = faults + 1
    BY DEF Ended
  <2> QED
    BY <2>1 DEF Typed
<1> QED
  BY <1>3, <1>4, <1>5, <1>6

\* A request that is idle, and one with its fields set, is a request.
LEMMA RequestTypes ==
  /\ Idle \in Requests
  /\ \A r \in Requests, at \in Places : [r EXCEPT !.at = at] \in Requests
  /\ \A at \in Places, x, y \in Nat :
       /\ [Idle EXCEPT !.at = at, !.user = x, !.pw = y] \in Requests
       /\ [Idle EXCEPT !.at = at, !.user = x, !.tok = y] \in Requests
       /\ [Idle EXCEPT !.at = at, !.user = x] \in Requests
  /\ \A r \in Requests, at \in Places, x, y \in Nat :
       [r EXCEPT !.at = at, !.tok = x, !.exp = y] \in Requests
  /\ \A typed \in Usernames \cup Addresses, at \in Places :
       [Idle EXCEPT !.at = at, !.email = Normal(typed)] \in Requests
BY DEF Requests, Idle, Places

\* Steps of a request that leave the store, the mails and the clock alone and
\* do not end a reset.
LEMMA ReadsKeep ==
  ASSUME ResetsInv, NEW q \in Reqs, NEW r \in Requests, Set(q, r),
         UNCHANGED <<db, mails, now, spent, cut>>, fresh' \in Nat, faults' \in Nat,
         req[q].at \notin {"dropToken", "dropSessions"},
         r.at \in Places \ {"free", "email"} => Known(r.user),
         r.at \notin {"mail", "dropToken"}
  PROVE  Typed' /\ LoginsInv' /\ LinksInv'
<1>1. Typed'
  BY DEF ResetsInv, Typed, Set
<1>2. \A x \in Changed : x \in Changed'
  BY ChangedStays DEF ResetsInv
<1>3. \A p \in Reqs : req'[p] = (IF p = q THEN r ELSE req[p])
  BY DEF Set, ResetsInv, Typed
<1>4. LoginsInv'
  BY <1>2, <1>3, LoginsKept DEF ResetsInv, Acting
<1>5. LinksInv'
  BY <1>3, LinksKept DEF ResetsInv, Typed
<1> QED
  BY <1>1, <1>4, <1>5

\* The user of a row, whose password is compared.
LEMMA TheUser ==
  ASSUME UsersInv, NEW u \in db.users
  PROVE  UserOf(u.id) = u
<1>1. \A v \in db.users : v.id = u.id => v = u
  BY DEF UsersInv, Distinct
<1> QED
  BY <1>1 DEF UserOf

LEMMA LogInKeeps ==
  ASSUME ResetsInv, NEW q \in Reqs, LogInByName(q) \/ LogInByEmail(q)
  PROVE  Typed' /\ LoginsInv' /\ LinksInv'
<1>1. /\ req[q].at \in {"free", "email"} /\ UNCHANGED <<db, mails, now, fresh, faults, spent, cut>>
      /\ \/ \E u \in db.users : Set(q, SessionFor(u))
         \/ \E typed \in Usernames \cup Addresses :
              Set(q, [Idle EXCEPT !.at = "email", !.email = Normal(typed)])
         \/ Set(q, Idle)
  BY DEF LogInByName, LogInByEmail, PgByName, PgByEmail
<1>2. fresh' \in Nat /\ faults' \in Nat
  BY <1>1 DEF ResetsInv, Typed
<1>3. ASSUME NEW u \in db.users, Set(q, SessionFor(u))
      PROVE  Typed' /\ LoginsInv' /\ LinksInv'
  <2>1. u.id \in Nat /\ u.hash \in Nat
    BY DEF ResetsInv, Typed
  <2>2. SessionFor(u) \in Requests
    BY <2>1, RequestTypes DEF SessionFor, Places
  <2>3. SessionFor(u).at = "session" /\ SessionFor(u).user = u.id /\ Known(u.id)
    BY DEF SessionFor, Idle, Known
  <2> QED
    BY <1>1, <1>2, <1>3, <2>2, <2>3, ReadsKeep
<1>4. ASSUME NEW typed \in Usernames \cup Addresses,
             Set(q, [Idle EXCEPT !.at = "email", !.email = Normal(typed)])
      PROVE  Typed' /\ LoginsInv' /\ LinksInv'
  <2> DEFINE r == [Idle EXCEPT !.at = "email", !.email = Normal(typed)]
  <2>1. r \in Requests /\ r.at = "email"
    BY RequestTypes DEF Places, Idle
  <2> QED
    BY <1>1, <1>2, <1>4, <2>1, ReadsKeep
<1>5. CASE Set(q, Idle)
  <2>1. Idle \in Requests /\ Idle.at = "free"
    BY RequestTypes DEF Idle
  <2> QED
    BY <1>1, <1>2, <1>5, <2>1, ReadsKeep
<1> QED
  BY <1>1, <1>3, <1>4, <1>5

LEMMA AskResetKeeps ==
  ASSUME ResetsInv, NEW q \in Reqs, AskReset(q) \/ TakeToken(q)
  PROVE  Typed' /\ LoginsInv' /\ LinksInv'
<1>1. req[q].at = "free" /\ UNCHANGED <<db, mails, now, fresh, faults, spent, cut>>
      /\ fresh' \in Nat /\ faults' \in Nat
  BY DEF AskReset, TakeToken, ResetsInv, Typed
<1>2. CASE AskReset(q)
  <2>1. PICK u \in db.users : Set(q, [Idle EXCEPT !.at = "token", !.user = u.id])
    BY <1>2 DEF AskReset, PgByEmail
  <2> DEFINE r == [Idle EXCEPT !.at = "token", !.user = u.id]
  <2>2. r \in Requests /\ r.at = "token" /\ Known(r.user)
    BY RequestTypes DEF Places, Idle, Known, ResetsInv, Typed
  <2> QED
    BY <1>1, <2>1, <2>2, ReadsKeep
<1>3. CASE TakeToken(q)
  <2>1. PICK t \in db.resets : Set(q, [Idle EXCEPT !.at = ResetOrder[1], !.user = t.user, !.tok = t.id])
    BY <1>3 DEF TakeToken, Fresh
  <2> DEFINE r == [Idle EXCEPT !.at = "update", !.user = t.user, !.tok = t.id]
  <2>2. Set(q, r)
    BY <2>1 DEF ResetOrder
  <2>3. r \in Requests /\ r.at = "update" /\ Known(r.user)
    BY RequestTypes DEF Places, Idle, ResetsInv, Typed, LoginsInv
  <2> QED
    BY <1>1, <2>2, <2>3, ReadsKeep
<1> QED
  BY <1>2, <1>3

\* A new account's id is nobody's: what was known of the others stands.
LEMMA SignUpStarts ==
  ASSUME ResetsInv, UsersInv', NEW q \in Reqs, SignUp(q)
  PROVE  Typed' /\ LoginsInv' /\ LinksInv'
<1> DEFINE Asks(u, o) ==
             /\ u.id = fresh /\ u.hash = fresh /\ ~PgTaken(db, u)
             /\ PgRow(u).id = fresh /\ PgRow(u).hash = fresh
             /\ Ended(o, PgCreateUser(db, u))
             /\ Set(q, IF o.ok THEN SessionFor(u) ELSE Idle)
<1>0. PICK u : \E o \in Outcomes : Asks(u, o)
  <2>1. PICK typed \in Usernames \cup Addresses, address \in Addresses, o \in Outcomes :
          LET u == NewUser(Normal(typed), Normal(address))
          IN /\ ~PgTaken(db, u) /\ Ended(o, PgCreateUser(db, u))
             /\ Set(q, IF o.ok THEN SessionFor(u) ELSE Idle)
    BY DEF SignUp
  <2> DEFINE u == NewUser(Normal(typed), Normal(address))
  <2>2. u.id = fresh /\ u.hash = fresh /\ PgRow(u).id = fresh /\ PgRow(u).hash = fresh
    BY DEF NewUser, PgRow
  <2>3. Asks(u, o)
    BY <2>1, <2>2
  <2> QED
    BY <2>3
<1>1. PICK o \in Outcomes : Asks(u, o)
  BY <1>0
<1>2. /\ req[q].at = "free" /\ fresh' = fresh + 1 /\ UNCHANGED <<mails, now, spent, cut>>
      /\ fresh \in Nat
  BY DEF SignUp, Draw, ResetsInv, Typed
<1>3. IsStore(db) /\ PgCreateUser(db, u) = InsertUser(db, PgRow(u))
  BY <1>1 DEF ResetsInv, Typed, PgCreateUser
<1>4. /\ db'.sessions = db.sessions /\ db'.resets = db.resets /\ IsStore(db')
      /\ db'.users = db.users \cup {PgRow(u)} \/ (db'.users = db.users /\ ~o.ok)
      /\ faults' \in Nat
  <2>1. /\ db' = InsertUser(db, PgRow(u)) \/ (db' = db /\ ~o.ok)
        /\ faults' \in Nat
    BY <1>1, <1>3, CallEnds DEF ResetsInv
  <2> QED
    BY <1>3, <2>1 DEF InsertUser, IsStore
<1>5. PICK r \in Requests : /\ Set(q, r) /\ r.at \in {"session", "free"}
                            /\ r.at = "session" => r.user = fresh /\ PgRow(u) \in db'.users
  <2>1. CASE o.ok
    <3>1. SessionFor(u) = [Idle EXCEPT !.at = "session", !.user = fresh, !.pw = fresh]
      BY <1>1 DEF SessionFor
    <3>2. SessionFor(u) \in Requests
      <4>1. u.id \in Nat /\ u.hash \in Nat
        BY <1>1, <1>2
      <4> QED
        BY <4>1, RequestTypes DEF SessionFor, Places
    <3>3. SessionFor(u).user = fresh /\ SessionFor(u).at = "session"
      BY <3>1 DEF Idle
    <3> QED
      BY <1>1, <1>4, <2>1, <3>2, <3>3
  <2>2. CASE ~o.ok
    BY <1>1, <2>2, RequestTypes DEF Idle
  <2> QED
    BY <2>1, <2>2
<1>6. \A p \in Reqs : req'[p] = (IF p = q THEN r ELSE req[p])
  BY <1>5 DEF Set, ResetsInv, Typed
<1>7. Typed'
  BY <1>1, <1>2, <1>4, <1>5 DEF ResetsInv, Typed, Set
<1>8. \A v \in db.users : v \in db'.users
  BY <1>4
<1>9. \A v \in db'.users : v \in db.users \/ v.id = fresh
  BY <1>1, <1>4
<1>10. \A id : Known(id) => Known(id)' /\ id # fresh
  BY <1>1, <1>8 DEF Known, PgTaken
<1>11. \A x \in Changed : x \in Changed'
  BY <1>2, <1>5, ChangedStays DEF ResetsInv
<1>12. ASSUME NEW s \in db'.sessions PROVE Known(s.user)' /\ OldLoginsEnd(s)'
  <2>1. Known(s.user) /\ OldLoginsEnd(s) /\ s.user # fresh
    BY <1>4, <1>10 DEF ResetsInv, LoginsInv
  <2> QED
    BY <1>2, <1>9, <1>10, <1>11, <2>1 DEF OldLoginsEnd
<1>13. r.at = "free" \/ \E v \in db'.users : v.id = r.user
  BY <1>1, <1>5
<1>14. \A t \in db'.resets : Known(t.user)'
  BY <1>4, <1>10 DEF ResetsInv, LoginsInv
<1>15. \A p \in Reqs : Acting(p)' => Known(req[p].user)'
  BY <1>5, <1>6, <1>10, <1>13 DEF ResetsInv, LoginsInv, Acting, Known
<1>16. LinksInv'
  BY <1>2, <1>4, <1>5, <1>6, LinksKept DEF ResetsInv, Typed
<1> QED
  BY <1>7, <1>12, <1>14, <1>15, <1>16 DEF LoginsInv

LEMMA StartSessionKeeps ==
  ASSUME ResetsInv, NEW q \in Reqs, StartSession(q)
  PROVE  Typed' /\ LoginsInv' /\ LinksInv'
<1> DEFINE s == [id |-> fresh, user |-> req[q].user, exp |-> now + SessionTTL,
                 with |-> req[q].pw, late |-> UserOf(req[q].user).hash # req[q].pw]
<1>0. PICK o \in Outcomes : Ended(o, InsertSession(db, s))
  BY DEF StartSession
<1>1. /\ s.user = req[q].user /\ s.with = req[q].pw
      /\ s.late = (UserOf(req[q].user).hash # req[q].pw)
  OBVIOUS
<1> HIDE DEF s
<1>2. /\ req[q].at = "session" /\ Set(q, Idle) /\ fresh' \in Nat
      /\ UNCHANGED <<mails, now, spent, cut>>
  BY DEF StartSession, Draw, ResetsInv, Typed
<1>3. /\ db'.users = db.users /\ db'.resets = db.resets /\ IsStore(db')
      /\ db'.sessions \subseteq db.sessions \cup {s} /\ faults' \in Nat
  <2>1. (db' = InsertSession(db, s) \/ db' = db) /\ faults' \in Nat
    BY <1>0, CallEnds DEF ResetsInv
  <2> QED
    BY <2>1 DEF InsertSession, IsStore, ResetsInv, Typed
<1>4. Known(s.user)
  BY <1>1, <1>2 DEF ResetsInv, LoginsInv, Acting, Places
<1>5. OldLoginsEnd(s)
  BY <1>1, TheUser DEF ResetsInv, OldLoginsEnd
<1>6. \A p \in Reqs : req'[p] = (IF p = q THEN Idle ELSE req[p])
  BY <1>2 DEF Set, ResetsInv, Typed
<1>7. \A x \in Changed : x \in Changed'
  BY <1>2, ChangedStays DEF ResetsInv
<1>8. LoginsInv'
  BY <1>2, <1>3, <1>4, <1>5, <1>6, <1>7, LoginsKept DEF ResetsInv, Acting, Idle
<1>9. LinksInv'
  BY <1>2, <1>3, <1>6, LinksKept DEF ResetsInv, Typed, Idle
<1>10. Typed'
  BY <1>2, <1>3, RequestTypes DEF ResetsInv, Typed, Set
<1> QED
  BY <1>8, <1>9, <1>10

\* Steps outside the requests that only take sessions, and expired tokens.
LEMMA FewerRows ==
  ASSUME ResetsInv, UNCHANGED <<req, mails, fresh, spent, cut>>, faults' \in Nat, now' \in Nat,
         now' >= now, IsStore(db'), db'.users = db.users, db'.sessions \subseteq db.sessions,
         db'.resets \subseteq db.resets,
         \A t \in db.resets : t \in db'.resets \/ t.exp <= now
  PROVE  Typed' /\ LoginsInv' /\ LinksInv'
<1>1. Changed' = Changed
  BY DEF Changed
<1>2. LoginsInv'
  BY <1>1, LoginsKept DEF ResetsInv, Acting
<1>3. \A t \in db.resets : t \in db'.resets \/ t.exp <= now'
  BY DEF ResetsInv, Typed
<1>4. LinksInv'
  BY <1>3, LinksKept DEF ResetsInv
<1>5. Typed'
  BY DEF ResetsInv, Typed
<1> QED
  BY <1>2, <1>4, <1>5

LEMMA LogOutKeeps ==
  ASSUME ResetsInv, NEW q \in Reqs, LogOut(q)
  PROVE  Typed' /\ LoginsInv' /\ LinksInv'
<1>1. PICK s \in db.sessions, o \in Outcomes : Ended(o, DeleteSession(db, s.id))
  BY DEF LogOut
<1>2. /\ db'.users = db.users /\ db'.resets = db.resets /\ IsStore(db')
      /\ db'.sessions \subseteq db.sessions /\ faults' \in Nat
  <2>1. (db' = DeleteSession(db, s.id) \/ db' = db) /\ faults' \in Nat
    BY <1>1, CallEnds DEF ResetsInv
  <2> QED
    BY <2>1 DEF DeleteSession, IsStore, ResetsInv, Typed
<1> QED
  BY <1>2, FewerRows DEF LogOut, ResetsInv, Typed

LEMMA MaintenanceKeeps ==
  ASSUME ResetsInv, Tick \/ Reap
  PROVE  Typed' /\ LoginsInv' /\ LinksInv'
<1>1. CASE Tick
  BY <1>1, FewerRows DEF Tick, ResetsInv, Typed
<1>2. CASE Reap
  <2>1. UNCHANGED <<req, mails, now, fresh, spent, cut>> /\ faults' \in Nat
    BY <1>2 DEF Reap, ResetsInv, Typed
  <2>2. \/ db' = [db EXCEPT !.sessions = PgReaped(db.sessions, now),
                            !.resets = PgReaped(db.resets, now)]
        \/ db' = [db EXCEPT !.sessions = PgReaped(db.sessions, now)]
    BY <1>2 DEF Reap, PgReap
  <2>3. /\ IsStore(db') /\ db'.users = db.users
        /\ db'.sessions = PgReaped(db.sessions, now)
        /\ db'.resets \in {db.resets, PgReaped(db.resets, now)}
    BY <2>2 DEF ResetsInv, Typed, IsStore
  <2>4. db'.sessions \subseteq db.sessions /\ db'.resets \subseteq db.resets
    BY <2>3 DEF PgReaped
  <2>5. \A t \in db.resets : t \in db'.resets \/ t.exp <= now
    BY <2>3 DEF PgReaped, ResetsInv, Typed
  <2> QED
    BY <2>1, <2>3, <2>4, <2>5, FewerRows DEF ResetsInv, Typed
<1> QED
  BY <1>1, <1>2

\* A token that is mailed was stored: a call that answered took effect.
LEMMA StoreTokenKeeps ==
  ASSUME ResetsInv, NEW q \in Reqs, StoreToken(q)
  PROVE  Typed' /\ LoginsInv' /\ LinksInv'
<1> DEFINE t == [id |-> fresh, user |-> req[q].user, exp |-> now + ResetTTL]
           r == [req[q] EXCEPT !.at = "mail", !.tok = fresh, !.exp = now + ResetTTL]
<1>1. PICK o \in Outcomes : /\ Ended(o, InsertReset(db, t))
                            /\ Set(q, IF o.ok THEN r ELSE Idle)
  BY DEF StoreToken, MailsAfter
<1>2. /\ req[q].at = "token" /\ fresh' \in Nat /\ UNCHANGED <<mails, now, spent, cut>>
      /\ fresh \in Nat /\ now + ResetTTL \in Nat /\ Known(req[q].user) /\ req[q].user \in Nat
  <2>1. /\ req[q].at = "token" /\ fresh' = fresh + 1 /\ UNCHANGED <<mails, now, spent, cut>>
        /\ fresh \in Nat /\ now \in Nat /\ req[q] \in Requests
    BY DEF StoreToken, Draw, ResetsInv, Typed
  <2>2. Known(req[q].user)
    BY <2>1 DEF ResetsInv, LoginsInv, Acting, Places
  <2>3. req[q].user \in Nat
    BY <2>1 DEF Requests
  <2>4. ResetTTL \in Nat
    BY TTLAssumption
  <2> QED
    BY <2>1, <2>2, <2>3, <2>4
<1>3. /\ db' = InsertReset(db, t) \/ db' = db
      /\ o.ok => db' = InsertReset(db, t)
      /\ faults' \in Nat
  BY <1>1, CallEnds DEF ResetsInv
<1>4. t.id = fresh /\ t.user = req[q].user /\ t.exp = now + ResetTTL
  OBVIOUS
<1>5. /\ r \in Requests /\ r.at = "mail" /\ r.user = req[q].user
      /\ r.tok = fresh /\ r.exp = now + ResetTTL
  <2>1. req[q] \in Requests
    BY DEF ResetsInv, Typed
  <2> QED
    BY <1>2, <2>1 DEF Requests, Places
<1> HIDE DEF t, r
<1>6. /\ db'.users = db.users /\ db'.sessions = db.sessions /\ IsStore(db')
      /\ db.resets \subseteq db'.resets /\ db'.resets \subseteq db.resets \cup {t}
      /\ o.ok => t \in db'.resets
  BY <1>3 DEF InsertReset, IsStore, ResetsInv, Typed
<1>7. PICK n \in {r, Idle} : Set(q, n) /\ (n = r => o.ok)
  <2>1. r # Idle
    BY <1>5 DEF Idle
  <2> QED
    BY <1>1, <2>1
<1>8. \A p \in Reqs : req'[p] = (IF p = q THEN n ELSE req[p])
  BY <1>7 DEF Set, ResetsInv, Typed
<1>9. n \in Requests /\ n.at \in {"mail", "free"} /\ (n.at = "mail" => n = r)
  <2>1. Idle \in Requests /\ Idle.at = "free"
    BY RequestTypes DEF Idle
  <2> QED
    BY <1>5, <2>1
<1>10. Typed'
  BY <1>2, <1>3, <1>4, <1>6, <1>7, <1>9 DEF ResetsInv, Typed, Set
<1>11. \A x \in Changed : x \in Changed'
  BY <1>2, <1>7, ChangedStays DEF ResetsInv
<1>12. LoginsInv'
  BY <1>2, <1>4, <1>5, <1>6, <1>8, <1>9, <1>11, LoginsKept DEF ResetsInv, Acting
<1>13. req'[q].at = "mail" => Works(req[q].tok, req[q].exp)'
  <2>1. n = r => \E s \in db'.resets : s.id = r.tok /\ s.exp = r.exp
    BY <1>4, <1>5, <1>6, <1>7
  <2> QED
    BY <1>8, <1>9, <2>1 DEF Works
<1>14. LinksInv'
  BY <1>2, <1>6, <1>8, <1>9, <1>13, LinksKept DEF ResetsInv, Typed
<1> QED
  BY <1>10, <1>12, <1>14

\* The background goroutine mails what its request stored.
LEMMA MailKeeps ==
  ASSUME ResetsInv, NEW q \in Reqs, Mail(q)
  PROVE  Typed' /\ LoginsInv' /\ LinksInv'
<1> DEFINE m == [id |-> req[q].tok, exp |-> req[q].exp]
<1>1. /\ req[q].at = "mail" /\ Set(q, Idle) /\ mails' \in {mails \cup {m}, mails}
      /\ UNCHANGED <<db, now, fresh, faults, spent, cut>>
  BY DEF Mail
<1>2. m.exp \in Nat /\ Works(m.id, m.exp)
  BY <1>1 DEF ResetsInv, Typed, Requests, LinksInv
<1> HIDE DEF m
<1>3. \A p \in Reqs : req'[p] = (IF p = q THEN Idle ELSE req[p])
  BY <1>1 DEF Set, ResetsInv, Typed
<1>4. \A x \in Changed : x \in Changed'
  BY <1>1, ChangedStays DEF ResetsInv
<1>5. Typed'
  BY <1>1, <1>2, RequestTypes DEF ResetsInv, Typed, Set
<1>6. LoginsInv'
  BY <1>1, <1>3, <1>4, LoginsKept DEF ResetsInv, Acting, Idle
<1>7. LinksInv'
  BY <1>1, <1>2, <1>3, LinksKept DEF ResetsInv, Typed, Idle
<1> QED
  BY <1>5, <1>6, <1>7

\* The password changes: from here on its user is in Changed, or cut.
LEMMA ChangePasswordKeeps ==
  ASSUME ResetsInv, NEW q \in Reqs, ChangePassword(q)
  PROVE  Typed' /\ LoginsInv' /\ LinksInv'
<1> DEFINE id == req[q].user
           c == [tok |-> req[q].tok, pw |-> fresh]
           New(u) == IF u.id = id THEN [u EXCEPT !.hash = fresh] ELSE u
<1>1. PICK o \in Outcomes :
        /\ Ended(o, SetPassword(db, id, fresh))
        /\ spent' = IF o.effect THEN spent \cup {c} ELSE spent
        /\ cut' = IF o.effect /\ ~o.ok THEN cut \cup {id} ELSE cut
        /\ IF o.ok THEN Go(q, After("update")) ELSE Set(q, Idle)
  BY DEF ChangePassword
<1>2. /\ req[q].at = "update" /\ UNCHANGED <<mails, now>> /\ fresh \in Nat /\ fresh' \in Nat
      /\ id \in Nat /\ Known(id) /\ req[q] \in Requests
  BY DEF ChangePassword, Draw, ResetsInv, Typed, Requests, LoginsInv, Acting, Places
<1>3. /\ ~o.effect => db' = db /\ ~o.ok
      /\ o.effect => db' = SetPassword(db, id, fresh)
      /\ faults' \in Nat
  BY <1>1, CallEnds DEF ResetsInv
<1>4. PICK r \in Requests :
        /\ Set(q, r)
        /\ IF o.ok THEN r.at = "dropToken" /\ r.user = id /\ r.tok = req[q].tok
                   ELSE r.at = "free"
  <2>1. CASE o.ok
    <3> DEFINE r == [req[q] EXCEPT !.at = "dropToken"]
    <3>1. Set(q, r)
      BY <1>1, <2>1, TheOrder DEF Go
    <3>2. r \in Requests /\ r.at = "dropToken" /\ r.user = id /\ r.tok = req[q].tok
      BY <1>2 DEF Requests, Places
    <3> QED
      BY <2>1, <3>1, <3>2
  <2>2. CASE ~o.ok
    <3>1. Idle \in Requests /\ Idle.at = "free"
      BY RequestTypes DEF Idle
    <3> QED
      BY <1>1, <2>2, <3>1
  <2> QED
    BY <2>1, <2>2
<1>5. \A p \in Reqs : req'[p] = (IF p = q THEN r ELSE req[p])
  BY <1>4 DEF Set, ResetsInv, Typed
<1>6. /\ db'.sessions = db.sessions /\ db'.resets = db.resets /\ IsStore(db')
      /\ db'.users = {New(u) : u \in db.users} \/ (db'.users = db.users /\ ~o.effect)
  BY <1>3 DEF SetPassword, IsStore, ResetsInv, Typed
<1>7. \A u \in db.users : /\ New(u).id = u.id /\ New(u).hash \in {u.hash, fresh}
                          /\ u.id # id => New(u) = u
  BY DEF ResetsInv, UsersInv, IsStore
<1> HIDE DEF New, id, c
<1>8. Typed'
  <2>1. \A u \in db'.users : u.id \in Nat /\ u.hash \in Nat
    BY <1>2, <1>6, <1>7 DEF ResetsInv, Typed
  <2> QED
    BY <1>2, <1>3, <1>4, <1>6, <2>1 DEF ResetsInv, Typed, Set
<1>9. \A x : Known(x) => Known(x)'
  BY <1>6, <1>7 DEF Known
<1>10. \A x \in Changed : x \in Changed'
  BY <1>2, <1>4, ChangedStays DEF ResetsInv
<1>11. o.effect => id \in cut' \cup Changed'
  BY <1>1, <1>4, <1>5 DEF Changed
<1>12. cut \subseteq cut'
  BY <1>1
<1>13. ASSUME NEW s \in db'.sessions PROVE Known(s.user)' /\ OldLoginsEnd(s)'
  <2>1. Known(s.user) /\ OldLoginsEnd(s)
    BY <1>6 DEF ResetsInv, LoginsInv
  <2>2. CASE ~o.effect
    BY <1>3, <1>9, <1>10, <1>12, <2>1, <2>2 DEF OldLoginsEnd
  <2>3. CASE o.effect /\ s.user = id
    BY <1>9, <1>11, <2>1, <2>3 DEF OldLoginsEnd
  <2>4. CASE s.user # id
    <3>1. \A u \in db'.users : u.id = s.user => u \in db.users
      BY <1>6, <1>7, <2>4
    <3> QED
      BY <1>9, <1>10, <1>12, <2>1, <3>1 DEF OldLoginsEnd
  <2> QED
    BY <2>2, <2>3, <2>4
<1>14. \A p \in Reqs : Acting(p)' => Known(req[p].user)'
  <2>1. \A p \in Reqs : Acting(p)' => Known(req'[p].user)
    BY <1>2, <1>4, <1>5 DEF ResetsInv, LoginsInv, Acting
  <2> QED
    BY <1>9, <2>1
<1>15. LoginsInv'
  BY <1>6, <1>9, <1>13, <1>14 DEF ResetsInv, LoginsInv
<1>16. req'[q].at = "dropToken" => Spent(req[q].tok)'
  <2>1. req'[q].at = "dropToken" => c \in spent' /\ c.tok = req'[q].tok
    BY <1>1, <1>3, <1>4, <1>5 DEF c
  <2> QED
    BY <2>1 DEF Spent
<1>17. LinksInv'
  <2>1. spent \subseteq spent'
    BY <1>1
  <2> QED
    BY <1>2, <1>4, <1>5, <1>6, <1>16, <2>1, LinksKept DEF ResetsInv, Typed
<1> QED
  BY <1>8, <1>15, <1>17

\* What is dropped was spent, and the logins that stay are of others.
LEMMA DropKeeps ==
  ASSUME ResetsInv, NEW q \in Reqs, DropToken(q) \/ DropSessions(q)
  PROVE  Typed' /\ LoginsInv' /\ LinksInv'
<1> DEFINE id == req[q].user
<1>1. /\ UNCHANGED <<mails, now, fresh, spent>> /\ req[q] \in Requests /\ Known(id)
      /\ req[q].at \in {"dropToken", "dropSessions"}
  BY DEF DropToken, DropSessions, ResetsInv, Typed, LoginsInv, Acting, Places
<1>2. CASE DropToken(q)
  <2> DEFINE r == [req[q] EXCEPT !.at = "dropSessions"]
  <2>1. PICK o \in Outcomes : Ended(o, DeleteReset(db, req[q].tok))
    BY <1>2 DEF DropToken
  <2>2. Set(q, r) /\ req[q].at = "dropToken" /\ cut' = cut
    BY <1>2, TheOrder DEF DropToken, Go
  <2>3. r \in Requests /\ r.at = "dropSessions" /\ r.user = id
    BY <1>1 DEF Requests, Places
  <2> HIDE DEF r
  <2>4. (db' = DeleteReset(db, req[q].tok) \/ db' = db) /\ faults' \in Nat
    BY <2>1, CallEnds DEF ResetsInv
  <2>5. /\ db'.users = db.users /\ db'.sessions = db.sessions /\ IsStore(db')
        /\ db'.resets \subseteq db.resets
        /\ \A t \in db.resets : t \in db'.resets \/ t.id = req[q].tok
    BY <2>4 DEF DeleteReset, IsStore, ResetsInv, Typed
  <2>6. \A p \in Reqs : req'[p] = (IF p = q THEN r ELSE req[p])
    BY <2>2 DEF Set, ResetsInv, Typed
  <2>7. \A x \in Changed : x \in Changed'
    BY <2>2, <2>3, ChangedStays DEF ResetsInv
  <2>8. LoginsInv'
    BY <1>1, <2>2, <2>3, <2>5, <2>6, <2>7, LoginsKept DEF ResetsInv, Acting
  <2>9. Spent(req[q].tok)
    BY <2>2 DEF ResetsInv, LinksInv
  <2>10. \A t \in db.resets : t \in db'.resets \/ Spent(t.id)'
    BY <1>1, <2>5, <2>9 DEF Spent
  <2>11. LinksInv'
    BY <1>1, <2>3, <2>5, <2>6, <2>10, LinksKept DEF ResetsInv, Typed
  <2>12. Typed'
    BY <1>1, <2>2, <2>3, <2>4, <2>5 DEF ResetsInv, Typed, Set
  <2> QED
    BY <2>8, <2>11, <2>12
<1>3. CASE DropSessions(q)
  <2>1. PICK o \in Outcomes : /\ Ended(o, DeleteSessionsForUser(db, id))
                              /\ cut' = IF o.effect THEN cut ELSE cut \cup {id}
    BY <1>3 DEF DropSessions
  <2>2. Set(q, Idle)
    BY <1>3, TheOrder DEF DropSessions
  <2>3. /\ o.effect => db' = DeleteSessionsForUser(db, id)
        /\ ~o.effect => db' = db
        /\ faults' \in Nat
    BY <2>1, CallEnds DEF ResetsInv
  <2>4. /\ db'.users = db.users /\ db'.resets = db.resets /\ IsStore(db')
        /\ db'.sessions \subseteq db.sessions
        /\ \A s \in db'.sessions : s.user # id \/ id \in cut'
    BY <2>1, <2>3 DEF DeleteSessionsForUser, IsStore, ResetsInv, Typed
  <2>5. \A p \in Reqs : req'[p] = (IF p = q THEN Idle ELSE req[p])
    BY <2>2 DEF Set, ResetsInv, Typed
  <2>6. \A x \in Changed : x = id \/ x \in Changed'
    BY <2>5, InChanged DEF Changed
  <2>7. \A s \in db'.sessions : s.user \in cut \cup Changed => s.user \in cut' \cup Changed'
    BY <2>1, <2>4, <2>6
  <2>8. LoginsInv'
    BY <2>4, <2>5, <2>7, LoginsKept DEF ResetsInv, Acting, Idle
  <2>9. LinksInv'
    BY <1>1, <2>4, <2>5, LinksKept DEF ResetsInv, Typed, Idle
  <2>10. Typed'
    BY <1>1, <2>2, <2>3, <2>4, RequestTypes DEF ResetsInv, Typed, Set
  <2> QED
    BY <2>8, <2>9, <2>10
<1> QED
  BY <1>2, <1>3

LEMMA CrashKeeps ==
  ASSUME ResetsInv, Crash
  PROVE  Typed' /\ LoginsInv' /\ LinksInv'
<1>1. /\ req' = [q \in Reqs |-> Idle] /\ cut' = cut \cup Changed /\ faults' \in Nat
      /\ UNCHANGED <<db, mails, now, fresh, spent>>
  BY DEF Crash, ResetsInv, Typed
<1>2. \A q \in Reqs : req'[q] = Idle /\ Idle.at = "free"
  BY <1>1 DEF Idle
<1>3. Typed'
  BY <1>1, RequestTypes DEF ResetsInv, Typed
<1>4. LoginsInv'
  BY <1>1, <1>2, LoginsKept DEF ResetsInv, Acting
<1>5. LinksInv'
  BY <1>1, <1>2, LinksKept DEF ResetsInv, Typed
<1> QED
  BY <1>3, <1>4, <1>5

LEMMA ResetsInit == Init => ResetsInv
<1> SUFFICES ASSUME Init PROVE ResetsInv
  OBVIOUS
<1>1. /\ req = [q \in Reqs |-> Idle] /\ mails = {} /\ db = NoRows /\ now = 0 /\ fresh = 1
      /\ faults = 0
  BY DEF Init
<1>2. IsStore(db) /\ db.users = {} /\ db.sessions = {} /\ db.resets = {}
  BY <1>1 DEF NoRows, IsStore
<1>3. \A q \in Reqs : req[q].at = "free"
  BY <1>1 DEF Idle
<1>4. req \in [Reqs -> Requests]
  BY <1>1, RequestTypes
<1>5. Typed /\ LoginsInv /\ LinksInv
  BY <1>1, <1>2, <1>3, <1>4 DEF Typed, LoginsInv, LinksInv, Acting
<1> QED
  BY <1>5, InitUsers DEF ResetsInv

LEMMA ResetsStep == ResetsInv /\ [Next]_vars => ResetsInv'
<1> SUFFICES ASSUME ResetsInv, [Next]_vars PROVE ResetsInv'
  OBVIOUS
<1>1. UsersInv'
  BY UsersInvInductive DEF ResetsInv
<1>2. CASE UNCHANGED vars
  BY <1>1, <1>2 DEF vars, ResetsInv, Typed, LoginsInv, LinksInv, Known, Acting, OldLoginsEnd,
     Changed, Works, Spent
<1>3. ASSUME Next PROVE Typed' /\ LoginsInv' /\ LinksInv'
  BY <1>1, <1>3, SignUpStarts, LogInKeeps, StartSessionKeeps, LogOutKeeps, AskResetKeeps,
     StoreTokenKeeps, MailKeeps, ChangePasswordKeeps, DropKeeps, MaintenanceKeeps, CrashKeeps
     DEF Next
<1> QED
  BY <1>1, <1>2, <1>3 DEF ResetsInv

\* After a reset the logins made with an earlier password are gone, unless one
\* was still being made when the password changed, or a call of the reset
\* failed or has yet to be made.
THEOREM ResetsEndLogins == Spec => []ResetEndsOldLogins
<1>1. ResetsInv => ResetEndsOldLogins
  <2> SUFFICES ASSUME ResetsInv, NEW s \in db.sessions, s.with # UserOf(s.user).hash
               PROVE  s.late \/ s.user \in cut \cup Changed
    BY DEF ResetEndsOldLogins
  <2>1. PICK u \in db.users : u.id = s.user
    BY DEF ResetsInv, LoginsInv, Known
  <2>2. UserOf(s.user) = u
    BY <2>1, TheUser DEF ResetsInv
  <2> QED
    BY <2>1, <2>2 DEF ResetsInv, LoginsInv, OldLoginsEnd
<1> QED
  BY <1>1, ResetsInit, ResetsStep, PTL DEF Spec

\* Whatever fails on the way, a link that was mailed is one the store knows,
\* until it expires or has changed a password.
THEOREM LinksWork == Spec => []MailedLinksWork
<1>1. ResetsInv => MailedLinksWork
  BY DEF ResetsInv, LinksInv, Works, Spent, MailedLinksWork
<1> QED
  BY <1>1, ResetsInit, ResetsStep, PTL DEF Spec

-----------------------------------------------------------------------------
(* The rate limiter.                                                       *)

LimiterInv ==
  /\ clock \in Nat
  /\ hits \in [Keys -> [start : Nat, count : Nat] \cup {Closed}]
  /\ \A k \in Keys : hits[k] # Closed => hits[k].start <= clock

LEMMA LimiterInvInductive == LimiterInv /\ [LimiterNext]_limiterVars => LimiterInv'
<1> SUFFICES ASSUME LimiterInv, [LimiterNext]_limiterVars PROVE LimiterInv'
  OBVIOUS
<1> USE LimitAssumption, TimeAssumption, ClosedAssumption
<1>1. ASSUME NEW k \in Keys, AllowsFirst(k) PROVE LimiterInv'
  <2>1. clock' = clock /\ hits' = [hits EXCEPT ![k] = [start |-> clock, count |-> 1]]
    BY <1>1 DEF AllowsFirst, Answer, NewWindow
  <2>2. [start |-> clock, count |-> 1] \in [start : Nat, count : Nat]
    BY DEF LimiterInv
  <2>3. QED
    BY <2>1, <2>2 DEF LimiterInv
<1>2. ASSUME NEW k \in Keys, AllowsOrNot(k) PROVE LimiterInv'
  <2>1. /\ clock' = clock /\ hits[k] # Closed
        /\ hits' = [hits EXCEPT ![k] = [hits[k] EXCEPT !.count = hits[k].count + 1]]
    BY <1>2 DEF AllowsOrNot, Answer, Running
  <2>2. hits[k] \in [start : Nat, count : Nat]
    BY <2>1 DEF LimiterInv
  <2> DEFINE w == [hits[k] EXCEPT !.count = hits[k].count + 1]
  <2>3. w \in [start : Nat, count : Nat] /\ w.start = hits[k].start
    BY <2>2
  <2>4. QED
    BY <2>1, <2>3 DEF LimiterInv
<1>3. CASE Sweep
  BY <1>3 DEF Sweep, LimiterInv
<1>4. CASE ClockTicks
  BY <1>4 DEF ClockTicks, LimiterInv
<1>5. CASE UNCHANGED limiterVars
  BY <1>5 DEF limiterVars, LimiterInv
<1>6. QED
  BY <1>1, <1>2, <1>3, <1>4, <1>5 DEF LimiterNext

\* The windows of the promise.
LEMMA OpenIs ==
  ASSUME LimiterInv, NEW k \in Keys
  PROVE  Closing(hits[k]) =
           IF hits[k] # Closed /\ clock - hits[k].start < Window THEN hits[k] ELSE Closed
BY LimitAssumption, ClosedAssumption DEF LimiterInv, Closing, Running, Elapsed

\* Every step of the limiter is one of the promise, or changes nothing in it.
LEMMA LimiterStepRefines == LimiterInv /\ [LimiterNext]_limiterVars =>
  [Promise!Next]_<<clock, [k \in Keys |-> Closing(hits[k])], answer>>
<1> SUFFICES ASSUME LimiterInv, [LimiterNext]_limiterVars
             PROVE  [Promise!Next]_<<clock, [k \in Keys |-> Closing(hits[k])], answer>>
  OBVIOUS
<1> DEFINE open == [k \in Keys |-> Closing(hits[k])]
<1> USE LimitAssumption, TimeAssumption, ClosedAssumption
<1>1. ASSUME NEW k \in Keys, AllowsFirst(k) PROVE Promise!Opens(k)
  <2>1. clock' = clock /\ hits' = [hits EXCEPT ![k] = [start |-> clock, count |-> 1]]
    BY <1>1 DEF AllowsFirst, Answer, NewWindow
  <2>2. answer' = [key |-> k, admitted |-> TRUE] /\ ~Running(hits[k])
    BY <1>1 DEF AllowsFirst, Answer
  <2>3. open[k] = Closed
    BY <2>2 DEF Closing
  <2>4. [start |-> clock, count |-> 1] # Closed /\ clock - clock < Window
    BY DEF LimiterInv
  <2>5. \A j \in Keys : open'[j] = IF j = k THEN [start |-> clock, count |-> 1] ELSE open[j]
    <3>1. ASSUME NEW j \in Keys
          PROVE open'[j] = IF j = k THEN [start |-> clock, count |-> 1] ELSE open[j]
      <4>1. CASE j = k
        <5>1. hits'[j] = [start |-> clock, count |-> 1]
          BY <2>1, <4>1 DEF LimiterInv
        <5>2. Running(hits[j])'
          BY <5>1, <2>1, <2>4 DEF Running, Elapsed, LimiterInv
        <5>3. QED
          BY <5>1, <5>2, <4>1 DEF Closing
      <4>2. CASE j # k
        <5>1. hits'[j] = hits[j]
          BY <2>1, <4>2 DEF LimiterInv
        <5>2. QED
          BY <5>1, <2>1, <4>2 DEF Closing, Running, Elapsed
      <4>3. QED
        BY <4>1, <4>2
    <3>2. QED
      BY <3>1
  <2>6. open' = [open EXCEPT ![k] = [start |-> clock, count |-> 1]]
    BY <2>5
  <2>7. QED
    BY <2>1, <2>2, <2>3, <2>6 DEF Promise!Opens
<1>2. ASSUME NEW k \in Keys, AllowsOrNot(k) PROVE Promise!Counts(k)
  <2>1. /\ clock' = clock /\ Running(hits[k])
        /\ hits' = [hits EXCEPT ![k] = [hits[k] EXCEPT !.count = hits[k].count + 1]]
        /\ answer' = [key |-> k, admitted |-> hits[k].count + 1 <= Limit]
    BY <1>2 DEF AllowsOrNot, Answer, Under
  <2>2. hits[k] # Closed /\ ~Elapsed(hits[k]) /\ hits[k] \in [start : Nat, count : Nat]
    BY <2>1 DEF Running, LimiterInv
  <2> DEFINE w == [hits[k] EXCEPT !.count = hits[k].count + 1]
  <2>3. w \in [start : Nat, count : Nat] /\ w.start = hits[k].start /\ w # Closed
    BY <2>2
  <2>4. open[k] = hits[k]
    BY <2>1 DEF Closing
  <2>5. \A j \in Keys : open'[j] = IF j = k THEN w ELSE open[j]
    <3>1. ASSUME NEW j \in Keys PROVE open'[j] = IF j = k THEN w ELSE open[j]
      <4>1. CASE j = k
        <5>1. hits'[j] = w
          BY <2>1, <4>1 DEF LimiterInv
        <5>2. Running(hits[j])'
          BY <5>1, <2>1, <2>2, <2>3 DEF Running, Elapsed, LimiterInv
        <5>3. QED
          BY <5>1, <5>2, <4>1 DEF Closing
      <4>2. CASE j # k
        <5>1. hits'[j] = hits[j]
          BY <2>1, <4>2 DEF LimiterInv
        <5>2. QED
          BY <5>1, <2>1, <4>2 DEF Closing, Running, Elapsed
      <4>3. QED
        BY <4>1, <4>2
    <3>2. QED
      BY <3>1
  <2>6. open' = [open EXCEPT ![k] = [open[k] EXCEPT !.count = open[k].count + 1]]
    BY <2>4, <2>5
  <2>7. (hits[k].count + 1 <= Limit) = (open[k].count < Limit)
    BY <2>2, <2>4
  <2>8. QED
    BY <2>1, <2>2, <2>4, <2>6, <2>7 DEF Promise!Counts
<1>3. CASE Sweep
  <2>1. clock' = clock /\ answer' = answer
    BY <1>3 DEF Sweep
  <2>2. \A k \in Keys : open'[k] = open[k]
    <3>1. ASSUME NEW k \in Keys PROVE open'[k] = open[k]
      <4>1. hits'[k] = IF Swept(hits[k]) THEN Closed ELSE hits[k]
        BY <1>3 DEF Sweep, LimiterInv
      <4>2. QED
        BY <4>1, <2>1 DEF Swept, Closing, Running, Elapsed
    <3>2. QED
      BY <3>1
  <2>3. open' = open
    BY <2>2
  <2>4. QED
    BY <2>1, <2>3
<1>4. CASE ClockTicks
  <2>1. clock' = clock + 1 /\ hits' = hits /\ answer' = answer
    BY <1>4 DEF ClockTicks
  <2>2. \A k \in Keys : open'[k] = IF Promise!TimeLeft(open[k]) THEN open[k] ELSE Closed
    <3>1. ASSUME NEW k \in Keys
          PROVE open'[k] = IF Promise!TimeLeft(open[k]) THEN open[k] ELSE Closed
      <4>1. CASE hits[k] = Closed
        BY <4>1, <2>1 DEF Closing, Running, Promise!TimeLeft
      <4>2. CASE hits[k] # Closed
        <5>1. hits[k].start \in Nat /\ clock \in Nat
          BY <4>2 DEF LimiterInv
        <5>2. QED
          BY <4>2, <5>1, <2>1 DEF Closing, Running, Elapsed, Promise!TimeLeft
      <4>3. QED
        BY <4>1, <4>2
    <3>2. QED
      BY <3>1
  <2>3. open' = [k \in Keys |-> IF Promise!TimeLeft(open[k]) THEN open[k] ELSE Closed]
    BY <2>2
  <2>4. Promise!Passes
    BY <2>1, <2>3 DEF Promise!Passes
  <2>5. QED
    BY <2>4 DEF Promise!Next
<1>5. CASE UNCHANGED limiterVars
  BY <1>5 DEF limiterVars, Closing, Running, Elapsed
<1>6. QED
  BY <1>1, <1>2, <1>3, <1>4, <1>5 DEF LimiterNext, Promise!Next

LEMMA LimiterInitRefines == LimiterInit => LimiterInv /\ Promise!Init
BY ClosedAssumption DEF LimiterInit, LimiterInv, Promise!Init, Closing, Running

\* The limiter, with its map and its sweep, implements the promise: requests
\* are admitted as if every window closed by itself on time.
THEOREM LimiterKeepsItsPromise == LimiterSpec => KeepsPromise
<1>1. LimiterInv /\ [LimiterNext]_limiterVars => LimiterInv'
  BY LimiterInvInductive
<1>2. QED
  BY <1>1, LimiterInitRefines, LimiterStepRefines, PTL DEF LimiterSpec, KeepsPromise, Promise!Spec
==============================================================================

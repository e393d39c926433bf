------------------------------ MODULE AuthStores ------------------------------
(***************************************************************************)
(* The two account stores under the same calls.  The server takes either   *)
(* behind one interface: its tests run on MemAuthStore, production on      *)
(* PgAuthStore.  The two differ in how they compare names, in when they    *)
(* reap a row that expires now, and in that only one keeps constraints.    *)
(*                                                                         *)
(* The calls are the ones the handlers make: texts are in lower case, a    *)
(* username has letters and digits only but an address may have any        *)
(* letter, ids are fresh, and a session or token is created for a user     *)
(* that was read.                                                          *)
(***************************************************************************)
EXTENDS AuthTables

CONSTANTS Names, Emails, \* what sign-ups ask for, in lower case
          Texts,         \* what log-ins and resets ask after, in lower case
          SessionTTL, ResetTTL,
          MaxId, MaxNow  \* bounds

ASSUME NamesAssumption ==
  /\ \A n \in Names : ValidUsername(n)
  /\ \A e \in Emails : ValidEmail(e)
  /\ \A t \in Names \cup Emails \cup Texts : ToLower(t) = t
ASSUME TTLAssumption == {SessionTTL, ResetTTL} \subseteq Nat \ {0}
ASSUME BoundsAssumption == {MaxId, MaxNow} \subseteq Nat

VARIABLES pg, mem, \* the two stores
          now, id  \* the clock, and the next id

vars == <<pg, mem, now, id>>

Init == pg = NoRows /\ mem = NoRows /\ now = 0 /\ id = 1

NewId == id <= MaxId /\ id' = id + 1

CreateUser ==
  /\ NewId /\ UNCHANGED now
  /\ \E n \in Names, e \in Emails :
       LET u == [id |-> id, name |-> n, email |-> e, hash |-> id]
       IN pg' = PgCreateUser(pg, u) /\ mem' = MemCreateUser(mem, u)

\* A handler goes on with a user it was given: by the store that runs.
CreateSession ==
  /\ NewId /\ UNCHANGED now
  /\ \E u \in pg.users :
       LET s == [id |-> id, user |-> u.id, exp |-> now + SessionTTL]
       IN pg' = InsertSession(pg, s) /\ mem' = InsertSession(mem, s)

CreateResetToken ==
  /\ NewId /\ UNCHANGED now
  /\ \E u \in pg.users :
       LET t == [id |-> id, user |-> u.id, exp |-> now + ResetTTL]
       IN pg' = InsertReset(pg, t) /\ mem' = InsertReset(mem, t)

UpdatePassword ==
  /\ NewId /\ UNCHANGED now
  /\ \E u \in pg.users :
       pg' = SetPassword(pg, u.id, id) /\ mem' = SetPassword(mem, u.id, id)

LogOut ==
  /\ UNCHANGED <<now, id>>
  /\ \E s \in pg.sessions \cup mem.sessions :
       pg' = DeleteSession(pg, s.id) /\ mem' = DeleteSession(mem, s.id)

LogOutEverywhere ==
  /\ UNCHANGED <<now, id>>
  /\ \E u \in pg.users :
       pg' = DeleteSessionsForUser(pg, u.id) /\ mem' = DeleteSessionsForUser(mem, u.id)

SpendToken ==
  /\ UNCHANGED <<now, id>>
  /\ \E t \in pg.resets \cup mem.resets :
       pg' = DeleteReset(pg, t.id) /\ mem' = DeleteReset(mem, t.id)

ReapExpired ==
  /\ UNCHANGED <<now, id>>
  /\ pg' = PgReap(pg, now) /\ mem' = MemReap(mem, now)

Tick == now < MaxNow /\ now' = now + 1 /\ UNCHANGED <<pg, mem, id>>

Next ==
  \/ CreateUser \/ CreateSession \/ CreateResetToken \/ UpdatePassword
  \/ LogOut \/ LogOutEverywhere \/ SpendToken \/ ReapExpired \/ Tick

Spec == Init /\ [][Next]_vars

-----------------------------------------------------------------------------
UserRows == [id : 1..MaxId, name : Names, email : Emails, hash : 1..MaxId]

Tokens == [id : 1..MaxId, user : 1..MaxId, exp : Nat]

Stores == [users : SUBSET UserRows, sessions : SUBSET Tokens, resets : SUBSET Tokens]

TypeOK == pg \in Stores /\ mem \in Stores /\ now \in Nat /\ id \in Nat \ {0}

\* Two texts in lower case that only folding equates.
LooksLike(s, t) == EqualFold(s, t) /\ s # t

NoLookAlikes == \A u, v \in pg.users : ~LooksLike(u.email, v.email)

\* The stores are interchangeable: over any sequence of calls they give the
\* handlers the same answers about every id, although one may still hold a
\* row the other has reaped.  About names and addresses too, as long as no
\* two accounts in Postgres have addresses that look alike (the second of
\* them has no account in memory), and for every text that is not itself a
\* look-alike of an account's.
SameAnswers ==
  /\ \A i \in 1..MaxId :
       /\ Fresh(ById(pg.sessions, i), now) = Fresh(ById(mem.sessions, i), now)
       /\ Fresh(ById(pg.resets, i), now) = Fresh(ById(mem.resets, i), now)
       /\ NoLookAlikes => ById(pg.users, i) = ById(mem.users, i)
  /\ NoLookAlikes =>
       \A t \in Texts :
         /\ (\A u \in pg.users : ~LooksLike(u.name, t)) =>
              PgByName(pg, t) = MemByName(mem, t)
         /\ (\A u \in pg.users : ~LooksLike(u.email, t)) =>
              PgByEmail(pg, t) = MemByEmail(mem, t)

\* Neither store ever holds two accounts of one name or address.
NamesAreUnique ==
  \A db \in {pg, mem} : \A u, v \in db.users :
    u.name = v.name \/ u.email = v.email \/ u.id = v.id => u = v

\* The invariant behind both: the same users, look-alikes apart; the same
\* rows but for expired ones, of which Postgres may hold more.
StoresInv ==
  /\ NoLookAlikes => pg.users = mem.users
  /\ mem.sessions \subseteq pg.sessions /\ Fresh(pg.sessions, now) \subseteq mem.sessions
  /\ mem.resets \subseteq pg.resets /\ Fresh(pg.resets, now) \subseteq mem.resets
  /\ \A u \in pg.users \cup mem.users : u.id < id
  /\ NamesAreUnique
==============================================================================

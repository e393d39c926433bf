------------------------------ MODULE AuthTables ------------------------------
(***************************************************************************)
(* internal/server: the account stores, as operators on their rows, and    *)
(* what the handlers do to a name before it reaches a store.               *)
(*                                                                         *)
(* A store is a record of three sets of rows: users, sessions and resets.  *)
(* PgAuthStore keeps names in lower case under UNIQUE constraints;         *)
(* MemAuthStore keeps them as given and compares by folding, which equates *)
(* more: letters that are lower case already, but of one upper case.       *)
(*                                                                         *)
(* A name is a sequence of characters, each standing for its class: two    *)
(* letters in either case, a digit (with _ and -), at, dot, white space,   *)
(* and "f", a letter in lower case that folds to "a" (the long s, the      *)
(* final sigma).                                                           *)
(***************************************************************************)
EXTENDS Integers, Sequences, FiniteSetsExt

LowerChar(c) == IF c = "A" THEN "a" ELSE IF c = "B" THEN "b" ELSE c

ToLower(s) == [i \in DOMAIN s |-> LowerChar(s[i])]

TrimSpace(s) ==
  LET kept == {i \in DOMAIN s : s[i] # " "}
  IN IF kept = {} THEN <<>> ELSE SubSeq(s, Min(kept), Max(kept))

\* What the handlers look up and store.
Normal(s) == ToLower(TrimSpace(s))

ValidUsername(u) ==
  /\ Len(u) \in 3..24
  /\ \A i \in DOMAIN u : u[i] \in {"a", "b", "A", "B", "1"}

\* Something before the first at, and in what follows it a last dot with
\* something on either side; no white space.
ValidEmail(e) ==
  /\ \A i \in DOMAIN e : e[i] # " "
  /\ \E at \in DOMAIN e :
       /\ e[at] = "@" /\ \A i \in 1..(at - 1) : e[i] # "@"
       /\ at > 1
       /\ \E dot \in (at + 2)..(Len(e) - 1) :
            e[dot] = "." /\ \A i \in (dot + 1)..Len(e) : e[i] # "."

-----------------------------------------------------------------------------
(* Tables.                                                                 *)

NoRows == [users |-> {}, sessions |-> {}, resets |-> {}]

InsertUser(db, u) == [db EXCEPT !.users = @ \cup {u}]

InsertSession(db, s) == [db EXCEPT !.sessions = @ \cup {s}]

InsertReset(db, t) == [db EXCEPT !.resets = @ \cup {t}]

SetPassword(db, id, hash) ==
  [db EXCEPT !.users = {IF u.id = id THEN [u EXCEPT !.hash = hash] ELSE u : u \in @}]

DeleteSession(db, id) == [db EXCEPT !.sessions = {s \in @ : s.id # id}]

DeleteSessionsForUser(db, id) == [db EXCEPT !.sessions = {s \in @ : s.user # id}]

DeleteReset(db, id) == [db EXCEPT !.resets = {t \in @ : t.id # id}]

ById(rows, id) == {r \in rows : r.id = id}

\* currentUser and the reset handler take a row only before its expiry.
Fresh(rows, now) == {r \in rows : r.exp > now}

-----------------------------------------------------------------------------
(* PgAuthStore.                                                            *)

PgRow(u) == [u EXCEPT !.name = ToLower(u.name), !.email = ToLower(u.email)]

\* A unique violation: ErrUserExists.
PgTaken(db, u) ==
  \E v \in db.users : v.id = u.id \/ v.name = PgRow(u).name \/ v.email = PgRow(u).email

PgCreateUser(db, u) == IF PgTaken(db, u) THEN db ELSE InsertUser(db, PgRow(u))

PgByName(db, name) == {u \in db.users : u.name = ToLower(name)}

PgByEmail(db, email) == {u \in db.users : u.email = ToLower(email)}

\* (Mutated form: the comparison the wrong way round.)
ReapedWrongly(rows, now) == {r \in rows : r.exp < now}

\* What DELETE ... WHERE expires_at < now leaves.
PgReaped(rows, now) == {r \in rows : ~(r.exp < now)}

PgReap(db, now) == [db EXCEPT !.sessions = PgReaped(@, now),
                              !.resets = PgReaped(@, now)]

-----------------------------------------------------------------------------
(* MemAuthStore.                                                           *)

FoldChar(c) == IF c = "f" THEN "a" ELSE LowerChar(c)

Folded(s) == [i \in DOMAIN s |-> FoldChar(s[i])]

EqualFold(s, t) == Folded(s) = Folded(t)

MemTaken(db, u) ==
  \E v \in db.users : EqualFold(v.name, u.name) \/ EqualFold(v.email, u.email)

MemCreateUser(db, u) == IF MemTaken(db, u) THEN db ELSE InsertUser(db, u)

MemByName(db, name) == {u \in db.users : EqualFold(u.name, name)}

MemByEmail(db, email) == {u \in db.users : EqualFold(u.email, email)}

MemReaped(rows, now) == {r \in rows : r.exp > now}

MemReap(db, now) == [db EXCEPT !.sessions = MemReaped(@, now),
                               !.resets = MemReaped(@, now)]
==============================================================================

------------------------------- MODULE Accounts -------------------------------
(***************************************************************************)
(* internal/server/auth_handlers.go over PgAuthStore: sign-up, log-in,     *)
(* log-out and the reset of a password, each of them several calls of the  *)
(* store with other requests in between.                                   *)
(*                                                                         *)
(* A call may fail, before or after it took effect, and the process may    *)
(* die between two calls.  Ids, tokens and passwords are fresh numbers: a  *)
(* password stands for its hash.                                           *)
(***************************************************************************)
EXTENDS AuthTables

CONSTANTS Reqs,                  \* requests served at once
          Usernames, Addresses, \* what people type
          SessionTTL, ResetTTL,
          MaxFresh, MaxNow, MaxFaults \* bounds

ASSUME TTLAssumption == {SessionTTL, ResetTTL} \subseteq Nat \ {0}
ASSUME BoundsAssumption == {MaxFresh, MaxNow, MaxFaults} \subseteq Nat

VARIABLES db,       \* the store
          req,      \* per request: its next call and what it has read
          mails,    \* the tokens mailed
          now, fresh, faults, \* clock, next number, counter for the bound
          spent,    \* the resets made: token and password
          cut       \* the users whose reset was left half done

vars == <<db, req, mails, now, fresh, faults, spent, cut>>

\* A request: the call it makes next, and what it knows of the user, the
\* password, the token and the name asked for.
Idle == [at |-> "free", user |-> 0, pw |-> 0, tok |-> 0, exp |-> 0, email |-> <<>>]

Set(q, r) == req' = [req EXCEPT ![q] = r]

Go(q, at) == Set(q, [req[q] EXCEPT !.at = at])

\* (Mutated form: the logins go before the password changes.)
SessionsFirst == <<"dropSessions", "update", "dropToken">>

\* The calls of a reset whose token was accepted.
ResetOrder == <<"update", "dropToken", "dropSessions">>

After(at) ==
  LET i == CHOOSE i \in 1..3 : ResetOrder[i] = at
  IN IF i = 3 THEN "free" ELSE ResetOrder[i + 1]

Init ==
  /\ db = NoRows /\ req = [q \in Reqs |-> Idle] /\ mails = {}
  /\ now = 0 /\ fresh = 1 /\ faults = 0 /\ spent = {} /\ cut = {}

\* How a call of the store ends: answered, or failed with or without effect.
Outcomes ==
  [ok : {TRUE}, effect : {TRUE}] \cup
  IF faults < MaxFaults THEN [ok : {FALSE}, effect : BOOLEAN] ELSE {}

Ended(o, then) ==
  /\ db' = IF o.effect THEN then ELSE db
  /\ faults' = IF o.ok THEN faults ELSE faults + 1

Draw == fresh <= MaxFresh /\ fresh' = fresh + 1

-----------------------------------------------------------------------------
(* Sign-up and log-in.                                                     *)

NewUser(name, email) == [id |-> fresh, name |-> name, email |-> email, hash |-> fresh]

SessionFor(u) == [Idle EXCEPT !.at = "session", !.user = u.id, !.pw = u.hash]

SignUp(q) ==
  /\ req[q].at = "free" /\ Draw
  /\ \E typed \in Usernames \cup Addresses, address \in Addresses, o \in Outcomes :
       LET u == NewUser(Normal(typed), Normal(address))
       IN /\ ValidUsername(u.name) /\ ValidEmail(u.email)
          /\ ~PgTaken(db, u)
          /\ Ended(o, PgCreateUser(db, u))
          /\ Set(q, IF o.ok THEN SessionFor(u) ELSE Idle)
  /\ UNCHANGED <<mails, now, spent, cut>>

\* handleLogin looks for the name, then for the address; the password typed
\* is the one of the row that was read, and checked against it.
LogInByName(q) ==
  /\ req[q].at = "free"
  /\ \E typed \in Usernames \cup Addresses :
       LET found == PgByName(db, Normal(typed))
       IN \/ \E u \in found : Set(q, SessionFor(u))
          \/ found = {} /\ Set(q, [Idle EXCEPT !.at = "email", !.email = Normal(typed)])
  /\ UNCHANGED <<db, mails, now, fresh, faults, spent, cut>>

LogInByEmail(q) ==
  /\ req[q].at = "email"
  /\ LET found == PgByEmail(db, req[q].email)
     IN \/ \E u \in found : Set(q, SessionFor(u))
        \/ found = {} /\ Set(q, Idle)
  /\ UNCHANGED <<db, mails, now, fresh, faults, spent, cut>>

UserOf(id) == CHOOSE u \in db.users : u.id = id

\* startSession.  The row also carries the password that was checked, and
\* whether that was no longer the user's when the row was made.
StartSession(q) ==
  /\ req[q].at = "session" /\ Draw
  /\ \E o \in Outcomes :
       LET s == [id |-> fresh, user |-> req[q].user, exp |-> now + SessionTTL,
                 with |-> req[q].pw,
                 late |-> UserOf(req[q].user).hash # req[q].pw]
       IN Ended(o, InsertSession(db, s))
  /\ Set(q, Idle)
  /\ UNCHANGED <<mails, now, spent, cut>>

LogOut(q) ==
  /\ req[q].at = "free"
  /\ \E s \in db.sessions, o \in Outcomes : Ended(o, DeleteSession(db, s.id))
  /\ UNCHANGED <<req, mails, now, fresh, spent, cut>>

-----------------------------------------------------------------------------
(* The reset of a password.                                                *)

AskReset(q) ==
  /\ req[q].at = "free"
  /\ \E typed \in Addresses : \E u \in PgByEmail(db, Normal(typed)) :
       Set(q, [Idle EXCEPT !.at = "token", !.user = u.id])
  /\ UNCHANGED <<db, mails, now, fresh, faults, spent, cut>>

\* (Mutated form: the error of CreateResetToken is not looked at.)
MailsAnyway(o) == TRUE

MailsAfter(o) == o.ok

StoreToken(q) ==
  /\ req[q].at = "token" /\ Draw
  /\ \E o \in Outcomes :
       /\ Ended(o, InsertReset(db, [id |-> fresh, user |-> req[q].user,
                                    exp |-> now + ResetTTL]))
       /\ Set(q, IF MailsAfter(o)
                   THEN [req[q] EXCEPT !.at = "mail", !.tok = fresh, !.exp = now + ResetTTL]
                   ELSE Idle)
  /\ UNCHANGED <<mails, now, spent, cut>>

\* The mail is sent in the background, and may be lost.
Mail(q) ==
  /\ req[q].at = "mail"
  /\ mails' \in {mails \cup {[id |-> req[q].tok, exp |-> req[q].exp]}, mails}
  /\ Set(q, Idle)
  /\ UNCHANGED <<db, now, fresh, faults, spent, cut>>

TakeToken(q) ==
  /\ req[q].at = "free"
  /\ \E t \in Fresh(db.resets, now) :
       Set(q, [Idle EXCEPT !.at = ResetOrder[1], !.user = t.user, !.tok = t.id])
  /\ UNCHANGED <<db, mails, now, fresh, faults, spent, cut>>

\* A failed update ends the request, whether or not it took effect.
ChangePassword(q) ==
  /\ req[q].at = "update" /\ Draw
  /\ \E o \in Outcomes :
       /\ Ended(o, SetPassword(db, req[q].user, fresh))
       /\ spent' = IF o.effect THEN spent \cup {[tok |-> req[q].tok, pw |-> fresh]}
                               ELSE spent
       /\ cut' = IF o.effect /\ ~o.ok THEN cut \cup {req[q].user} ELSE cut
       /\ IF o.ok THEN Go(q, After("update")) ELSE Set(q, Idle)
  /\ UNCHANGED <<mails, now>>

\* The errors of the two calls that follow are ignored.
DropToken(q) ==
  /\ req[q].at = "dropToken"
  /\ \E o \in Outcomes : Ended(o, DeleteReset(db, req[q].tok))
  /\ IF After("dropToken") = "free" THEN Set(q, Idle) ELSE Go(q, After("dropToken"))
  /\ UNCHANGED <<mails, now, fresh, spent, cut>>

DropSessions(q) ==
  /\ req[q].at = "dropSessions"
  /\ \E o \in Outcomes :
       /\ Ended(o, DeleteSessionsForUser(db, req[q].user))
       /\ cut' = IF o.effect THEN cut ELSE cut \cup {req[q].user}
  /\ IF After("dropSessions") = "free" THEN Set(q, Idle) ELSE Go(q, After("dropSessions"))
  /\ UNCHANGED <<mails, now, fresh, spent>>

-----------------------------------------------------------------------------
(* The clock, the maintenance loop and the process.                        *)

Tick == now < MaxNow /\ now' = now + 1
        /\ UNCHANGED <<db, req, mails, fresh, faults, spent, cut>>

\* ReapExpired: when the first DELETE fails the second is not made.
Reap ==
  /\ \/ db' = PgReap(db, now) /\ UNCHANGED faults
     \/ /\ faults < MaxFaults /\ faults' = faults + 1
        /\ db' = [db EXCEPT !.sessions = PgReaped(@, now)]
  /\ UNCHANGED <<req, mails, now, fresh, spent, cut>>

Changed == {req[q].user : q \in {p \in Reqs : req[p].at \in {"dropToken", "dropSessions"}}}

Crash ==
  /\ faults < MaxFaults /\ faults' = faults + 1
  /\ req' = [q \in Reqs |-> Idle]
  /\ cut' = cut \cup Changed
  /\ UNCHANGED <<db, mails, now, fresh, spent>>

Next ==
  \/ \E q \in Reqs :
       \/ SignUp(q) \/ LogInByName(q) \/ LogInByEmail(q) \/ StartSession(q)
       \/ LogOut(q) \/ AskReset(q) \/ StoreToken(q) \/ Mail(q)
       \/ TakeToken(q) \/ ChangePassword(q) \/ DropToken(q) \/ DropSessions(q)
  \/ Tick \/ Reap \/ Crash

Spec == Init /\ [][Next]_vars

-----------------------------------------------------------------------------
(* Properties.                                                             *)

Ids == 1..MaxFresh

TypeOK ==
  /\ \A u \in db.users : /\ u.id \in Ids /\ u.hash \in Ids
                          /\ ValidUsername(u.name) /\ ValidEmail(u.email)
  /\ \A s \in db.sessions : {s.id, s.user, s.with} \subseteq Ids /\ s.exp \in 1..(MaxNow + SessionTTL)
  /\ \A t \in db.resets : {t.id, t.user} \subseteq Ids /\ t.exp \in 1..(MaxNow + ResetTTL)
  /\ \A q \in Reqs : /\ {req[q].user, req[q].pw, req[q].tok} \subseteq Ids \cup {0}
                     /\ req[q].at \in {"free", "session", "email", "token", "mail",
                                       "update", "dropToken", "dropSessions"}
  /\ now \in 0..MaxNow /\ fresh \in 1..(MaxFresh + 1) /\ faults \in 0..MaxFaults
  /\ cut \subseteq Ids

\* Whom handleLogin finds under what was typed.
Found(typed) ==
  IF PgByName(db, typed) # {} THEN PgByName(db, typed) ELSE PgByEmail(db, typed)

\* Everyone can log in with their name and with their address: neither is
\* anyone else's, nor does a name hide an address, although both are looked
\* up under what is typed in one field.
LogInFindsItsAccount ==
  \A u \in db.users : Found(u.name) = {u} /\ Found(u.email) = {u}

\* A reset ends the logins made with an earlier password.  What is left of
\* them when it has run belongs to a log-in that had checked the password
\* before it changed, or to a reset some call of which failed.
ResetEndsOldLogins ==
  \A s \in db.sessions :
    s.with # UserOf(s.user).hash => s.late \/ s.user \in cut \cup Changed

\* A link that was mailed works until it expires or is used.
MailedLinksWork ==
  \A m \in mails : \/ m.exp <= now
                   \/ \E t \in db.resets : t.id = m.id
                   \/ \E c \in spent : c.tok = m.id

==============================================================================

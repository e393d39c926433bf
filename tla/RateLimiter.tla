----------------------------- MODULE RateLimiter ------------------------------
(***************************************************************************)
(* internal/server/ratelimit.go: a fixed window per key, kept in a map     *)
(* that the maintenance loop sweeps.                                       *)
(***************************************************************************)
EXTENDS Integers

CONSTANTS Keys,   \* client addresses
          Limit,    \* requests admitted per window
          Window, \* its length
          Closed, \* no window
          MaxTime, MaxCount \* bounds

ASSUME LimitAssumption == Limit \in Nat \ {0} /\ Window \in Nat \ {0}
ASSUME TimeAssumption == MaxTime \in Nat /\ MaxCount \in Nat
ASSUME ClosedAssumption ==
  /\ Closed \notin [start : Nat, count : Nat]
  /\ Closed \notin [key : Keys, admitted : BOOLEAN]

VARIABLES clock, hits, \* the clock and the map; Closed stands for no entry
          answer       \* the last request: its key and whether it was admitted

limiterVars == <<clock, hits, answer>>

LimiterInit ==
  /\ clock = 0
  /\ hits = [k \in Keys |-> Closed]
  /\ answer = Closed

Elapsed(w) == clock - w.start >= Window

Under(count) == count <= Limit

Answer(k, b) ==
  /\ answer' = [key |-> k, admitted |-> b]
  /\ UNCHANGED clock

Running(w) == w # Closed /\ ~Elapsed(w)

NewWindow == [start |-> clock, count |-> 1]

\* allow, for a key without a window or with one that is over.
AllowsFirst(k) ==
  /\ ~Running(hits[k])
  /\ hits' = [hits EXCEPT ![k] = NewWindow]
  /\ Answer(k, TRUE)

\* allow, within a window.
AllowsOrNot(k) ==
  /\ Running(hits[k])
  /\ hits[k].count < MaxCount
  /\ hits' = [hits EXCEPT ![k].count = @ + 1]
  /\ Answer(k, Under(hits[k].count + 1))

\* (Mutated form: windows that have used up their requests go too.)
SweptFull(w) == w # Closed /\ (Elapsed(w) \/ w.count >= Limit)

Swept(w) == w # Closed /\ Elapsed(w)

Sweep ==
  /\ hits' = [k \in Keys |-> IF Swept(hits[k]) THEN Closed ELSE hits[k]]
  /\ UNCHANGED <<clock, answer>>

ClockTicks == clock < MaxTime /\ clock' = clock + 1 /\ UNCHANGED <<hits, answer>>

LimiterNext == Sweep \/ ClockTicks \/ \E k \in Keys : AllowsFirst(k) \/ AllowsOrNot(k)

LimiterSpec == LimiterInit /\ [][LimiterNext]_limiterVars

-----------------------------------------------------------------------------

\* The limiter behaves like windows that close by themselves: neither a late
\* sweep nor one between two requests changes an answer.
Closing(w) == IF Running(w) THEN w ELSE Closed

Promise == INSTANCE Quota WITH now <- clock, open <- [k \in Keys |-> Closing(hits[k])]

KeepsPromise == Promise!Spec
==============================================================================
